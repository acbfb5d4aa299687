SPECIFICATION Spec
SYMMETRY Alike
CONSTANTS
  VersionCount = 2
  Content = {good, bad}
  Harmless = {good}
  Nothing = nothing
  Declared = {nothing}
  Crashes = TRUE
  Uploader = {u1}
  Scanner = {s1, s2}
  Reader = {}
  Grant = {}
CHECK_DEADLOCK FALSE
INVARIANT
  TypeOK
  OneOpenIntent
  OneCleanVersion
  EvidenceKept
