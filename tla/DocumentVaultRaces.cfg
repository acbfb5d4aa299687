SPECIFICATION Spec
SYMMETRY Alike
CONSTANTS
  VersionCount = 1
  Content = {good, bad}
  Harmless = {good}
  Nothing = nothing
  Declared = {nothing}
  Crashes = TRUE
  Uploader = {u1, u2}
  Scanner = {s1}
  Reader = {r1, r2}
  Grant = {g1}
CHECK_DEADLOCK FALSE
INVARIANT
  ErasureCovers
  IntentFollowsVersion
  DigestIsObject
  ReadableIsHarmless
  GrantServesOnce
PROPERTY
  ServedWithAccess
