SPECIFICATION Spec
CONSTANTS
  Note = {n1}
  Explicit = {n1}
  Task = {t1}
  Worker = {w1}
  NoWorker = NoWorker
  MaxAttempts = 2
  BatchSize = 1
  MaxReleases = 0
  Activation = {a1}
  MaxFaults = 0
  NoNote = NoNote
  NoActivation = NoActivation
INVARIANT DeadLetterUnsent
