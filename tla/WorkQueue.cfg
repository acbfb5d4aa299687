SPECIFICATION FairSpec
\* One item contended by two processes: takeovers, stale tasks, late answers.
CONSTANTS
  Item = {i1}
  Worker = {w1, w2}
  NoWorker = NoWorker
  MaxAttempts = 2
  BatchSize = 1
  MaxConcurrency = 1
  AddedBudget = 1
  MaxReplays = 0
  MaxEpoch = 1
  MaxExits = 1
\* With the handler revoked for good the queue may stop.
CHECK_DEADLOCK FALSE
INVARIANTS
  TypeOK
  AttemptLedger
  SuccessIsEvidenced
  NoEffectKeyConflict
PROPERTIES
  StaleTaskPowerless
  HolderDoesNotRepeat
  SuccessIsFinal
  EveryItemSettles
