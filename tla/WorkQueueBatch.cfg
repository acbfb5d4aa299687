SPECIFICATION Spec
\* Two items claimed as a batch and run side by side in one process, with replays.
CONSTANTS
  Item = {i1, i2}
  Worker = {w1}
  NoWorker = NoWorker
  MaxAttempts = 1
  BatchSize = 2
  MaxConcurrency = 2
  AddedBudget = 1
  MaxReplays = 1
  MaxEpoch = 1
  MaxExits = 1
SYMMETRY ItemsAlike
CHECK_DEADLOCK FALSE
INVARIANT DeadLetterEvidence
PROPERTY
  LedgerSpec
