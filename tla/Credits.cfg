SPECIFICATION Spec
CONSTANTS
  Terms <- TwoGrants
  Amount <- TwoOperations
  NoOp = NoOp
  Caller = {c1, c2}
  Reverser = {r1, r2}
  Sweeper = {x1}
  MaxTime = 1
  MaxAttempts = 2
  MaxRequests = 2
  MaxFaults = 1
CHECK_DEADLOCK FALSE
INVARIANTS
  TypeOK
  SpentWithinGrant
  ChargedOnce
PROPERTIES
  WrittenOffIsSpent
  DueGrantsClose
  WalletSpec
