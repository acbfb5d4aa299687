SPECIFICATION Spec
CONSTANTS
  Scheduler = {s1}
  minutely = minutely
  hourly = hourly
  Scan = Scan
  Catalog <- Handlers
  Period <- Divisors
  Doc = {d1}
  ScanLimit = 1
  Budgets <- OneBudget
  RetryDelay = 1
  MaxTime = 2
  MaxBudget = 2
CHECK_DEADLOCK FALSE
INVARIANT ReschedulingReplays
