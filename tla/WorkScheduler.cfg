SPECIFICATION Spec
SYMMETRY SchedulersAlike
CONSTANTS
  Scheduler = {s1, s2}
  minutely = minutely
  hourly = hourly
  Scan = Scan
  Catalog <- ScanAndTick
  Period <- Divisors
  Doc = {d1}
  ScanLimit = 1
  Budgets <- OneBudget
  RetryDelay = 1
  MaxTime = 2
  MaxBudget = 2
CHECK_DEADLOCK FALSE
INVARIANTS
  TicksAgree
