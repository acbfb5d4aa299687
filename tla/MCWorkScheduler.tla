--------------------------- MODULE MCWorkScheduler ---------------------------
(* Instances of WorkScheduler for TLC: a minute-boundary handler, documents.scan, and an
   hour-boundary handler after it (an "hour" has two ticks). *)
EXTENDS WorkScheduler, TLC

CONSTANTS minutely, hourly
Handlers == <<minutely, Scan, hourly>>
ScanAndTick == <<Scan, hourly>>
Divisors == [h \in {minutely, hourly} |-> IF h = hourly THEN 2 ELSE 1]
OneBudget == {1}

\* Nothing tells schedulers apart.
SchedulersAlike == Permutations(Scheduler)
=============================================================================
