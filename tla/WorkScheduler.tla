---------------------------- MODULE WorkScheduler ----------------------------
(***************************************************************************)
(* The scheduler role of src/lib/ops/worker-scheduler.ts: a cycle walks    *)
(* the handler catalog and enqueues, for every active handler, the work    *)
(* item of the current time bucket, or one item per document that waits    *)
(* for its scan.  enqueueWorkItem is two statements, an insert that skips  *)
(* duplicates and a comparison with the row on record; a difference throws *)
(* and ends the cycle and its process.  Claims, retries and replays by the *)
(* consumers and operators change the rows in between.                     *)
(***************************************************************************)
EXTENDS Naturals, Sequences, SequencesExt

CONSTANTS
  Scheduler,     \* scheduler processes
  Catalog,       \* WORKER_HANDLER_CATALOG: the handlers in the order a cycle visits them
  Scan,          \* the handler documents.scan
  Period,        \* Period[h]: the divisor of a boundary handler, in ticks of the clock
  Doc,           \* document versions
  ScanLimit,     \* documents taken into one cycle
  Budgets,       \* values of policy.maxAttempts
  RetryDelay,    \* delay of a retry, in ticks
  MaxTime,       \* bound: the clock
  MaxBudget      \* bound: maxAttempts of a replayed item

ASSUME BudgetAssumption == Budgets \subseteq Nat \ {0}
ASSUME CatalogAssumption == Catalog \in Seq(Range(Catalog))
ASSUME PeriodAssumption == \A h \in Range(Catalog) \ {Scan} : Period[h] \in Nat \ {0}
ASSUME BoundAssumption == {ScanLimit, RetryDelay, MaxTime, MaxBudget} \subseteq Nat

VARIABLES
  clock,     \* the time
  policy,    \* policy[h]: maxAttempts of the active handler, 0 when it or its provider is not active
  waiting,   \* documents QUARANTINED or SCAN_FAILED, oldest first
  row,       \* row[k]: the work item under dedupe key k
  sched      \* sched[s]: the cycle of scheduler s

vars == <<clock, policy, waiting, row, sched>>

Handler == Range(Catalog)
Key == [handler : Handler \ {Scan}, subject : 0..MaxTime] \cup [handler : {Scan}, subject : Doc]
Status == {"PENDING", "RETRY", "SUCCEEDED", "DEAD_LETTER"}
Row == [status : Status, availableAt : Nat, maxAttempts : Nat]
Absent == [status |-> "ABSENT"]
Request == [key : Key, availableAt : Nat, maxAttempts : Nat]
Idle == [pc |-> "idle", now |-> 0, at |-> 1, todo |-> <<>>]

Init ==
  /\ clock = 0
  /\ policy = [h \in Handler |-> 0]
  /\ waiting = <<>>
  /\ row = [k \in Key |-> Absent]
  /\ sched = [s \in Scheduler |-> Idle]

-----------------------------------------------------------------------------
(* The rows' other writers *)

Tick ==
  /\ clock < MaxTime
  /\ clock' = clock + 1
  /\ UNCHANGED <<policy, waiting, row, sched>>

SetPolicy(h) ==
  /\ \E budget \in Budgets \cup {0} : policy' = [policy EXCEPT ![h] = budget]
  /\ UNCHANGED <<clock, waiting, row, sched>>

QuarantineDocument(d) ==
  /\ d \notin Range(waiting)
  /\ row[[handler |-> Scan, subject |-> d]] = Absent
  /\ waiting' = Append(waiting, d)
  /\ UNCHANGED <<clock, policy, row, sched>>

Without(d) ==
  IF d \in Range(waiting)
  THEN RemoveAt(waiting, CHOOSE n \in DOMAIN waiting : waiting[n] = d) ELSE waiting

Runnable(k) == row[k].status \in {"PENDING", "RETRY"} /\ row[k].availableAt <= clock

\* A consumer runs the item: it succeeds (a document is then no longer waiting), is
\* retried later, or dies.
ConsumeItem(k) ==
  /\ Runnable(k)
  /\ \/ /\ row' = [row EXCEPT ![k].status = "SUCCEEDED"]
        /\ waiting' = IF k.handler = Scan THEN Without(k.subject) ELSE waiting
     \/ /\ row' = [row EXCEPT ![k].status = "RETRY", ![k].availableAt = clock + RetryDelay]
        /\ UNCHANGED waiting
     \/ /\ row' = [row EXCEPT ![k].status = "DEAD_LETTER"]
        /\ UNCHANGED waiting
  /\ UNCHANGED <<clock, policy, sched>>

ReplayItem(k) ==
  /\ row[k].status = "DEAD_LETTER" /\ row[k].maxAttempts < MaxBudget
  /\ row' = [row EXCEPT ![k].status = "RETRY", ![k].availableAt = clock,
                        ![k].maxAttempts = @ + 1]
  /\ UNCHANGED <<clock, policy, waiting, sched>>

-----------------------------------------------------------------------------
(* A scheduler cycle *)

StartCycle(s) ==
  /\ sched[s].pc = "idle"
  /\ sched' = [sched EXCEPT ![s] = [pc |-> "handler", now |-> clock, at |-> 1, todo |-> <<>>]]
  /\ UNCHANGED <<clock, policy, waiting, row>>

BucketStart(h, now) == (now \div Period[h]) * Period[h]

\* Mutant: a tick is made available from the time of the cycle.
RequestsFromNow(h, now) ==
  IF policy[h] = 0 THEN <<>>
  ELSE IF h = Scan /\ waiting = <<>> THEN <<>>
  ELSE <<[key |-> [handler |-> h, subject |-> IF h = Scan THEN Head(waiting)
                                             ELSE BucketStart(h, now)],
          availableAt |-> now, maxAttempts |-> policy[h]]>>

\* What the cycle asks for, for handler h: enqueueScheduleTick, enqueueDocumentScans.
Requests(h, now) ==
  IF policy[h] = 0 THEN <<>>
  ELSE IF h = Scan
  THEN [n \in 1..(IF Len(waiting) < ScanLimit THEN Len(waiting) ELSE ScanLimit) |->
          [key |-> [handler |-> h, subject |-> waiting[n]],
           availableAt |-> now, maxAttempts |-> policy[h]]]
  ELSE <<[key |-> [handler |-> h, subject |-> BucketStart(h, now)],
          availableAt |-> BucketStart(h, now), maxAttempts |-> policy[h]]>>

ScheduleHandler(s) ==
  /\ sched[s].pc = "handler"
  /\ LET cycle == sched[s] IN
     sched' = [sched EXCEPT ![s] =
                 IF cycle.at > Len(Catalog) THEN Idle
                 ELSE [cycle EXCEPT !.pc = "insert",
                                    !.todo = Requests(Catalog[cycle.at], cycle.now)]]
  /\ UNCHANGED <<clock, policy, waiting, row>>

\* createMany with skipDuplicates; with nothing left to ask for, on to the next handler.
Insert(s) ==
  /\ sched[s].pc = "insert"
  /\ IF sched[s].todo = <<>>
     THEN /\ sched' = [sched EXCEPT ![s].pc = "handler", ![s].at = @ + 1]
          /\ UNCHANGED row
     ELSE LET wanted == Head(sched[s].todo) IN
          /\ row' = [row EXCEPT ![wanted.key] =
                       IF @ # Absent THEN @
                       ELSE [status |-> "PENDING", availableAt |-> wanted.availableAt,
                             maxAttempts |-> wanted.maxAttempts]]
          /\ sched' = [sched EXCEPT ![s].pc = "compare"]
  /\ UNCHANGED <<clock, policy, waiting>>

Same(k, wanted) ==
  /\ row[k].availableAt = wanted.availableAt
  /\ row[k].maxAttempts = wanted.maxAttempts

\* findUniqueOrThrow and the comparison: WORK_ITEM_DEDUPE_CONFLICT ends the cycle and the
\* process, the handlers after it in the catalog are not visited.
Compare(s) ==
  /\ sched[s].pc = "compare"
  /\ LET cycle == sched[s]
         wanted == Head(cycle.todo)
     IN  sched' = [sched EXCEPT ![s] =
                     IF Same(wanted.key, wanted)
                     THEN [cycle EXCEPT !.pc = "insert", !.todo = Tail(cycle.todo)] ELSE Idle]
  /\ UNCHANGED <<clock, policy, waiting, row>>

Next ==
  \/ Tick
  \/ \E h \in Handler : SetPolicy(h)
  \/ \E d \in Doc : QuarantineDocument(d)
  \/ \E k \in Key : ConsumeItem(k) \/ ReplayItem(k)
  \/ \E s \in Scheduler : StartCycle(s) \/ ScheduleHandler(s) \/ Insert(s) \/ Compare(s)

Spec == Init /\ [][Next]_vars

-----------------------------------------------------------------------------
\* Types: buckets lie within the time that has passed, and a cycle compares only what it
\* has asked for.
TypeOK ==
  /\ clock \in 0..MaxTime
  /\ policy \in [Handler -> Budgets \cup {0}]
  /\ waiting \in Seq(Doc)
  /\ row \in [Key -> Row \cup {Absent}]
  /\ sched \in [Scheduler -> [pc : {"idle", "handler", "insert", "compare"}, now : 0..MaxTime,
                              at : Nat \ {0}, todo : Seq(Request)]]
  /\ \A s \in Scheduler : sched[s].pc = "compare" => sched[s].todo # <<>>

\* Schedulers of one policy ask alike: whatever time passes between an insert and its
\* comparison, and whoever inserted the tick of the bucket, an item that nobody has run yet
\* is found as it was asked for, and the cycle goes on to the next handler.
TicksAgree ==
  \A s \in Scheduler :
    LET wanted == Head(sched[s].todo) IN
    /\ sched[s].pc = "compare"
    /\ wanted.key.handler # Scan
    /\ row[wanted.key].status = "PENDING"
    => Same(wanted.key, wanted)

\* What the scheduler's comment says of a document (worker-scheduler.ts:186-188: it owns one
\* work item, and retries are transitions of that item) and the integration test of a second
\* cycle (scheduled-domain-handlers-postgres.test.ts:68-75: nothing created, every item
\* replayed): asking again for an item nobody has run yet is a replay, never a conflict.
ReschedulingReplays ==
  \A s \in Scheduler :
    LET wanted == Head(sched[s].todo) IN
    sched[s].pc = "compare" /\ row[wanted.key].status = "PENDING" => Same(wanted.key, wanted)
=============================================================================
