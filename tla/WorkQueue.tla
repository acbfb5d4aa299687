------------------------------ MODULE WorkQueue ------------------------------
(***************************************************************************)
(* The PostgreSQL-backed work queue of src/lib/ops: worker processes claim *)
(* leased work items of one registered handler, run the handler under a    *)
(* heartbeat, record a fenced effect receipt and acknowledge.  The module  *)
(* covers the queue tables (WorkItem, WorkAttempt, WorkEffectReceipt,      *)
(* WorkDeadLetter, WorkerRun, WorkerHandlerActivation), the consumer loop  *)
(* of a process and every task it has in flight.                           *)
(*                                                                         *)
(* One step is one database transaction, or one step of a process between  *)
(* two of them.  Time is abstracted to two flags of an item: its           *)
(* availableAt has been reached (due), its leaseExpiresAt has passed       *)
(* (expired).  The code compares them with a Date read by the calling      *)
(* process before the statement runs, so the reading may be old: a holder  *)
(* may still take its own expired lease for valid, while a claim needs a   *)
(* lease that really has expired.                                          *)
(***************************************************************************)
EXTENDS Naturals, FiniteSets

CONSTANTS
  Item,            \* identities of work items (dedupe keys; the effect key is a function of it)
  Worker,          \* worker process slots: a restarted process is a new WorkerRun in its slot
  NoWorker,        \* leaseOwner IS NULL
  MaxAttempts,     \* maxAttempts a work item is enqueued with
  BatchSize,       \* policy.batchSize
  MaxConcurrency,  \* policy.maxConcurrency
  AddedBudget,     \* addedAttemptBudget of a replay
  MaxReplays,      \* bound: replays of one item
  MaxEpoch,        \* bound: activations ever made
  MaxExits         \* bound: process exits, crashes and kills included

ASSUME WorkerAssumption == NoWorker \notin Worker
ASSUME PolicyAssumption ==
  /\ MaxAttempts \in Nat \ {0}
  /\ BatchSize \in Nat \ {0}
  /\ MaxConcurrency \in Nat \ {0}
  /\ AddedBudget \in Nat \ {0}
ASSUME BoundAssumption == MaxReplays \in Nat /\ MaxEpoch \in Nat /\ MaxExits \in Nat
ASSUME FiniteAssumption == IsFiniteSet(Item)

VARIABLES
  item,        \* WorkItem rows
  attempts,    \* attempts[i]: the WorkAttempt rows of the item
  receipt,     \* receipt[i]: leaseFencingToken of its WorkEffectReceipt, 0 if there is none
  letter,      \* letter[i]: terminalAttempt of its WorkDeadLetter, 0 if there is none
  activation,  \* newest WorkerHandlerActivation: its epoch, and whether it grants authority
  run,         \* run[w]: the WorkerRun row of the process now in slot w
  proc,        \* proc[w]: where its main loop is
  bound,       \* bound[w]: activation epoch its cycle started with, 0 between cycles
  shutdown,    \* shutdown[w]: SIGTERM or SIGINT was received
  task,        \* task[w][i]: the process's execution of a claimed item
  effects,     \* effects[i]: fencing tokens under which the handler took effect (history)
  exits        \* number of process exits so far

rows == <<item, attempts, receipt, letter>>
main == <<proc, bound, shutdown>>
vars == <<item, attempts, receipt, letter, activation, run, proc, bound, shutdown,
          task, effects, exits>>

-----------------------------------------------------------------------------
(* Types and derived state *)

Status == {"ABSENT", "PENDING", "RETRY", "LEASED", "SUCCEEDED", "DEAD_LETTER", "PAUSED"}
Outcome == {"SUCCEEDED", "EFFECT_ALREADY_APPLIED", "RETRY_SCHEDULED", "LEASE_LOST",
            "DEAD_LETTERED", "PAUSED"}
\* CONFIGURATION pauses, PERMANENT (validation, client) is terminal, UNKNOWN stands
\* for the classes that are retried (TRANSIENT, RATE_LIMITED, TIMEOUT, UNKNOWN).
FailureClass == {"CONFIGURATION", "PERMANENT", "UNKNOWN"}
\* A task whose pc is a failure class is about to call failWorkItem with it.
TaskPc == {"none", "claimed", "ready", "check", "handler", "applied", "returned",
           "recorded", "known"} \cup FailureClass
ProcPc == {"down", "idle", "terminalize", "claim", "dispatch", "exiting", "exited"}
RunStatus == {"RUNNING", "FAILED"}

ItemRow == [status : Status, attemptCount : Nat, maxAttempts : Nat, fencingToken : Nat,
            replayCount : Nat, owner : Worker \cup {NoWorker}, epoch : Nat,
            due : BOOLEAN, expired : BOOLEAN]
AttemptRow == [number : Nat, outcome : Outcome]
RunRow == [status : RunStatus, claimed : Nat, succeeded : Nat, failed : Nat]
Task == [pc : TaskPc, token : Nat, healthy : BOOLEAN]

NoItem == [status |-> "ABSENT", attemptCount |-> 0, maxAttempts |-> 0, fencingToken |-> 0,
           replayCount |-> 0, owner |-> NoWorker, epoch |-> 0, due |-> FALSE,
           expired |-> FALSE]
NoTask == [pc |-> "none", token |-> 0, healthy |-> TRUE]
FreshRun == [status |-> "RUNNING", claimed |-> 0, succeeded |-> 0, failed |-> 0]

\* The conditions of lockClaimActivation: this activation, at this generation.
Current(epoch) == activation.active /\ activation.epoch = epoch

\* Mutant: the status of the row is not compared.
OwnsByFence(w, i) == item[i].fencingToken = task[w][i].token
\* Mutant: any lease will do.
OwnsAnyLease(w, i) == item[i].status = "LEASED"

\* The identity and fence part of lockLease.
Owns(w, i) ==
  /\ item[i].status = "LEASED"
  /\ item[i].owner = w
  /\ item[i].fencingToken = task[w][i].token

InFlight(w) == {i \in Item : task[w][i].pc \notin {"none", "claimed"}}
Claimed(w) == {i \in Item : task[w][i].pc = "claimed"}
Smaller(m, n) == IF m < n THEN m ELSE n

\* The heartbeat loop runs between the first heartbeat and the handler's return.
Looping == {"check", "handler", "applied"}
LoopRunning(w, i) == task[w][i].pc \in Looping

\* The unique index (workItemId, attemptNumber) still has room for this attempt.
SlotFree(i) == \A a \in attempts[i] : a.number # item[i].attemptCount

WithAttempt(i, outcome) ==
  attempts[i] \cup {[number |-> item[i].attemptCount, outcome |-> outcome]}

\* clearLease: the row leaves LEASED and every lease column is nulled.
Released(row, status) ==
  [row EXCEPT !.status = status, !.owner = NoWorker, !.epoch = 0, !.expired = FALSE,
              !.due = FALSE]

TypeOK ==
  /\ item \in [Item -> ItemRow]
  /\ attempts \in [Item -> SUBSET AttemptRow]
  /\ receipt \in [Item -> Nat]
  /\ letter \in [Item -> Nat]
  /\ activation \in [epoch : Nat, active : BOOLEAN]
  /\ run \in [Worker -> RunRow]
  /\ proc \in [Worker -> ProcPc]
  /\ bound \in [Worker -> Nat]
  /\ shutdown \in [Worker -> BOOLEAN]
  /\ task \in [Worker -> [Item -> Task]]
  /\ effects \in [Item -> SUBSET Nat]
  /\ exits \in Nat

Init ==
  /\ item = [i \in Item |-> NoItem]
  /\ attempts = [i \in Item |-> {}]
  /\ receipt = [i \in Item |-> 0]
  /\ letter = [i \in Item |-> 0]
  /\ activation = [epoch |-> 0, active |-> FALSE]
  /\ run = [w \in Worker |-> FreshRun]
  /\ proc = [w \in Worker |-> "down"]
  /\ bound = [w \in Worker |-> 0]
  /\ shutdown = [w \in Worker |-> FALSE]
  /\ task = [w \in Worker |-> [i \in Item |-> NoTask]]
  /\ effects = [i \in Item |-> {}]
  /\ exits = 0

-----------------------------------------------------------------------------
(* The tables' other writers, and time *)

\* enqueueWorkItem under a new dedupe key; a payment retry is not due at once.
EnqueueWorkItem(i) ==
  /\ item[i].status = "ABSENT"
  /\ \E due \in BOOLEAN :
       item' = [item EXCEPT ![i] = [@ EXCEPT !.status = "PENDING",
                                             !.maxAttempts = MaxAttempts, !.due = due]]
  /\ UNCHANGED <<attempts, receipt, letter, activation, run, main, task, effects, exits>>

\* activateSandboxHandler: what was active is revoked and a new activation made.
ActivateHandler ==
  /\ activation.epoch < MaxEpoch
  /\ activation' = [epoch |-> activation.epoch + 1, active |-> TRUE]
  /\ UNCHANGED <<rows, run, main, task, effects, exits>>

\* A kill switch, a revocation or expiresAt ends the current activation's authority.
RevokeActivation ==
  /\ activation.active
  /\ activation' = [activation EXCEPT !.active = FALSE]
  /\ UNCHANGED <<rows, run, main, task, effects, exits>>

\* Another try, with a larger budget.
Replayed(row) ==
  [row EXCEPT !.status = "RETRY", !.due = TRUE, !.replayCount = @ + 1,
              !.maxAttempts = @ + AddedBudget]

\* replayDeadLetterInSandbox; MaxReplays bounds it here, a ceiling of 64 attempts there.
ReplayDeadLetter(i) ==
  /\ item[i].status = "DEAD_LETTER"
  /\ letter[i] # 0
  /\ item[i].replayCount < MaxReplays
  /\ item' = [item EXCEPT ![i] = Replayed(@)]
  /\ UNCHANGED <<attempts, receipt, letter, activation, run, main, task, effects, exits>>

LeaseExpires(i) ==
  /\ item[i].status = "LEASED" /\ ~item[i].expired
  /\ item' = [item EXCEPT ![i].expired = TRUE]
  /\ UNCHANGED <<attempts, receipt, letter, activation, run, main, task, effects, exits>>

BecomesDue(i) ==
  /\ item[i].status \in {"PENDING", "RETRY"} /\ ~item[i].due
  /\ item' = [item EXCEPT ![i].due = TRUE]
  /\ UNCHANGED <<attempts, receipt, letter, activation, run, main, task, effects, exits>>

-----------------------------------------------------------------------------
(* The main loop of a worker process *)

\* The slot is empty again; what the process held in memory is gone, its row is history.
Gone(w) ==
  /\ proc' = [proc EXCEPT ![w] = "down"]
  /\ bound' = [bound EXCEPT ![w] = 0]
  /\ shutdown' = [shutdown EXCEPT ![w] = FALSE]
  /\ run' = [run EXCEPT ![w] = FreshRun]
  /\ task' = [task EXCEPT ![w] = [i \in Item |-> NoTask]]

\* createWorkerRun: the slot's next process has a row of its own, counting from zero.
StartProcess(w) ==
  /\ proc[w] = "down"
  /\ proc' = [proc EXCEPT ![w] = "idle"]
  /\ UNCHANGED <<rows, activation, run, bound, shutdown, task, effects, exits>>

\* resolvePersistedHandlerActivation: an inactive handler is passed over.
BeginCycle(w) ==
  /\ proc[w] = "idle" /\ ~shutdown[w]
  /\ activation.active
  /\ bound' = [bound EXCEPT ![w] = activation.epoch]
  /\ proc' = [proc EXCEPT ![w] = "terminalize"]
  /\ UNCHANGED <<rows, activation, run, shutdown, task, effects, exits>>

Exhausted(i) ==
  /\ item[i].status = "LEASED" /\ item[i].expired
  /\ item[i].attemptCount >= item[i].maxAttempts

\* terminalizeExpiredAttemptBudgets, the first statement of claimWorkBatch.  Rows
\* another transaction has locked are skipped, so any part of the batch may be taken;
\* an item whose attempt number is already logged is left as it is.
Terminalize(w) ==
  /\ proc[w] = "terminalize"
  /\ \E picked \in SUBSET {i \in Item : Exhausted(i)} :
       LET dead == {i \in picked : SlotFree(i)} IN
       /\ Cardinality(picked) <= BatchSize
       /\ attempts' = [i \in Item |-> IF i \in dead THEN WithAttempt(i, "DEAD_LETTERED")
                                                    ELSE attempts[i]]
       /\ item' = [i \in Item |-> IF i \in dead THEN Released(item[i], "DEAD_LETTER")
                                                ELSE item[i]]
       /\ letter' = [i \in Item |-> IF i \in dead /\ letter[i] = 0
                                    THEN item[i].attemptCount ELSE letter[i]]
  /\ proc' = [proc EXCEPT ![w] = "claim"]
  /\ UNCHANGED <<receipt, activation, run, bound, shutdown, task, effects, exits>>

\* Mutant: abandoned leases are not taken over.
ClaimableUnleased(i) ==
  /\ item[i].attemptCount < item[i].maxAttempts
  /\ item[i].status \in {"PENDING", "RETRY"} /\ item[i].due

Claimable(i) ==
  /\ item[i].attemptCount < item[i].maxAttempts
  /\ \/ item[i].status \in {"PENDING", "RETRY"} /\ item[i].due
     \/ item[i].status = "LEASED" /\ item[i].expired

LeasedTo(row, w) ==
  [row EXCEPT !.status = "LEASED", !.attemptCount = @ + 1, !.fencingToken = @ + 1,
              !.owner = w, !.epoch = bound[w], !.due = FALSE, !.expired = FALSE]

\* Mutant: a takeover does not log the attempt it ends.
AfterLostLeaseUnlogged(i) == attempts[i]

\* An expired lease is taken over: its lost attempt is logged in the same statement.
AfterLostLease(i) ==
  IF item[i].status = "LEASED" /\ SlotFree(i) THEN WithAttempt(i, "LEASE_LOST")
                                              ELSE attempts[i]

Lease(w, batch) ==
  /\ attempts' = [i \in Item |-> IF i \in batch THEN AfterLostLease(i) ELSE attempts[i]]
  /\ item' = [i \in Item |-> IF i \in batch THEN LeasedTo(item[i], w) ELSE item[i]]
  /\ run' = [run EXCEPT ![w].claimed = @ + Cardinality(batch)]
  /\ UNCHANGED <<receipt, letter>>

\* The claiming transaction; the activation is locked and compared first.
ClaimWorkBatch(w) ==
  /\ proc[w] = "claim"
  /\ Current(bound[w])
  /\ \E batch \in SUBSET {i \in Item : Claimable(i)} :
       /\ batch # {} /\ Cardinality(batch) <= BatchSize
       /\ Lease(w, batch)
       /\ task' = [task EXCEPT ![w] = [i \in Item |->
                     IF i \in batch
                     THEN [NoTask EXCEPT !.pc = "claimed", !.token = item[i].fencingToken + 1]
                     ELSE NoTask]]
  /\ proc' = [proc EXCEPT ![w] = "dispatch"]
  /\ UNCHANGED <<activation, bound, shutdown, effects, exits>>

\* Nothing claimed: nothing claimable, every candidate locked, or authority withdrawn.
ClaimNothing(w) ==
  /\ proc[w] = "claim"
  /\ proc' = [proc EXCEPT ![w] = "idle"]
  /\ bound' = [bound EXCEPT ![w] = 0]
  /\ UNCHANGED <<rows, activation, run, shutdown, task, effects, exits>>

\* The claim commits but its answer is lost: the cycle throws, the leases stay.
ClaimAnswerLost(w) ==
  /\ proc[w] = "claim" /\ exits < MaxExits
  /\ Current(bound[w])
  /\ \E batch \in SUBSET {i \in Item : Claimable(i)} :
       batch # {} /\ Cardinality(batch) <= BatchSize /\ Lease(w, batch)
  /\ proc' = [proc EXCEPT ![w] = "exiting"]
  /\ exits' = exits + 1
  /\ bound' = [bound EXCEPT ![w] = 0]
  /\ UNCHANGED <<activation, shutdown, task, effects>>

\* Before each concurrency group the activation is resolved again.  If it is no longer
\* the one the cycle claimed under, the group is paused instead of executed.
GroupPc(w) == IF Current(bound[w]) THEN "ready" ELSE "CONFIGURATION"

StartGroup(w) ==
  /\ proc[w] = "dispatch"
  /\ InFlight(w) = {} /\ Claimed(w) # {}
  /\ \E group \in SUBSET Claimed(w) :
       /\ Cardinality(group) = Smaller(MaxConcurrency, Cardinality(Claimed(w)))
       /\ task' = [task EXCEPT ![w] = [i \in Item |->
                     IF i \in group THEN [task[w][i] EXCEPT !.pc = GroupPc(w)]
                                    ELSE task[w][i]]]
  /\ UNCHANGED <<rows, activation, run, main, effects, exits>>

EndCycle(w) ==
  /\ proc[w] = "dispatch"
  /\ InFlight(w) = {} /\ Claimed(w) = {}
  /\ proc' = [proc EXCEPT ![w] = "idle"]
  /\ bound' = [bound EXCEPT ![w] = 0]
  /\ UNCHANGED <<rows, activation, run, shutdown, task, effects, exits>>

\* A database error outside the tasks, or the run's own heartbeat lost: the cycle throws
\* and the leases it holds are left to expire.
CycleThrows(w) ==
  /\ proc[w] \in {"idle", "terminalize", "claim", "dispatch"}
  /\ InFlight(w) = {} /\ exits < MaxExits
  /\ proc' = [proc EXCEPT ![w] = "exiting"]
  /\ exits' = exits + 1
  /\ bound' = [bound EXCEPT ![w] = 0]
  /\ UNCHANGED <<rows, activation, run, shutdown, task, effects>>

\* finishWorkerRun(CRASHED), itself best effort.  Tasks of the group that are still in
\* flight are not cancelled.
FinishCrashed(w) ==
  /\ proc[w] = "exiting"
  /\ proc' = [proc EXCEPT ![w] = "exited"]
  /\ \E status \in {"FAILED", run[w].status} : run' = [run EXCEPT ![w].status = status]
  /\ UNCHANGED <<rows, activation, bound, shutdown, task, effects, exits>>

ProcessEnds(w) ==
  /\ proc[w] = "exited" /\ InFlight(w) = {}
  /\ Gone(w)
  /\ UNCHANGED <<rows, activation, effects, exits>>

RequestShutdown(w) ==
  /\ proc[w] # "down" /\ ~shutdown[w] /\ exits < MaxExits
  /\ shutdown' = [shutdown EXCEPT ![w] = TRUE]
  /\ exits' = exits + 1
  /\ UNCHANGED <<rows, activation, run, proc, bound, task, effects>>

\* The request is looked at between two cycles: beginWorkerDrain, finishWorkerRun(DRAINED).
StopProcess(w) ==
  /\ proc[w] = "idle" /\ shutdown[w]
  /\ Gone(w)
  /\ UNCHANGED <<rows, activation, effects, exits>>

Kill(w) ==
  /\ proc[w] # "down" /\ exits < MaxExits
  /\ Gone(w)
  /\ exits' = exits + 1
  /\ UNCHANGED <<rows, activation, effects>>

-----------------------------------------------------------------------------
(* executeRegisteredHandler: one claimed item in one process *)

\* The health of the heartbeat loop is read only while the loop runs.
Moved(t, pc) ==
  IF pc = "none" THEN NoTask
  ELSE [t EXCEPT !.pc = pc, !.healthy = pc \in Looping => @]

GoTo(w, i, pc) == task' = [task EXCEPT ![w][i] = Moved(@, pc)]

\* What heartbeatWorkLease demands, apart from the deadline.
Extendable(w, i) == Owns(w, i) /\ Current(item[i].epoch)

ExtendLease(i) == item' = [item EXCEPT ![i].expired = FALSE]

\* The first heartbeat; when its answer is lost the attempt fails before it started.
FirstHeartbeat(w, i) ==
  /\ task[w][i].pc = "ready"
  /\ Extendable(w, i)
  /\ ExtendLease(i)
  /\ \E pc \in {"check", "UNKNOWN"} : GoTo(w, i, pc)
  /\ UNCHANGED <<attempts, receipt, letter, activation, run, main, effects, exits>>

\* A pulse of the heartbeat loop; one that times out may have reached the database.
Pulse(w, i) ==
  /\ LoopRunning(w, i) /\ task[w][i].healthy
  /\ Extendable(w, i)
  /\ ExtendLease(i)
  /\ \E heard \in BOOLEAN : task' = [task EXCEPT ![w][i].healthy = heard]
  /\ UNCHANGED <<attempts, receipt, letter, activation, run, main, effects, exits>>

\* A pulse refused, or never answered; no further pulse is sent.
PulseFails(w, i) ==
  /\ LoopRunning(w, i) /\ task[w][i].healthy
  /\ task' = [task EXCEPT ![w][i].healthy = FALSE]
  /\ UNCHANGED <<rows, activation, run, main, effects, exits>>

\* Mutant: the handler runs without looking for a receipt.
ReadReceiptSkipped(w, i) ==
  /\ task[w][i].pc = "check"
  /\ GoTo(w, i, "handler")
  /\ UNCHANGED <<rows, activation, run, main, effects, exits>>

\* The effect receipt decides whether the handler runs at all.
ReadReceipt(w, i) ==
  /\ task[w][i].pc = "check"
  /\ GoTo(w, i, IF receipt[i] # 0 THEN "known" ELSE "handler")
  /\ UNCHANGED <<rows, activation, run, main, effects, exits>>

\* invokeHandler commits its domain effect; no fence is passed to it.
HandlerEffect(w, i) ==
  /\ task[w][i].pc = "handler"
  /\ effects' = [effects EXCEPT ![i] = @ \cup {task[w][i].token}]
  /\ GoTo(w, i, "applied")
  /\ UNCHANGED <<rows, activation, run, main, exits>>

\* Mutant: the item is acknowledged before its receipt is written.
HandlerReturnsAcked(w, i) ==
  /\ task[w][i].pc = "applied"
  /\ GoTo(w, i, "recorded")
  /\ UNCHANGED <<rows, activation, run, main, effects, exits>>

HandlerReturns(w, i) ==
  /\ task[w][i].pc = "applied"
  /\ GoTo(w, i, "returned")
  /\ UNCHANGED <<rows, activation, run, main, effects, exits>>

\* The handler throws, before its effect or after it.  An unhealthy heartbeat overrides
\* the class of the error.
HandlerThrows(w, i) ==
  /\ task[w][i].pc \in {"handler", "applied"}
  /\ \E class \in FailureClass :
       /\ ~task[w][i].healthy => class = "CONFIGURATION"
       /\ GoTo(w, i, class)
  /\ UNCHANGED <<rows, activation, run, main, effects, exits>>

\* Mutant: the receipt is written without the fence.
RecordReceiptUnfenced(w, i) ==
  /\ task[w][i].pc = "returned"
  /\ receipt' = [receipt EXCEPT ![i] = IF @ = 0 THEN task[w][i].token ELSE @]
  /\ GoTo(w, i, "recorded")
  /\ UNCHANGED <<item, attempts, letter, activation, run, main, effects, exits>>

\* recordFencedEffectReceipt: owner and fence are required, the deadline is not.  With a
\* receipt on record it answers ALREADY_APPLIED, or throws if the effect digests differ.
RecordReceipt(w, i) ==
  /\ task[w][i].pc = "returned"
  /\ Owns(w, i)
  /\ receipt' = [receipt EXCEPT ![i] = IF @ = 0 THEN task[w][i].token ELSE @]
  /\ \E pc \in {IF receipt[i] = 0 THEN "recorded" ELSE "known", "UNKNOWN"} : GoTo(w, i, pc)
  /\ UNCHANGED <<item, attempts, letter, activation, run, main, effects, exits>>

CompleteWorkItem(w, i) ==
  /\ task[w][i].pc \in {"recorded", "known"}
  /\ Owns(w, i)
  /\ attempts' = [attempts EXCEPT ![i] = WithAttempt(i,
                    IF task[w][i].pc = "known" THEN "EFFECT_ALREADY_APPLIED" ELSE "SUCCEEDED")]
  /\ item' = [item EXCEPT ![i] = Released(@, "SUCCEEDED")]
  /\ run' = [run EXCEPT ![w].succeeded = @ + 1]
  /\ \E pc \in {"none", "UNKNOWN"} : GoTo(w, i, pc)
  /\ UNCHANGED <<receipt, letter, activation, main, effects, exits>>

\* A statement of the task fails in the database: the catch block reports it.
StatementFails(w, i) ==
  /\ task[w][i].pc \in {"ready", "check", "returned", "recorded", "known"}
  /\ GoTo(w, i, IF task[w][i].pc = "check" /\ ~task[w][i].healthy THEN "CONFIGURATION"
                                                                 ELSE "UNKNOWN")
  /\ UNCHANGED <<rows, activation, run, main, effects, exits>>

\* resolveWorkerRetryDecision
RetryDecision(class, attemptNumber, maxAttempts) ==
  CASE class = "CONFIGURATION" -> "PAUSE"
    [] class = "PERMANENT" \/ (class = "UNKNOWN" /\ attemptNumber >= maxAttempts) -> "DEAD_LETTER"
    [] OTHER -> "RETRY"

\* Mutant: the decision is stored as if it were a status.
FailUnmapped(w, i, decision) ==
  /\ item' = [item EXCEPT ![i] = Released(@, decision)]
  /\ run' = [run EXCEPT ![w].failed = @ + 1]
  /\ UNCHANGED <<attempts, letter>>
\* Mutant: the item dies without a dead letter.
FailWithoutLetter(w, i, decision) ==
  /\ attempts' = [attempts EXCEPT ![i] = WithAttempt(i, "DEAD_LETTERED")]
  /\ item' = [item EXCEPT ![i] = Released(@, "DEAD_LETTER")]
  /\ run' = [run EXCEPT ![w].failed = @ + 1]
  /\ UNCHANGED letter

\* failWorkItem's transaction, for the decision it takes.
Fail(w, i, decision) ==
  /\ attempts' = [attempts EXCEPT ![i] = WithAttempt(i,
                    CASE decision = "PAUSE" -> "PAUSED"
                      [] decision = "DEAD_LETTER" -> "DEAD_LETTERED"
                      [] OTHER -> "RETRY_SCHEDULED")]
  /\ item' = [item EXCEPT ![i] = Released(@,
                IF decision = "PAUSE" THEN "PAUSED" ELSE decision)]
  /\ letter' = [letter EXCEPT ![i] = IF decision = "DEAD_LETTER" /\ @ = 0
                                     THEN item[i].attemptCount ELSE @]
  /\ run' = [run EXCEPT ![w].failed = @ + 1]

\* An error of failWorkItem itself leaves the task and, unless the process is already
\* on its way out, makes the whole cycle throw.
Rejects(w, i) ==
  /\ GoTo(w, i, "none")
  /\ proc' = [proc EXCEPT ![w] = IF @ = "dispatch" THEN "exiting" ELSE @]
  /\ bound' = [bound EXCEPT ![w] = 0]
  /\ exits' = IF proc[w] = "dispatch" THEN exits + 1 ELSE exits
  /\ exits' <= MaxExits

FailWorkItem(w, i) ==
  /\ task[w][i].pc \in FailureClass
  /\ Owns(w, i)
  /\ Fail(w, i, RetryDecision(task[w][i].pc, item[i].attemptCount, item[i].maxAttempts))
  /\ \/ GoTo(w, i, "none") /\ UNCHANGED <<proc, bound, exits>>
     \/ Rejects(w, i)
  /\ UNCHANGED <<receipt, activation, shutdown, effects>>

FailureNotRecorded(w, i) ==
  /\ task[w][i].pc \in FailureClass
  /\ Rejects(w, i)
  /\ UNCHANGED <<rows, activation, run, shutdown, effects>>

\* LEASE_LOST: the row is no longer this lease's, or its deadline has passed (the receipt
\* is written past the deadline), or, at a heartbeat, its activation is no longer current.
LeaseLost(w, i) ==
  /\ \/ task[w][i].pc \in {"ready", "returned", "recorded", "known"} \cup FailureClass
        /\ ~Owns(w, i)
     \/ task[w][i].pc \in {"ready", "recorded", "known"} \cup FailureClass
        /\ item[i].expired
     \/ task[w][i].pc = "ready" /\ ~Current(item[i].epoch)
  /\ GoTo(w, i, "none")
  /\ UNCHANGED <<rows, activation, run, main, effects, exits>>

-----------------------------------------------------------------------------
ProcessStep(w) ==
  \/ StartProcess(w)   \/ BeginCycle(w)    \/ Terminalize(w)
  \/ ClaimWorkBatch(w) \/ ClaimNothing(w)  \/ StartGroup(w)
  \/ EndCycle(w)       \/ FinishCrashed(w) \/ ProcessEnds(w)
  \/ StopProcess(w)

ProcessFault(w) ==
  \/ ClaimAnswerLost(w) \/ CycleThrows(w) \/ RequestShutdown(w) \/ Kill(w)

TaskStep(w, i) ==
  \/ FirstHeartbeat(w, i) \/ ReadReceipt(w, i)   \/ HandlerEffect(w, i)
  \/ HandlerReturns(w, i) \/ RecordReceipt(w, i) \/ CompleteWorkItem(w, i)
  \/ FailWorkItem(w, i)   \/ LeaseLost(w, i)

TaskFault(w, i) ==
  \/ Pulse(w, i)          \/ PulseFails(w, i)          \/ HandlerThrows(w, i)
  \/ StatementFails(w, i) \/ FailureNotRecorded(w, i)

Outside ==
  \/ ActivateHandler
  \/ RevokeActivation
  \/ \E i \in Item : EnqueueWorkItem(i) \/ ReplayDeadLetter(i)
  \/ \E i \in Item : LeaseExpires(i) \/ BecomesDue(i)

Next ==
  \/ Outside
  \/ \E w \in Worker : ProcessStep(w) \/ ProcessFault(w)
  \/ \E w \in Worker, i \in Item : TaskStep(w, i) \/ TaskFault(w, i)

Spec == Init /\ [][Next]_vars

-----------------------------------------------------------------------------
(* Fairness.  A worker service is restarted when it ends, its loop and the tasks it
   started go on, every handler returns or throws, and time passes.  Rows are locked only
   for one transaction, so a process that keeps asking is not passed over for ever:
   claiming and terminalizing are strongly fair.  No fault has to happen. *)
FairSpec ==
  /\ Spec
  /\ \A w \in Worker : /\ WF_vars(ProcessStep(w))
                       /\ SF_vars(ClaimWorkBatch(w))
                       /\ SF_vars(Terminalize(w) /\ item' # item)
  /\ \A w \in Worker, i \in Item : WF_vars(TaskStep(w, i))
  /\ \A i \in Item : WF_vars(LeaseExpires(i)) /\ WF_vars(BecomesDue(i))

-----------------------------------------------------------------------------
(* Safety *)

\* The lease a task was started under is over: taken over, given up or settled.
Stale(w, i) == item[i].status # "LEASED" \/ item[i].fencingToken # task[w][i].token

\* The CHECK constraints of WorkItem and WorkerRun (work_item_lease_state_check,
\* work_item_attempt_budget_check, worker_run_counters_check) hold whatever the processes
\* do, so no queue transaction is ever rolled back by one of them.
RowChecks ==
  /\ \A i \in Item : /\ item[i].status = "LEASED" <=> item[i].owner # NoWorker
                     /\ item[i].attemptCount <= item[i].maxAttempts
  /\ \A w \in Worker : run[w].succeeded + run[w].failed <= run[w].claimed

\* Every attempt number up to the current one is logged exactly once, and the running
\* attempt is not logged yet: no takeover, crash or late answer loses an attempt or logs
\* one twice (so the ON CONFLICT DO NOTHING of claim and terminalization skips nothing).
AttemptLedger ==
  \A i \in Item :
    LET closed == IF item[i].status = "LEASED" THEN item[i].attemptCount - 1
                                               ELSE item[i].attemptCount
    IN  /\ {a.number : a \in attempts[i]} = 1..closed
        /\ \A a, b \in attempts[i] : a.number = b.number => a = b

\* An item succeeds only on the evidence of a receipt, and a receipt is evidence: the
\* handler took effect under the very fencing token the receipt names.
SuccessIsEvidenced ==
  \A i \in Item : /\ item[i].status = "SUCCEEDED" => receipt[i] # 0
                  /\ receipt[i] # 0 => receipt[i] \in effects[i]

\* A dead item has its dead letter and a DEAD_LETTERED attempt as its last: it can be
\* replayed (work-replay.ts joins the letter), however it died.
DeadLetterEvidence ==
  \A i \in Item : item[i].status = "DEAD_LETTER" =>
    /\ letter[i] \in 1..item[i].attemptCount
    /\ [number |-> item[i].attemptCount, outcome |-> "DEAD_LETTERED"] \in attempts[i]

\* When a handler has returned in a process whose lease is not over, nobody else has
\* recorded a receipt: WORK_EFFECT_KEY_CONFLICT and ALREADY_APPLIED are unreachable in
\* recordFencedEffectReceipt, because only a takeover could have brought another writer.
NoEffectKeyConflict ==
  \A w \in Worker, i \in Item : task[w][i].pc = "returned" /\ ~Stale(w, i) => receipt[i] = 0

(* Action properties *)

\* A task whose lease was taken over or given up can no longer change the item, its
\* receipt, its attempts or its dead letter ("sperrt den alten Writer").
StaleTaskPowerless ==
  [][\A w \in Worker, i \in Item :
       task[w][i].pc # "none" /\ Stale(w, i) /\ task'[w][i] # task[w][i] =>
         /\ item'[i] = item[i] /\ receipt'[i] = receipt[i]
         /\ attempts'[i] = attempts[i] /\ letter'[i] = letter[i]]_vars

\* The handler takes effect at most once under one lease, and the process that holds the
\* lease does not repeat an effect somebody has a receipt for.
HolderDoesNotRepeat ==
  [][\A w \in Worker, i \in Item :
       task[w][i].pc = "handler" /\ task'[w][i].pc = "applied" =>
         /\ task[w][i].token \notin effects[i]
         /\ ~Stale(w, i) => receipt[i] = 0]_vars

\* A success is final and a receipt is never rewritten; the fencing token only grows.
SuccessIsFinal ==
  [][\A i \in Item :
       /\ item[i].status = "SUCCEEDED" => item'[i] = item[i] /\ attempts'[i] = attempts[i]
       /\ receipt[i] # 0 => receipt'[i] = receipt[i]
       /\ item'[i].fencingToken >= item[i].fencingToken]_vars

\* What the runbook says of an old worker (codex-plan/runbooks/worker-operations.md:35-37,
\* codex-plan/23-production-operations-workers.md:213): after a takeover it commits no
\* effect.  invokeHandler passes no fence to the handlers, so this does not hold.
OldWorkerCommitsNoEffect ==
  [][\A w \in Worker, i \in Item :
       task[w][i].pc = "handler" /\ task'[w][i].pc = "applied" => ~Stale(w, i)]_vars

(* Refinement *)

PhaseOf(status) ==
  CASE status = "ABSENT" -> "absent"
    [] status \in {"PENDING", "RETRY"} -> "waiting"
    [] status = "LEASED" -> "handedOut"
    [] status = "SUCCEEDED" -> "succeeded"
    [] status = "DEAD_LETTER" -> "buried"
    [] OTHER -> "paused"

Ledger == INSTANCE WorkLedger WITH
  Job <- Item,
  phase <- [i \in Item |-> PhaseOf(item[i].status)],
  granted <- [i \in Item |-> item[i].attemptCount],
  budget <- [i \in Item |-> item[i].maxAttempts],
  acked <- [i \in Item |-> receipt[i] # 0]

\* The queue keeps the promises of WorkLedger: an item is handed out within its budget,
\* its effect is acknowledged once and only while handed out, it succeeds only after
\* that, and a success is final.
LedgerSpec == Ledger!Spec

(* Liveness *)

Settled(i) == item[i].status \in {"SUCCEEDED", "DEAD_LETTER", "PAUSED"}

\* No work item is lost: with the handler active from some point on, every enqueued item
\* is settled again and again, whatever processes die and whichever answers are lost.
EveryItemSettles ==
  <>[]activation.active => \A i \in Item : item[i].status # "ABSENT" ~> Settled(i)
=============================================================================
