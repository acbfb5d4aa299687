--------------------------- MODULE WorkQueueProofs ---------------------------
(***************************************************************************)
(* Safety of WorkQueue, for every value of its constants.                  *)
(*                                                                         *)
(* A step of the queue concerns one item in few ways.  RowStep,            *)
(* EvidenceStep and TaskStep list them, once for all the actions: what can *)
(* happen to the row of an item, to its effects and its receipt, and to a  *)
(* process's task on it.  The inductive invariant IInv is then proved from *)
(* these three lemmas, and the properties of WorkQueue from it.            *)
(***************************************************************************)
EXTENDS WorkQueue, FiniteSetTheorems, TLAPS

(***************************************************************************)
(* Type correctness.  The first lemmas say that each way a row, a run or a *)
(* task is updated yields a row, a run or a task; the step lemmas put them *)
(* together.                                                               *)
(***************************************************************************)

-----------------------------------------------------------------------------
(* Updates of one record *)

LEMMA LeasedRow ==
  ASSUME NEW row \in ItemRow, NEW w \in Worker, bound \in [Worker -> Nat]
  PROVE  LeasedTo(row, w) \in ItemRow
<1>1. ASSUME NEW count \in Nat, NEW token \in Nat, NEW epoch \in Nat
      PROVE  [row EXCEPT !.status = "LEASED", !.attemptCount = count, !.fencingToken = token,
                         !.owner = w, !.epoch = epoch, !.due = FALSE, !.expired = FALSE]
                \in ItemRow
  BY DEF ItemRow, Status
<1>2. row.attemptCount + 1 \in Nat /\ row.fencingToken + 1 \in Nat /\ bound[w] \in Nat
  BY DEF ItemRow
<1> QED
  BY <1>1, <1>2 DEF LeasedTo

LEMMA ReleasedRow ==
  ASSUME NEW row \in ItemRow, NEW status \in Status
  PROVE  Released(row, status) \in ItemRow
  BY DEF ItemRow, Released

LEMMA EnqueuedRow ==
  ASSUME NEW row \in ItemRow, NEW due \in BOOLEAN
  PROVE  [row EXCEPT !.status = "PENDING", !.maxAttempts = MaxAttempts, !.due = due]
            \in ItemRow
  BY PolicyAssumption DEF ItemRow, Status

LEMMA ReplayedRow ==
  ASSUME NEW row \in ItemRow
  PROVE  Replayed(row) \in ItemRow
<1>1. ASSUME NEW replays \in Nat, NEW attempt \in Nat
      PROVE  [row EXCEPT !.status = "RETRY", !.due = TRUE, !.replayCount = replays,
                         !.maxAttempts = attempt] \in ItemRow
  BY DEF ItemRow, Status
<1>2. row.replayCount + 1 \in Nat /\ row.maxAttempts + AddedBudget \in Nat
  BY PolicyAssumption DEF ItemRow
<1> QED
  BY <1>1, <1>2 DEF Replayed

LEMMA TimedRow ==
  ASSUME NEW row \in ItemRow, NEW b \in BOOLEAN
  PROVE  [row EXCEPT !.expired = b] \in ItemRow /\ [row EXCEPT !.due = b] \in ItemRow
  BY DEF ItemRow

LEMMA CountedRun ==
  ASSUME NEW r \in RunRow, NEW n \in Nat
  PROVE  /\ [r EXCEPT !.claimed = @ + n] \in RunRow
         /\ [r EXCEPT !.succeeded = @ + 1] \in RunRow
         /\ [r EXCEPT !.failed = @ + 1] \in RunRow
  BY DEF RunRow

LEMMA FinishedRun ==
  ASSUME NEW r \in RunRow, NEW status \in RunStatus
  PROVE  [r EXCEPT !.status = status] \in RunRow
  BY DEF RunRow

LEMMA MovedTask ==
  ASSUME NEW t \in Task, NEW pc \in TaskPc
  PROVE  Moved(t, pc) \in Task
  BY DEF Task, Moved, NoTask, TaskPc

LEMMA NullRecords == NoItem \in ItemRow /\ NoTask \in Task /\ FreshRun \in RunRow
  BY DEF NoItem, NoTask, FreshRun, ItemRow, Task, RunRow, Status, TaskPc, RunStatus

-----------------------------------------------------------------------------
(* Updates of one variable *)

\* The row of one item is replaced.
LEMMA ItemTyped ==
  ASSUME TypeOK, NEW i \in Item, NEW row \in ItemRow, item' = [item EXCEPT ![i] = row]
  PROVE  item' \in [Item -> ItemRow]
  BY DEF TypeOK

LEMMA RunTyped ==
  ASSUME TypeOK, NEW w \in Worker, NEW r \in RunRow, run' = [run EXCEPT ![w] = r]
  PROVE  run' \in [Worker -> RunRow]
  BY DEF TypeOK

LEMMA TaskTyped ==
  ASSUME TypeOK, NEW w \in Worker, NEW i \in Item, NEW pc \in TaskPc, GoTo(w, i, pc)
  PROVE  task' \in [Worker -> [Item -> Task]]
<1>1. task[w][i] \in Task
  BY DEF TypeOK
<1>2. Moved(task[w][i], pc) \in Task
  BY <1>1, MovedTask
<1> QED
  BY <1>2 DEF TypeOK, GoTo

\* One more attempt is logged.
LEMMA AttemptsTyped ==
  ASSUME TypeOK, NEW i \in Item, NEW outcome \in Outcome
  PROVE  WithAttempt(i, outcome) \in SUBSET AttemptRow
  BY DEF TypeOK, WithAttempt, AttemptRow, ItemRow

LEMMA GoneTyped ==
  ASSUME TypeOK, NEW w \in Worker, Gone(w)
  PROVE  /\ proc' \in [Worker -> ProcPc]
         /\ bound' \in [Worker -> Nat]
         /\ shutdown' \in [Worker -> BOOLEAN]
         /\ run' \in [Worker -> RunRow]
         /\ task' \in [Worker -> [Item -> Task]]
  BY NullRecords DEF TypeOK, Gone, ProcPc

LEMMA RejectsTyped ==
  ASSUME TypeOK, NEW w \in Worker, NEW i \in Item, Rejects(w, i)
  PROVE  proc' \in [Worker -> ProcPc] /\ bound' \in [Worker -> Nat] /\ exits' \in Nat
  BY DEF TypeOK, Rejects, ProcPc

LEMMA ExtendTyped ==
  ASSUME TypeOK, NEW i \in Item, ExtendLease(i)
  PROVE  item' \in [Item -> ItemRow]
<1>1. [item[i] EXCEPT !.expired = FALSE] \in ItemRow
  BY TimedRow DEF TypeOK
<1> QED
  BY <1>1 DEF TypeOK, ExtendLease

\* The claiming statement types its rows, whatever batch it takes.
LEMMA LeaseTyped ==
  ASSUME TypeOK, NEW w \in Worker, NEW batch \in SUBSET Item, Lease(w, batch)
  PROVE  /\ item' \in [Item -> ItemRow]
         /\ attempts' \in [Item -> SUBSET AttemptRow]
         /\ run' \in [Worker -> RunRow]
<1>1. \A i \in Item : LeasedTo(item[i], w) \in ItemRow
  BY LeasedRow DEF TypeOK
<1>2. \A i \in Item : AfterLostLease(i) \in SUBSET AttemptRow
  BY AttemptsTyped DEF AfterLostLease, Outcome, TypeOK
<1>3. Cardinality(batch) \in Nat
  BY FiniteAssumption, FS_Subset, FS_CardinalityType
<1>4. run' = [run EXCEPT ![w] = [run[w] EXCEPT !.claimed = @ + Cardinality(batch)]]
  BY DEF Lease, TypeOK
<1>5. [run[w] EXCEPT !.claimed = @ + Cardinality(batch)] \in RunRow
  BY <1>3, CountedRun DEF TypeOK
<1> QED
  BY <1>1, <1>2, <1>4, <1>5, RunTyped DEF Lease, TypeOK

-----------------------------------------------------------------------------
(* One lemma per group of actions *)

LEMMA OutsideTyped == TypeOK /\ Outside => TypeOK'
<1> SUFFICES ASSUME TypeOK, Outside PROVE TypeOK'
  OBVIOUS
<1> USE DEF rows, main
<1>1. CASE ActivateHandler
  BY <1>1 DEF ActivateHandler, TypeOK
<1>2. CASE RevokeActivation
  BY <1>2 DEF RevokeActivation, TypeOK
<1>3. ASSUME NEW i \in Item, EnqueueWorkItem(i) PROVE TypeOK'
  <2>1. PICK due \in BOOLEAN :
          item' = [item EXCEPT ![i] = [item[i] EXCEPT !.status = "PENDING",
                                         !.maxAttempts = MaxAttempts, !.due = due]]
    BY <1>3 DEF EnqueueWorkItem, TypeOK
  <2>2. item' \in [Item -> ItemRow]
    BY <2>1, EnqueuedRow, ItemTyped DEF TypeOK
  <2> QED
    BY <1>3, <2>2 DEF EnqueueWorkItem, TypeOK
<1>4. ASSUME NEW i \in Item, ReplayDeadLetter(i) PROVE TypeOK'
  <2>1. item' = [item EXCEPT ![i] = Replayed(item[i])]
    BY <1>4 DEF ReplayDeadLetter
  <2>2. item' \in [Item -> ItemRow]
    BY <2>1, ReplayedRow, ItemTyped DEF TypeOK
  <2> QED
    BY <1>4, <2>2 DEF ReplayDeadLetter, TypeOK
<1>5. ASSUME NEW i \in Item, LeaseExpires(i) PROVE TypeOK'
  <2>1. item' = [item EXCEPT ![i] = [item[i] EXCEPT !.expired = TRUE]]
    BY <1>5 DEF LeaseExpires, TypeOK
  <2>2. item' \in [Item -> ItemRow]
    BY <2>1, TimedRow, ItemTyped DEF TypeOK
  <2> QED
    BY <1>5, <2>2 DEF LeaseExpires, TypeOK
<1>6. ASSUME NEW i \in Item, BecomesDue(i) PROVE TypeOK'
  <2>1. item' = [item EXCEPT ![i] = [item[i] EXCEPT !.due = TRUE]]
    BY <1>6 DEF BecomesDue, TypeOK
  <2>2. item' \in [Item -> ItemRow]
    BY <2>1, TimedRow, ItemTyped DEF TypeOK
  <2> QED
    BY <1>6, <2>2 DEF BecomesDue, TypeOK
<1> QED
  BY <1>1, <1>2, <1>3, <1>4, <1>5, <1>6 DEF Outside

LEMMA ProcessTyped ==
  ASSUME TypeOK, NEW w \in Worker, ProcessStep(w) \/ ProcessFault(w)
  PROVE  TypeOK'
<1> USE DEF rows, main
<1>1. CASE StartProcess(w)
  BY <1>1 DEF StartProcess, TypeOK, ProcPc
<1>2. CASE BeginCycle(w)
  BY <1>2 DEF BeginCycle, TypeOK, ProcPc
<1>3. CASE Terminalize(w)
  <2>1. PICK picked \in SUBSET {i \in Item : Exhausted(i)} :
          LET dead == {i \in picked : SlotFree(i)} IN
          /\ attempts' = [i \in Item |-> IF i \in dead THEN WithAttempt(i, "DEAD_LETTERED")
                                                       ELSE attempts[i]]
          /\ item' = [i \in Item |-> IF i \in dead THEN Released(item[i], "DEAD_LETTER")
                                                   ELSE item[i]]
          /\ letter' = [i \in Item |-> IF i \in dead /\ letter[i] = 0
                                       THEN item[i].attemptCount ELSE letter[i]]
    BY <1>3 DEF Terminalize
  <2>2. \A i \in Item : Released(item[i], "DEAD_LETTER") \in ItemRow
    BY ReleasedRow DEF TypeOK, Status
  <2>3. item' \in [Item -> ItemRow]
    BY <2>1, <2>2 DEF TypeOK
  <2>4. attempts' \in [Item -> SUBSET AttemptRow]
    <3>1. \A i \in Item : WithAttempt(i, "DEAD_LETTERED") \in SUBSET AttemptRow
      BY AttemptsTyped DEF Outcome
    <3> QED
      BY <2>1, <3>1 DEF TypeOK
  <2>5. letter' \in [Item -> Nat]
    BY <2>1 DEF TypeOK, ItemRow
  <2> QED
    BY <1>3, <2>3, <2>4, <2>5 DEF Terminalize, TypeOK, ProcPc
<1>4. CASE ClaimWorkBatch(w)
  <2>1. PICK batch \in SUBSET Item :
          /\ Lease(w, batch)
          /\ task' = [task EXCEPT ![w] = [i \in Item |->
                        IF i \in batch
                        THEN [NoTask EXCEPT !.pc = "claimed", !.token = item[i].fencingToken + 1]
                        ELSE NoTask]]
    BY <1>4 DEF ClaimWorkBatch
  <2>2. \A i \in Item : [NoTask EXCEPT !.pc = "claimed", !.token = item[i].fencingToken + 1]
                           \in Task
    <3>1. \A n \in Nat : [NoTask EXCEPT !.pc = "claimed", !.token = n] \in Task
      BY DEF NoTask, Task, TaskPc
    <3>2. \A i \in Item : item[i].fencingToken + 1 \in Nat
      BY DEF TypeOK, ItemRow
    <3> QED
      BY <3>1, <3>2
  <2>3. task' \in [Worker -> [Item -> Task]]
    BY <2>1, <2>2, NullRecords DEF TypeOK
  <2> QED
    BY <1>4, <2>1, <2>3, LeaseTyped DEF ClaimWorkBatch, Lease, TypeOK, ProcPc
<1>5. CASE ClaimNothing(w)
  BY <1>5 DEF ClaimNothing, TypeOK, ProcPc
<1>6. CASE ClaimAnswerLost(w)
  <2>1. PICK batch \in SUBSET Item : Lease(w, batch)
    BY <1>6 DEF ClaimAnswerLost
  <2>2. /\ item' \in [Item -> ItemRow]
        /\ attempts' \in [Item -> SUBSET AttemptRow]
        /\ run' \in [Worker -> RunRow]
    BY <2>1, LeaseTyped
  <2>3. receipt' = receipt /\ letter' = letter
    BY <2>1 DEF Lease
  <2>4. /\ proc' = [proc EXCEPT ![w] = "exiting"]
        /\ exits' = exits + 1
        /\ bound' = [bound EXCEPT ![w] = 0]
        /\ UNCHANGED <<activation, shutdown, task, effects>>
    BY <1>6 DEF ClaimAnswerLost
  <2> QED
    BY <2>2, <2>3, <2>4 DEF TypeOK, ProcPc
<1>7. CASE StartGroup(w)
  <2>1. PICK group \in SUBSET Claimed(w) :
          task' = [task EXCEPT ![w] = [i \in Item |->
                     IF i \in group THEN [task[w][i] EXCEPT !.pc = GroupPc(w)] ELSE task[w][i]]]
    BY <1>7 DEF StartGroup
  <2>2. \A i \in Item : [task[w][i] EXCEPT !.pc = GroupPc(w)] \in Task
    <3>1. GroupPc(w) \in TaskPc
      BY DEF GroupPc, TaskPc, FailureClass
    <3>2. \A t \in Task, p \in TaskPc : [t EXCEPT !.pc = p] \in Task
      BY DEF Task
    <3> QED
      BY <3>1, <3>2 DEF TypeOK
  <2>3. task' \in [Worker -> [Item -> Task]]
    BY <2>1, <2>2 DEF TypeOK
  <2> QED
    BY <1>7, <2>3 DEF StartGroup, TypeOK
<1>8. CASE EndCycle(w)
  BY <1>8 DEF EndCycle, TypeOK, ProcPc
<1>9. CASE CycleThrows(w)
  BY <1>9, BoundAssumption DEF CycleThrows, TypeOK, ProcPc
<1>10. CASE FinishCrashed(w)
  <2>1. PICK status \in RunStatus : run' = [run EXCEPT ![w] = [run[w] EXCEPT !.status = status]]
    BY <1>10 DEF FinishCrashed, TypeOK, RunRow, RunStatus
  <2>2. run' \in [Worker -> RunRow]
    BY <2>1, FinishedRun, RunTyped DEF TypeOK
  <2> QED
    BY <1>10, <2>2 DEF FinishCrashed, TypeOK, ProcPc
<1>11. CASE ProcessEnds(w)
  BY <1>11, GoneTyped DEF ProcessEnds, TypeOK
<1>12. CASE StopProcess(w)
  BY <1>12, GoneTyped DEF StopProcess, TypeOK
<1>13. CASE RequestShutdown(w)
  BY <1>13 DEF RequestShutdown, TypeOK
<1>14. CASE Kill(w)
  BY <1>14, GoneTyped DEF Kill, TypeOK
<1> QED
  BY <1>1, <1>2, <1>3, <1>4, <1>5, <1>6, <1>7, <1>8, <1>9, <1>10, <1>11, <1>12, <1>13, <1>14
  DEF ProcessStep, ProcessFault

LEMMA TaskTypedStep ==
  ASSUME TypeOK, NEW w \in Worker, NEW i \in Item, TaskStep(w, i) \/ TaskFault(w, i)
  PROVE  TypeOK'
<1> USE DEF rows, main
<1> DEFINE Moves == \E pc \in TaskPc : GoTo(w, i, pc)
<1>1. Moves => task' \in [Worker -> [Item -> Task]]
  BY TaskTyped
<1> HIDE DEF Moves
<1>2. \A pc \in TaskPc : GoTo(w, i, pc) => Moves
  BY DEF Moves
<1>3. CASE FirstHeartbeat(w, i)
  <2>1. Moves
    BY <1>2, <1>3 DEF FirstHeartbeat, TaskPc, FailureClass
  <2> QED
    BY <1>1, <1>3, <2>1, ExtendTyped DEF FirstHeartbeat, TypeOK
<1>4. CASE ReadReceipt(w, i)
  <2>1. Moves
    BY <1>2, <1>4 DEF ReadReceipt, TaskPc
  <2> QED
    BY <1>1, <1>4, <2>1 DEF ReadReceipt, TypeOK
<1>5. CASE HandlerEffect(w, i)
  <2>1. Moves
    BY <1>2, <1>5 DEF HandlerEffect, TaskPc
  <2>2. effects' \in [Item -> SUBSET Nat]
    BY <1>5 DEF HandlerEffect, TypeOK, Task
  <2> QED
    BY <1>1, <1>5, <2>1, <2>2 DEF HandlerEffect, TypeOK
<1>6. CASE HandlerReturns(w, i)
  <2>1. Moves
    BY <1>2, <1>6 DEF HandlerReturns, TaskPc
  <2> QED
    BY <1>1, <1>6, <2>1 DEF HandlerReturns, TypeOK
<1>7. CASE RecordReceipt(w, i)
  <2>1. Moves
    BY <1>2, <1>7 DEF RecordReceipt, TaskPc, FailureClass
  <2>2. receipt' \in [Item -> Nat]
    BY <1>7 DEF RecordReceipt, TypeOK, Task
  <2> QED
    BY <1>1, <1>7, <2>1, <2>2 DEF RecordReceipt, TypeOK
<1>8. CASE CompleteWorkItem(w, i)
  <2>1. Moves
    BY <1>2, <1>8 DEF CompleteWorkItem, TaskPc, FailureClass
  <2>2. item' \in [Item -> ItemRow]
    BY <1>8, ReleasedRow, ItemTyped DEF CompleteWorkItem, TypeOK, Status
  <2>3. attempts' \in [Item -> SUBSET AttemptRow]
    BY <1>8, AttemptsTyped DEF CompleteWorkItem, TypeOK, Outcome
  <2>4. run' \in [Worker -> RunRow]
    <3>1. run' = [run EXCEPT ![w] = [run[w] EXCEPT !.succeeded = @ + 1]]
      BY <1>8 DEF CompleteWorkItem
    <3> QED
      BY <3>1, CountedRun, RunTyped DEF TypeOK
  <2> QED
    BY <1>1, <1>8, <2>1, <2>2, <2>3, <2>4 DEF CompleteWorkItem, TypeOK
<1>9. CASE FailWorkItem(w, i)
  <2> DEFINE decision == RetryDecision(task[w][i].pc, item[i].attemptCount, item[i].maxAttempts)
  <2>1. Fail(w, i, decision) /\ decision \in {"PAUSE", "DEAD_LETTER", "RETRY"}
    BY <1>9 DEF FailWorkItem, RetryDecision
  <2> HIDE DEF decision
  <2>2. Moves
    BY <1>2, <1>9 DEF FailWorkItem, Rejects, TaskPc
  <2>3. item' \in [Item -> ItemRow]
    BY <2>1, ReleasedRow, ItemTyped DEF Fail, TypeOK, Status
  <2>4. attempts' \in [Item -> SUBSET AttemptRow]
    BY <2>1, AttemptsTyped DEF Fail, TypeOK, Outcome
  <2>5. letter' \in [Item -> Nat]
    BY <2>1 DEF Fail, TypeOK, ItemRow
  <2>6. run' \in [Worker -> RunRow]
    <3>1. run' = [run EXCEPT ![w] = [run[w] EXCEPT !.failed = @ + 1]]
      BY <2>1 DEF Fail
    <3> QED
      BY <3>1, CountedRun, RunTyped DEF TypeOK
  <2>7. Rejects(w, i) \/ UNCHANGED <<proc, bound, exits>>
    BY <1>9 DEF FailWorkItem
  <2>8. proc' \in [Worker -> ProcPc] /\ bound' \in [Worker -> Nat] /\ exits' \in Nat
    BY <2>7, RejectsTyped DEF TypeOK
  <2> QED
    BY <1>1, <1>9, <2>2, <2>3, <2>4, <2>5, <2>6, <2>8 DEF FailWorkItem, TypeOK
<1>10. CASE LeaseLost(w, i)
  <2>1. Moves
    BY <1>2, <1>10 DEF LeaseLost, TaskPc
  <2> QED
    BY <1>1, <1>10, <2>1 DEF LeaseLost, TypeOK
<1>11. ASSUME NEW heard \in BOOLEAN, task' = [task EXCEPT ![w][i].healthy = heard]
       PROVE  task' \in [Worker -> [Item -> Task]]
  <2>1. [task[w][i] EXCEPT !.healthy = heard] \in Task
    <3>1. task[w][i] \in Task
      BY DEF TypeOK
    <3> QED
      BY <3>1 DEF Task
  <2>2. task' = [task EXCEPT ![w] = [task[w] EXCEPT ![i] =
                   [task[w][i] EXCEPT !.healthy = heard]]]
    BY <1>11
  <2> QED
    BY <2>1, <2>2 DEF TypeOK
<1>12. CASE Pulse(w, i)
  <2>1. task' \in [Worker -> [Item -> Task]]
    BY <1>11, <1>12 DEF Pulse
  <2> QED
    BY <1>12, <2>1, ExtendTyped DEF Pulse, TypeOK
<1>13. CASE PulseFails(w, i)
  <2>1. task' \in [Worker -> [Item -> Task]]
    BY <1>11, <1>13 DEF PulseFails
  <2> QED
    BY <1>13, <2>1 DEF PulseFails, TypeOK
<1>14. CASE HandlerThrows(w, i)
  <2>1. Moves
    BY <1>2, <1>14 DEF HandlerThrows, TaskPc
  <2> QED
    BY <1>1, <1>14, <2>1 DEF HandlerThrows, TypeOK
<1>15. CASE StatementFails(w, i)
  <2>1. Moves
    BY <1>2, <1>15 DEF StatementFails, TaskPc, FailureClass
  <2> QED
    BY <1>1, <1>15, <2>1 DEF StatementFails, TypeOK
<1>16. CASE FailureNotRecorded(w, i)
  <2>1. Moves
    BY <1>2, <1>16 DEF FailureNotRecorded, Rejects, TaskPc
  <2>2. proc' \in [Worker -> ProcPc] /\ bound' \in [Worker -> Nat] /\ exits' \in Nat
    BY <1>16, RejectsTyped DEF FailureNotRecorded
  <2> QED
    BY <1>1, <1>16, <2>1, <2>2 DEF FailureNotRecorded, TypeOK
<1> QED
  BY <1>3, <1>4, <1>5, <1>6, <1>7, <1>8, <1>9, <1>10, <1>12, <1>13, <1>14, <1>15, <1>16
  DEF TaskStep, TaskFault

-----------------------------------------------------------------------------
LEMMA InitTyped == Init => TypeOK
  BY NullRecords DEF Init, TypeOK, ProcPc

LEMMA StepTyped == TypeOK /\ [Next]_vars => TypeOK'
<1>1. ASSUME TypeOK, UNCHANGED vars PROVE TypeOK'
  BY <1>1 DEF vars, TypeOK
<1> QED
  BY <1>1, OutsideTyped, ProcessTyped, TaskTypedStep DEF Next

\* Every variable keeps its type, with any number of items, processes and attempts.
THEOREM TypeCorrect == Spec => []TypeOK
  BY InitTyped, StepTyped, PTL DEF Spec

-----------------------------------------------------------------------------
(* The fields of an updated row *)

LEMMA LeasedFields ==
  ASSUME NEW row \in ItemRow, NEW w \in Worker
  PROVE  /\ LeasedTo(row, w).status = "LEASED"
         /\ LeasedTo(row, w).owner = w
         /\ LeasedTo(row, w).attemptCount = row.attemptCount + 1
         /\ LeasedTo(row, w).maxAttempts = row.maxAttempts
         /\ LeasedTo(row, w).fencingToken = row.fencingToken + 1
  BY DEF ItemRow, LeasedTo

LEMMA ReleasedFields ==
  ASSUME NEW row \in ItemRow, NEW status
  PROVE  /\ Released(row, status).status = status
         /\ Released(row, status).owner = NoWorker
         /\ Released(row, status).attemptCount = row.attemptCount
         /\ Released(row, status).maxAttempts = row.maxAttempts
         /\ Released(row, status).fencingToken = row.fencingToken
  BY DEF ItemRow, Released

LEMMA ReplayedFields ==
  ASSUME NEW row \in ItemRow
  PROVE  /\ Replayed(row).status = "RETRY"
         /\ Replayed(row).owner = row.owner
         /\ Replayed(row).attemptCount = row.attemptCount
         /\ Replayed(row).maxAttempts = row.maxAttempts + AddedBudget
         /\ Replayed(row).fencingToken = row.fencingToken
  BY DEF ItemRow, Replayed

-----------------------------------------------------------------------------
(* What a step does to the row of item i *)

Kept(i) ==
  /\ item'[i].status = item[i].status
  /\ item'[i].owner = item[i].owner
  /\ item'[i].attemptCount = item[i].attemptCount
  /\ item'[i].maxAttempts = item[i].maxAttempts
  /\ item'[i].fencingToken = item[i].fencingToken
  /\ item'[i] = item[i] \/ item[i].status \in {"PENDING", "RETRY", "LEASED"}
  /\ attempts'[i] = attempts[i]
  /\ letter'[i] = letter[i]

Enqueued(i) ==
  /\ item[i].status = "ABSENT"
  /\ \E due \in BOOLEAN :
       item'[i] = [item[i] EXCEPT !.status = "PENDING", !.maxAttempts = MaxAttempts,
                                  !.due = due]
  /\ attempts'[i] = attempts[i]
  /\ letter'[i] = letter[i]

Revived(i) ==
  /\ item[i].status = "DEAD_LETTER"
  /\ item'[i] = Replayed(item[i])
  /\ attempts'[i] = attempts[i]
  /\ letter'[i] = letter[i]

Granted(w, i) ==
  /\ proc[w] = "claim"
  /\ Claimable(i)
  /\ item'[i] = LeasedTo(item[i], w)
  /\ attempts'[i] = AfterLostLease(i)
  /\ letter'[i] = letter[i]

Buried(i) ==
  /\ Exhausted(i) /\ SlotFree(i)
  /\ item'[i] = Released(item[i], "DEAD_LETTER")
  /\ attempts'[i] = WithAttempt(i, "DEAD_LETTERED")
  /\ letter'[i] = IF letter[i] = 0 THEN item[i].attemptCount ELSE letter[i]

Completed(w, i) ==
  /\ Owns(w, i)
  /\ task[w][i].pc \in {"recorded", "known"}
  /\ item'[i] = Released(item[i], "SUCCEEDED")
  /\ \E outcome \in {"SUCCEEDED", "EFFECT_ALREADY_APPLIED"} :
       attempts'[i] = WithAttempt(i, outcome)
  /\ letter'[i] = letter[i]

Failed(w, i) ==
  /\ Owns(w, i)
  /\ task[w][i].pc \in FailureClass
  /\ \/ /\ item'[i] = Released(item[i], "PAUSED")
        /\ attempts'[i] = WithAttempt(i, "PAUSED")
        /\ letter'[i] = letter[i]
     \/ /\ item[i].attemptCount < item[i].maxAttempts
        /\ item'[i] = Released(item[i], "RETRY")
        /\ attempts'[i] = WithAttempt(i, "RETRY_SCHEDULED")
        /\ letter'[i] = letter[i]
     \/ /\ item'[i] = Released(item[i], "DEAD_LETTER")
        /\ attempts'[i] = WithAttempt(i, "DEAD_LETTERED")
        /\ letter'[i] = IF letter[i] = 0 THEN item[i].attemptCount ELSE letter[i]

RowMoves(i) ==
  \/ Kept(i) \/ Enqueued(i) \/ Revived(i) \/ Buried(i)
  \/ \E w \in Worker : Granted(w, i) \/ Completed(w, i) \/ Failed(w, i)

LEMMA RowStep ==
  ASSUME TypeOK, [Next]_vars
  PROVE  \A i \in Item : RowMoves(i)
<1> USE DEF rows, main
<1> SUFFICES ASSUME NEW i \in Item PROVE RowMoves(i)
  OBVIOUS
<1>1. ASSUME UNCHANGED <<item, attempts, letter>> PROVE RowMoves(i)
  BY <1>1 DEF RowMoves, Kept
<1>2. CASE UNCHANGED vars
  BY <1>1, <1>2 DEF vars
<1>3. CASE Outside
  <2>1. CASE ActivateHandler \/ RevokeActivation
    BY <1>1, <2>1 DEF ActivateHandler, RevokeActivation
  <2>2. ASSUME NEW j \in Item, EnqueueWorkItem(j) PROVE RowMoves(i)
    <3>1. CASE i = j
      BY <2>2, <3>1 DEF EnqueueWorkItem, RowMoves, Enqueued, TypeOK
    <3>2. CASE i # j
      BY <2>2, <3>2 DEF EnqueueWorkItem, RowMoves, Kept, TypeOK
    <3> QED
      BY <3>1, <3>2
  <2>3. ASSUME NEW j \in Item, ReplayDeadLetter(j) PROVE RowMoves(i)
    <3>1. CASE i = j
      BY <2>3, <3>1 DEF ReplayDeadLetter, RowMoves, Revived, TypeOK
    <3>2. CASE i # j
      BY <2>3, <3>2 DEF ReplayDeadLetter, RowMoves, Kept, TypeOK
    <3> QED
      BY <3>1, <3>2
  <2>4. ASSUME NEW j \in Item, LeaseExpires(j) \/ BecomesDue(j) PROVE RowMoves(i)
    BY <2>4 DEF LeaseExpires, BecomesDue, RowMoves, Kept, TypeOK, ItemRow
  <2> QED
    BY <1>3, <2>1, <2>2, <2>3, <2>4 DEF Outside
<1>4. ASSUME NEW w \in Worker, ProcessStep(w) \/ ProcessFault(w) PROVE RowMoves(i)
  <2>1. CASE Terminalize(w)
    BY <2>1 DEF Terminalize, RowMoves, Kept, Buried, TypeOK
  <2>2. ASSUME NEW batch \in SUBSET {j \in Item : Claimable(j)}, Lease(w, batch),
               proc[w] = "claim"
        PROVE  RowMoves(i)
    BY <2>2 DEF Lease, RowMoves, Kept, Granted, TypeOK
  <2>3. CASE ClaimWorkBatch(w) \/ ClaimAnswerLost(w)
    BY <2>2, <2>3 DEF ClaimWorkBatch, ClaimAnswerLost
  <2>4. CASE ~ (Terminalize(w) \/ ClaimWorkBatch(w) \/ ClaimAnswerLost(w))
    BY <1>1, <1>4, <2>4
    DEF ProcessStep, ProcessFault, StartProcess, BeginCycle, ClaimNothing, StartGroup,
        EndCycle, FinishCrashed, ProcessEnds, StopProcess, CycleThrows, RequestShutdown, Kill
  <2> QED
    BY <2>1, <2>3, <2>4
<1>5. ASSUME NEW w \in Worker, NEW j \in Item, TaskStep(w, j) \/ TaskFault(w, j)
      PROVE  RowMoves(i)
  <2>1. ASSUME Owns(w, j), ExtendLease(j), UNCHANGED <<attempts, letter>> PROVE RowMoves(i)
    BY <2>1 DEF Owns, ExtendLease, RowMoves, Kept, TypeOK, ItemRow
  <2>2. CASE FirstHeartbeat(w, j) \/ Pulse(w, j)
    BY <2>1, <2>2 DEF FirstHeartbeat, Pulse, Extendable
  <2>3. CASE CompleteWorkItem(w, j)
    <3>1. CASE i = j
      BY <2>3, <3>1 DEF CompleteWorkItem, RowMoves, Completed, TypeOK
    <3>2. CASE i # j
      BY <2>3, <3>2 DEF CompleteWorkItem, RowMoves, Kept, TypeOK
    <3> QED
      BY <3>1, <3>2
  <2>4. CASE FailWorkItem(w, j)
    <3> DEFINE decision == RetryDecision(task[w][j].pc, item[j].attemptCount,
                                         item[j].maxAttempts)
    <3>1. Owns(w, j) /\ task[w][j].pc \in FailureClass /\ Fail(w, j, decision)
      BY <2>4 DEF FailWorkItem
    <3>2. CASE i # j
      BY <3>1, <3>2 DEF Fail, RowMoves, Kept, TypeOK
    <3>3. /\ decision \in {"PAUSE", "DEAD_LETTER", "RETRY"}
          /\ decision = "RETRY" => item[j].attemptCount < item[j].maxAttempts
      BY <3>1 DEF RetryDecision, FailureClass, TypeOK, ItemRow
    <3>4. CASE i = j
      <4> HIDE DEF decision
      <4>1. Failed(w, j)
        BY <3>1, <3>3 DEF Fail, Failed, TypeOK
      <4> QED
        BY <3>4, <4>1 DEF RowMoves
    <3> QED
      BY <3>2, <3>4
  <2>5. CASE ~ (FirstHeartbeat(w, j) \/ Pulse(w, j) \/ CompleteWorkItem(w, j)
                \/ FailWorkItem(w, j))
    BY <1>1, <1>5, <2>5
    DEF TaskStep, TaskFault, ReadReceipt, HandlerEffect, HandlerReturns, RecordReceipt,
        LeaseLost, PulseFails, HandlerThrows, StatementFails, FailureNotRecorded
  <2> QED
    BY <2>2, <2>3, <2>4, <2>5
<1> QED
  BY <1>2, <1>3, <1>4, <1>5 DEF Next

-----------------------------------------------------------------------------
(* What a step does to the effects and the receipt of item i *)

EvidenceMoves(i) ==
  /\ effects'[i] = effects[i] \/ \E w \in Worker : HandlerEffect(w, i)
  /\ receipt'[i] = receipt[i] \/ \E w \in Worker : RecordReceipt(w, i)

LEMMA EvidenceStep ==
  ASSUME TypeOK, [Next]_vars
  PROVE  \A i \in Item : EvidenceMoves(i)
<1> USE DEF rows, main
<1> SUFFICES ASSUME NEW i \in Item PROVE EvidenceMoves(i)
  OBVIOUS
<1>1. ASSUME UNCHANGED <<effects, receipt>> PROVE EvidenceMoves(i)
  BY <1>1 DEF EvidenceMoves
<1>2. CASE UNCHANGED vars \/ Outside
  BY <1>1, <1>2 DEF vars, Outside, ActivateHandler, RevokeActivation, EnqueueWorkItem,
                    ReplayDeadLetter, LeaseExpires, BecomesDue
<1>3. ASSUME NEW w \in Worker, ProcessStep(w) \/ ProcessFault(w) PROVE EvidenceMoves(i)
  BY <1>1, <1>3
  DEF ProcessStep, ProcessFault, StartProcess, BeginCycle, Terminalize, ClaimWorkBatch,
      ClaimNothing, StartGroup, EndCycle, FinishCrashed, ProcessEnds, StopProcess,
      ClaimAnswerLost, CycleThrows, RequestShutdown, Kill, Lease
<1>4. ASSUME NEW w \in Worker, NEW j \in Item, TaskStep(w, j) \/ TaskFault(w, j)
      PROVE  EvidenceMoves(i)
  <2>1. CASE HandlerEffect(w, j)
    BY <2>1 DEF HandlerEffect, EvidenceMoves, TypeOK
  <2>2. CASE RecordReceipt(w, j)
    BY <2>2 DEF RecordReceipt, EvidenceMoves, TypeOK
  <2>3. CASE ~ (HandlerEffect(w, j) \/ RecordReceipt(w, j))
    BY <1>1, <1>4, <2>3
    DEF TaskStep, TaskFault, FirstHeartbeat, ReadReceipt, HandlerReturns, CompleteWorkItem,
        FailWorkItem, Fail, LeaseLost, Pulse, PulseFails, HandlerThrows, StatementFails,
        FailureNotRecorded
  <2> QED
    BY <2>1, <2>2, <2>3
<1> QED
  BY <1>2, <1>3, <1>4 DEF Next

-----------------------------------------------------------------------------
(* What a step does to the task of process w on item i *)

Working(w, i) == task[w][i].pc # "none"
Busy == {"dispatch", "exiting", "exited"}

\* The task ends, or there was none.
Dropped(w, i) == task'[w][i].pc = "none"

\* The item was claimed; the task starts under the fencing token of the new lease.
Taken(w, i) ==
  /\ Granted(w, i)
  /\ task'[w][i].pc = "claimed"
  /\ task'[w][i].token = item[i].fencingToken + 1
  /\ proc'[w] = "dispatch"
  /\ UNCHANGED <<effects, receipt>>

\* The steps of executeRegisteredHandler.
Edge(w, i, from, to) ==
  \/ to = from
  \/ to \in FailureClass
  \/ from = "claimed" /\ to = "ready"
  \/ from = "ready" /\ to = "check"
  \/ from = "check" /\ to = "handler" /\ receipt[i] = 0
  \/ from = "check" /\ to = "known" /\ receipt[i] # 0
  \/ from = "handler" /\ to = "applied" /\ task[w][i].token \in effects'[i]
  \/ from = "applied" /\ to = "returned"
  \/ /\ from = "returned" /\ to \in {"recorded", "known"}
     /\ task[w][i].token # 0 => receipt'[i] # 0

Carried(w, i) ==
  /\ Working(w, i)
  /\ task'[w][i].token = task[w][i].token
  /\ proc[w] \in Busy => proc'[w] \in Busy
  /\ Edge(w, i, task[w][i].pc, task'[w][i].pc)

TaskMoves(w, i) == Dropped(w, i) \/ Taken(w, i) \/ Carried(w, i)

\* A step that leaves the task and does not take the process out of its cycle.
LEMMA TaskUnchanged ==
  ASSUME NEW w \in Worker, NEW i \in Item, task'[w][i] = task[w][i],
         proc[w] \in Busy => proc'[w] \in Busy
  PROVE  TaskMoves(w, i)
  BY DEF TaskMoves, Dropped, Carried, Working, Edge

LEMMA GoToMoves ==
  ASSUME TypeOK, NEW w \in Worker, NEW i \in Item, NEW pc \in TaskPc, GoTo(w, i, pc)
  PROVE  /\ task'[w][i].pc = pc
         /\ pc # "none" => task'[w][i].token = task[w][i].token
         /\ \A v \in Worker, j \in Item : v # w \/ j # i => task'[v][j] = task[v][j]
<1>1. task[w][i] \in Task
  BY DEF TypeOK
<1>2. task'[w][i] = Moved(task[w][i], pc)
  BY DEF GoTo, TypeOK
<1>3. \A v \in Worker, j \in Item : v # w \/ j # i => task'[v][j] = task[v][j]
  BY DEF GoTo, TypeOK
<1> QED
  BY <1>1, <1>2, <1>3 DEF Moved, NoTask, Task

LEMMA TaskMoveStep ==
  ASSUME TypeOK, [Next]_vars
  PROVE  \A w \in Worker, i \in Item : TaskMoves(w, i)
<1> USE DEF rows, main
<1> SUFFICES ASSUME NEW w \in Worker, NEW i \in Item PROVE TaskMoves(w, i)
  OBVIOUS
<1>1. CASE UNCHANGED vars \/ Outside
  BY <1>1, TaskUnchanged DEF vars, Outside, ActivateHandler, RevokeActivation,
     EnqueueWorkItem, ReplayDeadLetter, LeaseExpires, BecomesDue
<1>2. ASSUME NEW v \in Worker, ProcessStep(v) \/ ProcessFault(v) PROVE TaskMoves(w, i)
  <2>1. CASE v # w
    <3>1. task'[w] = task[w] /\ proc'[w] = proc[w]
      BY <1>2, <2>1
      DEF ProcessStep, ProcessFault, StartProcess, BeginCycle, Terminalize, ClaimWorkBatch,
          ClaimNothing, StartGroup, EndCycle, FinishCrashed, ProcessEnds, StopProcess,
          ClaimAnswerLost, CycleThrows, RequestShutdown, Kill, Gone, TypeOK
    <3> QED
      BY <3>1, TaskUnchanged
  <2>2. CASE v = w /\ (ProcessEnds(w) \/ StopProcess(w) \/ Kill(w))
    BY <2>2 DEF ProcessEnds, StopProcess, Kill, Gone, NoTask, TaskMoves, Dropped, TypeOK
  <2>3. CASE v = w /\ ClaimWorkBatch(w)
    <3>1. PICK batch \in SUBSET {j \in Item : Claimable(j)} :
            /\ Lease(w, batch)
            /\ task' = [task EXCEPT ![w] = [j \in Item |->
                   IF j \in batch
                   THEN [NoTask EXCEPT !.pc = "claimed", !.token = item[j].fencingToken + 1]
                   ELSE NoTask]]
      BY <2>3 DEF ClaimWorkBatch
    <3>2. CASE i \notin batch
      BY <3>1, <3>2 DEF NoTask, TaskMoves, Dropped, TypeOK
    <3>3. CASE i \in batch
      <4>1. /\ task'[w][i].pc = "claimed"
            /\ task'[w][i].token = item[i].fencingToken + 1
        BY <3>1, <3>3 DEF NoTask, TypeOK
      <4>2. Granted(w, i)
        BY <2>3, <3>1, <3>3 DEF ClaimWorkBatch, Lease, Granted
      <4>3. proc'[w] = "dispatch" /\ UNCHANGED <<effects, receipt>>
        BY <2>3, <3>1 DEF ClaimWorkBatch, Lease, TypeOK
      <4> QED
        BY <4>1, <4>2, <4>3 DEF Taken, TaskMoves
    <3> QED
      BY <3>2, <3>3
  <2>4. CASE v = w /\ StartGroup(w)
    <3>1. PICK group \in SUBSET Claimed(w) :
            task' = [task EXCEPT ![w] = [j \in Item |->
                       IF j \in group THEN [task[w][j] EXCEPT !.pc = GroupPc(w)]
                                      ELSE task[w][j]]]
      BY <2>4 DEF StartGroup
    <3>2. proc' = proc
      BY <2>4 DEF StartGroup
    <3>3. CASE i \notin group
      BY <3>1, <3>2, <3>3, TaskUnchanged DEF TypeOK
    <3>4. CASE i \in group
      <4>1. task[w][i] \in Task /\ task[w][i].pc = "claimed"
        BY <3>4 DEF Claimed, TypeOK
      <4>2. task'[w][i] = [task[w][i] EXCEPT !.pc = GroupPc(w)]
        BY <3>1, <3>4 DEF TypeOK
      <4>3. /\ task'[w][i].pc \in {"ready", "CONFIGURATION"}
            /\ task'[w][i].token = task[w][i].token
        BY <4>1, <4>2 DEF GroupPc, Task
      <4> QED
        BY <3>2, <4>1, <4>3 DEF TaskMoves, Carried, Working, Edge, FailureClass
    <3> QED
      BY <3>3, <3>4
  <2>5. CASE v = w /\ EndCycle(w)
    BY <2>5 DEF EndCycle, InFlight, Claimed, TaskMoves, Dropped
  <2>6. CASE /\ v = w
             /\ ~ (ProcessEnds(w) \/ StopProcess(w) \/ Kill(w) \/ ClaimWorkBatch(w)
                   \/ StartGroup(w) \/ EndCycle(w))
    <3>1. task' = task /\ (proc[w] \in Busy => proc'[w] \in Busy)
      BY <1>2, <2>6
      DEF ProcessStep, ProcessFault, StartProcess, BeginCycle, Terminalize, ClaimNothing,
          FinishCrashed, ClaimAnswerLost, CycleThrows, RequestShutdown, TypeOK, Busy
    <3> QED
      BY <3>1, TaskUnchanged
  <2> QED
    BY <2>1, <2>2, <2>3, <2>4, <2>5, <2>6
<1>3. ASSUME NEW v \in Worker, NEW j \in Item, TaskStep(v, j) \/ TaskFault(v, j)
      PROVE  TaskMoves(w, i)
  <2>1. proc[w] \in Busy => proc'[w] \in Busy
    BY <1>3
    DEF TaskStep, TaskFault, FirstHeartbeat, ReadReceipt, HandlerEffect, HandlerReturns,
        RecordReceipt, CompleteWorkItem, FailWorkItem, Rejects, LeaseLost, Pulse, PulseFails,
        HandlerThrows, StatementFails, FailureNotRecorded, TypeOK, Busy
  <2>2. CASE Pulse(v, j) \/ PulseFails(v, j)
    <3>1. PICK heard \in BOOLEAN : task' = [task EXCEPT ![v][j].healthy = heard]
      BY <2>2 DEF Pulse, PulseFails
    <3>2. /\ task'[w][i].pc = task[w][i].pc
          /\ task'[w][i].token = task[w][i].token
      BY <3>1 DEF TypeOK, Task
    <3> QED
      BY <2>1, <3>2 DEF TaskMoves, Dropped, Carried, Working, Edge
  <2>3. ASSUME NEW pc \in TaskPc, GoTo(v, j, pc),
               pc = "none" \/ (Working(v, j) /\ Edge(v, j, task[v][j].pc, pc))
        PROVE  TaskMoves(w, i)
    <3>1. CASE v # w \/ i # j
      BY <2>1, <2>3, <3>1, GoToMoves, TaskUnchanged
    <3>2. CASE v = w /\ i = j
      BY <2>1, <2>3, <3>2, GoToMoves DEF TaskMoves, Dropped, Carried
    <3> QED
      BY <3>1, <3>2
  \* The task ends, or is about to report a failure.
  <2>4. ASSUME NEW pc \in {"none"} \cup FailureClass, GoTo(v, j, pc), task[v][j].pc # "none"
         PROVE  TaskMoves(w, i)
    <3>1. pc \in TaskPc
      BY DEF TaskPc
    <3>2. pc = "none" \/ (Working(v, j) /\ Edge(v, j, task[v][j].pc, pc))
      BY <2>4 DEF Working, Edge
    <3> QED
      BY <2>3, <2>4, <3>1, <3>2
  <2> USE DEF Working, Edge
  <2>5. CASE FirstHeartbeat(v, j)
    BY <2>3, <2>5 DEF FirstHeartbeat, TaskPc, FailureClass
  <2>6. CASE ReadReceipt(v, j)
    BY <2>3, <2>6 DEF ReadReceipt, TaskPc
  <2>7. CASE HandlerEffect(v, j)
    BY <2>3, <2>7 DEF HandlerEffect, TaskPc, TypeOK
  <2>8. CASE HandlerReturns(v, j)
    BY <2>3, <2>8 DEF HandlerReturns, TaskPc
  <2>9. CASE RecordReceipt(v, j)
    <3>1. PICK pc \in {"recorded", "known", "UNKNOWN"} : GoTo(v, j, pc)
      BY <2>9 DEF RecordReceipt
    <3>2. task[v][j].pc = "returned" /\ (task[v][j].token # 0 => receipt'[j] # 0)
      BY <2>9 DEF RecordReceipt, TypeOK
    <3> QED
      BY <2>3, <3>1, <3>2 DEF TaskPc, FailureClass
  <2>10. CASE CompleteWorkItem(v, j)
    <3>1. PICK pc \in {"none", "UNKNOWN"} : GoTo(v, j, pc)
      BY <2>10 DEF CompleteWorkItem
    <3>2. task[v][j].pc # "none"
      BY <2>10 DEF CompleteWorkItem
    <3> QED
      BY <2>4, <3>1, <3>2 DEF FailureClass
  <2>11. CASE FailWorkItem(v, j) \/ FailureNotRecorded(v, j) \/ LeaseLost(v, j)
    <3>1. GoTo(v, j, "none") /\ task[v][j].pc # "none"
      BY <2>11 DEF FailWorkItem, FailureNotRecorded, Rejects, LeaseLost, FailureClass
    <3> QED
      BY <2>4, <3>1
  <2>12. CASE HandlerThrows(v, j)
    BY <2>4, <2>12 DEF HandlerThrows
  <2>13. CASE StatementFails(v, j)
    BY <2>4, <2>13 DEF StatementFails, FailureClass
  <2> QED
    BY <1>3, <2>2, <2>5, <2>6, <2>7, <2>8, <2>9, <2>10, <2>11, <2>12, <2>13
    DEF TaskStep, TaskFault
<1> QED
  BY <1>1, <1>2, <1>3 DEF Next

-----------------------------------------------------------------------------
(* The inductive invariant *)

\* The row alone: a lease has an owner and a token, and the budget is not exceeded.
LeaseShape ==
  \A i \in Item :
    /\ item[i].status = "LEASED" <=> item[i].owner # NoWorker
    /\ item[i].attemptCount <= item[i].maxAttempts
    /\ item[i].status = "LEASED" => item[i].attemptCount > 0 /\ item[i].fencingToken > 0
    /\ item[i].status = "ABSENT" => item[i].attemptCount = 0

\* A task holds a token that was given out; as long as the lease under that token is not
\* over, it is this process's lease.
Authority ==
  \A w \in Worker, i \in Item : Working(w, i) =>
    /\ task[w][i].token \in 1..item[i].fencingToken
    /\ ~ Stale(w, i) => item[i].owner = w
    /\ proc[w] \in Busy

\* No two tasks were started under the same lease.
DistinctTokens ==
  \A v, w \in Worker, i \in Item :
    Working(v, i) /\ Working(w, i) /\ v # w => task[v][i].token # task[w][i].token

\* What the receipts say of the effects, and the successes of the receipts.
Evidence ==
  \A i \in Item :
    /\ effects[i] \subseteq 1..item[i].fencingToken
    /\ receipt[i] # 0 => receipt[i] \in effects[i]
    /\ item[i].status = "SUCCEEDED" => receipt[i] # 0

\* How far the task has come, and what it has left behind.
Progress ==
  \A w \in Worker, i \in Item :
    /\ task[w][i].pc \in {"claimed", "ready", "check", "handler"} =>
         task[w][i].token \notin effects[i]
    /\ task[w][i].pc \in {"applied", "returned"} => task[w][i].token \in effects[i]
    /\ task[w][i].pc \in {"recorded", "known"} => receipt[i] # 0
    /\ task[w][i].pc \in {"handler", "applied", "returned"} /\ ~ Stale(w, i) =>
         receipt[i] = 0

IInv == TypeOK /\ LeaseShape /\ Authority /\ DistinctTokens /\ Evidence /\ Progress

LEMMA InitIInv == Init => IInv
<1> SUFFICES ASSUME Init PROVE IInv
  OBVIOUS
<1>1. TypeOK
  BY InitTyped
<1>2. LeaseShape
  BY DEF Init, LeaseShape, NoItem
<1>3. \A w \in Worker, i \in Item : task[w][i].pc = "none"
  BY DEF Init, NoTask
<1>4. Authority /\ DistinctTokens /\ Progress
  BY <1>3 DEF Authority, DistinctTokens, Progress, Working
<1>5. Evidence
  BY DEF Init, Evidence, NoItem
<1> QED
  BY <1>1, <1>2, <1>4, <1>5 DEF IInv

\* Fencing tokens are never taken back, and a lease that is over stays over.
LEMMA FenceGrows ==
  ASSUME TypeOK, [Next]_vars, NEW i \in Item
  PROVE  /\ item'[i].fencingToken >= item[i].fencingToken
         /\ \/ item'[i].fencingToken > item[i].fencingToken
            \/ item'[i].status # "LEASED"
            \/ item[i].status = "LEASED" /\ item'[i].owner = item[i].owner
<1> USE DEF TypeOK, ItemRow
<1>1. RowMoves(i)
  BY RowStep
<1>2. CASE Kept(i)
  BY <1>2 DEF Kept
<1>3. CASE Enqueued(i) \/ Revived(i) \/ Buried(i)
  <2>1. CASE Enqueued(i)
    BY <2>1 DEF Enqueued
  <2>2. CASE Revived(i)
    BY <2>2, ReplayedFields DEF Revived
  <2>3. CASE Buried(i)
    BY <2>3, ReleasedFields DEF Buried
  <2> QED
    BY <1>3, <2>1, <2>2, <2>3
<1>4. ASSUME NEW w \in Worker, Granted(w, i)
      PROVE  item'[i].fencingToken = item[i].fencingToken + 1
  BY <1>4, LeasedFields DEF Granted
<1>5. ASSUME NEW w \in Worker, Completed(w, i) \/ Failed(w, i)
      PROVE  item'[i].fencingToken = item[i].fencingToken /\ item'[i].status # "LEASED"
  BY <1>5, ReleasedFields DEF Completed, Failed
<1> QED
  BY <1>1, <1>2, <1>3, <1>4, <1>5 DEF RowMoves

LEMMA LeaseShapeStep ==
  ASSUME TypeOK, LeaseShape, [Next]_vars
  PROVE  LeaseShape'
<1> SUFFICES ASSUME NEW i \in Item
             PROVE  /\ item'[i].status = "LEASED" <=> item'[i].owner # NoWorker
                    /\ item'[i].attemptCount <= item'[i].maxAttempts
                    /\ item'[i].status = "LEASED" =>
                         item'[i].attemptCount > 0 /\ item'[i].fencingToken > 0
                    /\ item'[i].status = "ABSENT" => item'[i].attemptCount = 0
  BY DEF LeaseShape
<1> USE DEF LeaseShape, TypeOK, ItemRow
<1>1. RowMoves(i)
  BY RowStep
<1>2. CASE Kept(i)
  BY <1>2 DEF Kept
<1>3. CASE Enqueued(i)
  BY <1>3, PolicyAssumption DEF Enqueued
<1>4. CASE Revived(i)
  BY <1>4, PolicyAssumption, ReplayedFields DEF Revived
<1>5. CASE Buried(i)
  BY <1>5, ReleasedFields DEF Buried
<1>6. ASSUME NEW w \in Worker, Granted(w, i)
      PROVE  /\ item'[i].status = "LEASED" /\ item'[i].owner # NoWorker
             /\ item'[i].attemptCount <= item'[i].maxAttempts
             /\ item'[i].attemptCount > 0 /\ item'[i].fencingToken > 0
  <2>1. item'[i] = LeasedTo(item[i], w) /\ item[i].attemptCount < item[i].maxAttempts
    BY <1>6 DEF Granted, Claimable
  <2> QED
    BY <2>1, LeasedFields, WorkerAssumption
<1>7. ASSUME NEW w \in Worker, Completed(w, i) \/ Failed(w, i)
      PROVE  /\ item'[i].status \notin {"LEASED", "ABSENT"} /\ item'[i].owner = NoWorker
             /\ item'[i].attemptCount <= item'[i].maxAttempts
  BY <1>7, ReleasedFields DEF Completed, Failed
<1> QED
  BY <1>1, <1>2, <1>3, <1>4, <1>5, <1>6, <1>7 DEF RowMoves

\* A task that goes on keeps its token, and cannot win its lease back.
LEMMA CarriedLease ==
  ASSUME TypeOK, Authority, [Next]_vars, NEW w \in Worker, NEW i \in Item, Carried(w, i)
  PROVE  /\ task'[w][i].token = task[w][i].token
         /\ task'[w][i].token \in 1..item'[i].fencingToken
         /\ ~ Stale(w, i)' => /\ ~ Stale(w, i)
                             /\ item'[i].owner = item[i].owner
<1>1. /\ item[i].fencingToken \in Nat /\ item'[i].fencingToken \in Nat
      /\ task[w][i].token \in Nat
  BY StepTyped DEF TypeOK, ItemRow, Task
<1>2. task'[w][i].token = task[w][i].token /\ task[w][i].token \in 1..item[i].fencingToken
  BY DEF Carried, Authority
<1>3. /\ item'[i].fencingToken >= item[i].fencingToken
      /\ \/ item'[i].fencingToken > item[i].fencingToken
         \/ item'[i].status # "LEASED"
         \/ item[i].status = "LEASED" /\ item'[i].owner = item[i].owner
  BY FenceGrows
<1> QED
  BY <1>1, <1>2, <1>3 DEF Stale

\* A task that starts has the newest token.
LEMMA TakenLease ==
  ASSUME TypeOK, [Next]_vars, NEW w \in Worker, NEW i \in Item, Taken(w, i)
  PROVE  /\ task'[w][i].token = item[i].fencingToken + 1
         /\ item'[i].fencingToken = item[i].fencingToken + 1
         /\ item'[i].owner = w
<1>1. item[i] \in ItemRow
  BY DEF TypeOK
<1> QED
  BY <1>1, LeasedFields DEF Taken, Granted

LEMMA AuthorityStep ==
  ASSUME TypeOK, Authority, [Next]_vars
  PROVE  Authority'
<1> SUFFICES ASSUME NEW w \in Worker, NEW i \in Item, task'[w][i].pc # "none"
             PROVE  /\ task'[w][i].token \in 1..item'[i].fencingToken
                    /\ ~ Stale(w, i)' => item'[i].owner = w
                    /\ proc'[w] \in Busy
  BY DEF Authority, Working
<1>1. CASE Taken(w, i)
  <2>1. item[i].fencingToken \in Nat
    BY DEF TypeOK, ItemRow
  <2> QED
    BY <1>1, <2>1, TakenLease DEF Taken, Busy
<1>2. CASE Carried(w, i)
  <2>1. Working(w, i) /\ (proc[w] \in Busy => proc'[w] \in Busy)
    BY <1>2 DEF Carried
  <2> QED
    BY <1>2, <2>1, CarriedLease DEF Authority
<1> QED
  BY <1>1, <1>2, TaskMoveStep DEF TaskMoves, Dropped

LEMMA DistinctTokensStep ==
  ASSUME TypeOK, Authority, DistinctTokens, [Next]_vars
  PROVE  DistinctTokens'
<1> SUFFICES ASSUME NEW v \in Worker, NEW w \in Worker, NEW i \in Item, v # w,
                    task'[v][i].pc # "none", task'[w][i].pc # "none"
             PROVE  task'[v][i].token # task'[w][i].token
  BY DEF DistinctTokens, Working
<1>1. item[i].fencingToken \in Nat
  BY DEF TypeOK, ItemRow
<1>2. (Taken(v, i) \/ Carried(v, i)) /\ (Taken(w, i) \/ Carried(w, i))
  BY TaskMoveStep DEF TaskMoves, Dropped
<1>3. \A u \in Worker : Carried(u, i) =>
        /\ Working(u, i)
        /\ task'[u][i].token = task[u][i].token
        /\ task[u][i].token \in 1..item[i].fencingToken
  BY DEF Carried, Authority
<1>4. CASE Taken(v, i) /\ Taken(w, i)
  BY <1>4, TakenLease
<1>5. CASE Carried(v, i) /\ Carried(w, i)
  BY <1>3, <1>5 DEF DistinctTokens
<1>6. CASE \/ Taken(v, i) /\ Carried(w, i)
           \/ Carried(v, i) /\ Taken(w, i)
  BY <1>1, <1>3, <1>6, TakenLease
<1> QED
  BY <1>2, <1>4, <1>5, <1>6

LEMMA HandlerEffectMoves ==
  ASSUME TypeOK, NEW w \in Worker, NEW i \in Item, HandlerEffect(w, i)
  PROVE  /\ Working(w, i)
         /\ effects'[i] = effects[i] \cup {task[w][i].token}
         /\ task'[w][i].pc = "applied"
         /\ item' = item /\ receipt' = receipt
<1>1. GoTo(w, i, "applied") /\ "applied" \in TaskPc
  BY DEF HandlerEffect, TaskPc
<1> QED
  BY <1>1, GoToMoves DEF HandlerEffect, Working, TypeOK, rows

LEMMA RecordReceiptMoves ==
  ASSUME TypeOK, NEW w \in Worker, NEW i \in Item, RecordReceipt(w, i)
  PROVE  /\ task[w][i].pc = "returned"
         /\ Owns(w, i)
         /\ receipt'[i] = IF receipt[i] = 0 THEN task[w][i].token ELSE receipt[i]
         /\ task'[w][i].pc \in {"recorded", "known", "UNKNOWN"}
         /\ item' = item /\ effects' = effects
<1>1. PICK pc \in {"recorded", "known", "UNKNOWN"} : GoTo(w, i, pc)
  BY DEF RecordReceipt
<1>2. task'[w][i].pc = pc
  BY <1>1, GoToMoves DEF TaskPc, FailureClass
<1> QED
  BY <1>2 DEF RecordReceipt, TypeOK

\* Effects are not undone, and a receipt is not rewritten.
LEMMA EvidenceGrows ==
  ASSUME TypeOK, [Next]_vars, NEW i \in Item
  PROVE  /\ effects[i] \subseteq effects'[i]
         /\ receipt[i] # 0 => receipt'[i] = receipt[i]
  BY EvidenceStep, HandlerEffectMoves, RecordReceiptMoves DEF EvidenceMoves

LEMMA EvidenceInvStep ==
  ASSUME IInv, [Next]_vars
  PROVE  Evidence'
<1> USE DEF IInv
<1> SUFFICES ASSUME NEW i \in Item
             PROVE  /\ effects'[i] \subseteq 1..item'[i].fencingToken
                    /\ receipt'[i] # 0 => receipt'[i] \in effects'[i]
                    /\ item'[i].status = "SUCCEEDED" => receipt'[i] # 0
  BY DEF Evidence
<1>1. /\ item[i].fencingToken \in Nat /\ item'[i].fencingToken \in Nat
      /\ item'[i].fencingToken >= item[i].fencingToken
  BY FenceGrows, StepTyped DEF TypeOK, ItemRow
<1>2. effects'[i] \subseteq 1..item'[i].fencingToken
  <2>1. effects[i] \subseteq 1..item'[i].fencingToken
    BY <1>1 DEF Evidence
  <2>2. ASSUME NEW w \in Worker, HandlerEffect(w, i)
        PROVE  effects'[i] \subseteq 1..item'[i].fencingToken
    BY <2>1, <2>2, HandlerEffectMoves DEF Authority
  <2> QED
    BY <2>1, <2>2, EvidenceStep DEF EvidenceMoves
<1>3. receipt'[i] # 0 => receipt'[i] \in effects'[i]
  <2>1. CASE receipt'[i] = receipt[i]
    BY <2>1, EvidenceGrows DEF Evidence
  <2>2. ASSUME NEW w \in Worker, RecordReceipt(w, i)
        PROVE  receipt'[i] # 0 => receipt'[i] \in effects'[i]
    BY <2>2, RecordReceiptMoves DEF Evidence, Progress
  <2> QED
    BY <2>1, <2>2, EvidenceStep DEF EvidenceMoves
<1>4. item'[i].status = "SUCCEEDED" => receipt'[i] # 0
  <2> SUFFICES item'[i].status = "SUCCEEDED" => receipt[i] # 0
    BY EvidenceGrows
  <2> USE DEF TypeOK
  <2>1. RowMoves(i)
    BY RowStep
  <2>2. CASE Kept(i)
    BY <2>2 DEF Kept, Evidence
  <2>3. CASE Enqueued(i)
    BY <2>3 DEF Enqueued, ItemRow
  <2>4. CASE Revived(i) \/ Buried(i)
    BY <2>4, ReplayedFields, ReleasedFields DEF Revived, Buried
  <2>5. ASSUME NEW w \in Worker, Granted(w, i) PROVE item'[i].status # "SUCCEEDED"
    BY <2>5, LeasedFields DEF Granted
  <2>6. ASSUME NEW w \in Worker, Completed(w, i) PROVE receipt[i] # 0
    BY <2>6 DEF Completed, Progress
  <2>7. ASSUME NEW w \in Worker, Failed(w, i) PROVE item'[i].status # "SUCCEEDED"
    BY <2>7, ReleasedFields DEF Failed
  <2> QED
    BY <2>1, <2>2, <2>3, <2>4, <2>5, <2>6, <2>7 DEF RowMoves
<1> QED
  BY <1>2, <1>3, <1>4

LEMMA ProgressStep ==
  ASSUME IInv, [Next]_vars
  PROVE  Progress'
<1> USE DEF IInv
<1> SUFFICES ASSUME NEW w \in Worker, NEW i \in Item
             PROVE  /\ task'[w][i].pc \in {"claimed", "ready", "check", "handler"} =>
                         task'[w][i].token \notin effects'[i]
                    /\ task'[w][i].pc \in {"applied", "returned"} =>
                         task'[w][i].token \in effects'[i]
                    /\ task'[w][i].pc \in {"recorded", "known"} => receipt'[i] # 0
                    /\ /\ task'[w][i].pc \in {"handler", "applied", "returned"}
                       /\ ~ Stale(w, i)'
                       => receipt'[i] = 0
  BY DEF Progress, Stale
<1>1. CASE Dropped(w, i)
  BY <1>1 DEF Dropped
<1>2. CASE Taken(w, i)
  <2>1. item[i].fencingToken \in Nat
    BY DEF TypeOK, ItemRow
  <2>2. task'[w][i].pc = "claimed" /\ effects' = effects
    BY <1>2 DEF Taken
  <2> QED
    BY <1>2, <2>1, <2>2, TakenLease DEF Evidence
<1>3. CASE Carried(w, i)
  <2> DEFINE from == task[w][i].pc
             to == task'[w][i].pc
  <2>1. /\ Working(w, i)
        /\ task'[w][i].token = task[w][i].token
        /\ Edge(w, i, from, to)
    BY <1>3 DEF Carried
  <2>2. ~ Stale(w, i)' => ~ Stale(w, i)
    BY <1>3, CarriedLease
  <2>3. to \in {"claimed", "ready", "check", "handler"} => task[w][i].token \notin effects'[i]
    <3> SUFFICES ASSUME to \in {"claimed", "ready", "check", "handler"}
                 PROVE  task[w][i].token \notin effects'[i]
      OBVIOUS
    <3>1. task[w][i].token \notin effects[i]
      BY <2>1 DEF Edge, FailureClass, Progress
    <3>2. ASSUME NEW v \in Worker, HandlerEffect(v, i)
          PROVE  task[w][i].token \notin effects'[i]
      BY <2>1, <3>1, <3>2, HandlerEffectMoves DEF DistinctTokens
    <3> QED
      BY <3>1, <3>2, EvidenceStep DEF EvidenceMoves
  <2>4. to \in {"applied", "returned"} => task[w][i].token \in effects'[i]
    BY <2>1, EvidenceGrows DEF Edge, FailureClass, Progress
  <2>5. to \in {"recorded", "known"} => receipt'[i] # 0
    <3>1. task[w][i].token # 0
      BY <2>1 DEF Authority
    <3> QED
      BY <2>1, <3>1, EvidenceGrows DEF Edge, FailureClass, Progress
  <2>6. to \in {"handler", "applied", "returned"} /\ ~ Stale(w, i)' => receipt'[i] = 0
    <3> SUFFICES ASSUME to \in {"handler", "applied", "returned"}, ~ Stale(w, i)
                 PROVE  receipt'[i] = 0
      BY <2>2
    <3>1. receipt[i] = 0
      BY <2>1 DEF Edge, FailureClass, Progress
    <3>2. ASSUME NEW v \in Worker, RecordReceipt(v, i) PROVE FALSE
      <4>1. v = w
        BY <2>1, <3>2, RecordReceiptMoves DEF Owns, Authority
      <4> QED
        BY <3>2, <4>1, RecordReceiptMoves
    <3> QED
      BY <3>1, <3>2, EvidenceStep DEF EvidenceMoves
  <2> QED
    BY <2>1, <2>3, <2>4, <2>5, <2>6
<1> QED
  BY <1>1, <1>2, <1>3, TaskMoveStep DEF TaskMoves

LEMMA StepIInv == IInv /\ [Next]_vars => IInv'
<1> SUFFICES ASSUME IInv, [Next]_vars PROVE IInv'
  OBVIOUS
<1>1. TypeOK'
  BY StepTyped DEF IInv
<1>2. LeaseShape' /\ Authority' /\ DistinctTokens'
  BY LeaseShapeStep, AuthorityStep, DistinctTokensStep DEF IInv
<1>3. Evidence' /\ Progress'
  BY EvidenceInvStep, ProgressStep
<1> QED
  BY <1>1, <1>2, <1>3 DEF IInv

\* The inductive invariant holds in every reachable state.
THEOREM Invariance == Spec => []IInv
  BY InitIInv, StepIInv, PTL DEF Spec

-----------------------------------------------------------------------------
(* The properties of WorkQueue *)

\* An item succeeds only on the evidence of a receipt, and every receipt names a fencing
\* token under which the handler did take effect (completeWorkItem, recordFencedEffectReceipt).
THEOREM SuccessEvidence == Spec => []SuccessIsEvidenced
<1>1. IInv => SuccessIsEvidenced
  BY DEF IInv, Evidence, SuccessIsEvidenced
<1> QED
  BY <1>1, Invariance, PTL

\* A process that still holds its lease when its handler returns finds no other receipt: the
\* conflict branches of recordFencedEffectReceipt are dead code, for any number of workers.
THEOREM ReceiptsDoNotConflict == Spec => []NoEffectKeyConflict
<1>1. IInv => NoEffectKeyConflict
  BY DEF IInv, Progress, NoEffectKeyConflict
<1> QED
  BY <1>1, Invariance, PTL

\* A task's step concerns no other task.
LEMMA OtherTasksKept ==
  ASSUME TypeOK, NEW v \in Worker, NEW j \in Item, TaskStep(v, j) \/ TaskFault(v, j),
         NEW w \in Worker, NEW i \in Item, v # w \/ j # i
  PROVE  task'[w][i] = task[w][i]
<1> USE DEF TypeOK
<1>1. ASSUME NEW pc, GoTo(v, j, pc) PROVE task'[w][i] = task[w][i]
  BY <1>1 DEF GoTo
<1>2. CASE Pulse(v, j) \/ PulseFails(v, j)
  <2>1. PICK heard \in BOOLEAN : task' = [task EXCEPT ![v][j].healthy = heard]
    BY <1>2 DEF Pulse, PulseFails
  <2> QED
    BY <2>1
<1>3. CASE ~ (Pulse(v, j) \/ PulseFails(v, j))
  BY <1>1, <1>3
  DEF TaskStep, TaskFault, FirstHeartbeat, ReadReceipt, HandlerEffect, HandlerReturns,
      RecordReceipt, CompleteWorkItem, FailWorkItem, Rejects, LeaseLost, HandlerThrows,
      StatementFails, FailureNotRecorded
<1> QED
  BY <1>2, <1>3

\* A step of a task whose lease is over leaves the tables as they are.
LEMMA StaleStep ==
  ASSUME IInv, [Next]_vars, NEW w \in Worker, NEW i \in Item,
         Working(w, i), Stale(w, i), task'[w][i] # task[w][i]
  PROVE  UNCHANGED rows
<1> USE DEF rows, main
<1>1. TypeOK /\ proc[w] \in Busy /\ ~ Owns(w, i)
  BY DEF IInv, Authority, Owns, Stale
<1>2. ~ UNCHANGED vars /\ ~ Outside
  BY DEF vars, Outside, ActivateHandler, RevokeActivation, EnqueueWorkItem, ReplayDeadLetter,
         LeaseExpires, BecomesDue
<1>3. ASSUME NEW v \in Worker, ProcessStep(v) \/ ProcessFault(v) PROVE UNCHANGED rows
  <2>1. ~ (Terminalize(v) \/ ClaimAnswerLost(v))
    BY DEF Terminalize, ClaimAnswerLost
  <2>2. ~ ClaimWorkBatch(v)
    BY <1>1 DEF ClaimWorkBatch, TypeOK, Busy
  <2> QED
    BY <1>3, <2>1, <2>2
    DEF ProcessStep, ProcessFault, StartProcess, BeginCycle, ClaimNothing, StartGroup,
        EndCycle, FinishCrashed, ProcessEnds, StopProcess, CycleThrows, RequestShutdown, Kill
<1>4. ASSUME NEW v \in Worker, NEW j \in Item, TaskStep(v, j) \/ TaskFault(v, j)
      PROVE  UNCHANGED rows
  <2>1. v = w /\ j = i
    BY <1>1, <1>4, OtherTasksKept
  <2> QED
    BY <1>1, <1>4, <2>1
    DEF TaskStep, TaskFault, FirstHeartbeat, ReadReceipt, HandlerEffect, HandlerReturns,
        RecordReceipt, CompleteWorkItem, FailWorkItem, LeaseLost, Pulse, PulseFails,
        HandlerThrows, StatementFails, FailureNotRecorded, Extendable
<1> QED
  BY <1>2, <1>3, <1>4 DEF Next

\* A fenced-off writer is powerless: whatever a task does after its lease was taken over or
\* given up, no row of the queue changes (lockLease, lockEffectReceiptLease).
THEOREM StaleWriterFenced == Spec => StaleTaskPowerless
<1>1. IInv /\ [Next]_vars =>
        [\A w \in Worker, i \in Item :
           task[w][i].pc # "none" /\ Stale(w, i) /\ task'[w][i] # task[w][i] =>
             /\ item'[i] = item[i] /\ receipt'[i] = receipt[i]
             /\ attempts'[i] = attempts[i] /\ letter'[i] = letter[i]]_vars
  BY StaleStep DEF Working, rows
<1> QED
  BY <1>1, Invariance, PTL DEF Spec, StaleTaskPowerless

\* One lease, one effect; and the process that holds the lease does not repeat an effect that
\* has a receipt (executeRegisteredHandler reads the receipt before it invokes the handler).
THEOREM OneEffectPerLease == Spec => HolderDoesNotRepeat
<1>1. IInv /\ [Next]_vars =>
        [\A w \in Worker, i \in Item :
           task[w][i].pc = "handler" /\ task'[w][i].pc = "applied" =>
             /\ task[w][i].token \notin effects[i]
             /\ ~ Stale(w, i) => receipt[i] = 0]_vars
  BY DEF IInv, Progress
<1> QED
  BY <1>1, Invariance, PTL DEF Spec, HolderDoesNotRepeat

\* A success is final, a receipt is not rewritten, and fencing tokens only grow.
THEOREM SuccessStands == Spec => SuccessIsFinal
<1>1. IInv /\ [Next]_vars =>
        [\A i \in Item :
           /\ item[i].status = "SUCCEEDED" => item'[i] = item[i] /\ attempts'[i] = attempts[i]
           /\ receipt[i] # 0 => receipt'[i] = receipt[i]
           /\ item'[i].fencingToken >= item[i].fencingToken]_vars
  <2> SUFFICES ASSUME IInv, [Next]_vars, NEW i \in Item, item[i].status = "SUCCEEDED"
               PROVE  item'[i] = item[i] /\ attempts'[i] = attempts[i]
    BY EvidenceGrows, FenceGrows DEF IInv
  <2>1. RowMoves(i)
    BY RowStep DEF IInv
  <2> QED
    BY <2>1 DEF RowMoves, Kept, Enqueued, Revived, Buried, Exhausted, Granted, Claimable,
                Completed, Failed, Owns
<1> QED
  BY <1>1, Invariance, PTL DEF Spec, SuccessIsFinal
=============================================================================
