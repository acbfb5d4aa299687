--------------------------- MODULE WorkQueueLedger ---------------------------
(***************************************************************************)
(* What WorkQueue keeps of every attempt, and what it promises of it, for  *)
(* every value of the constants: the attempt log has no gap and no double  *)
(* entry, a dead item has its letter, the counters of a WorkerRun add up,  *)
(* and the whole queue implements the abstract WorkLedger.                 *)
(***************************************************************************)
EXTENDS WorkQueueProofs

-----------------------------------------------------------------------------
(* The attempt log *)

\* The log holds the attempts 1 to n, each of them once.
Logged(log, n) ==
  /\ {a.number : a \in log} = 1..n
  /\ \A a, b \in log : a.number = b.number => a = b

ClosedAttempts(i) ==
  IF item[i].status = "LEASED" THEN item[i].attemptCount - 1 ELSE item[i].attemptCount

LEMMA LogGrows ==
  ASSUME NEW log, NEW n \in Nat, NEW outcome, Logged(log, n)
  PROVE  Logged(log \cup {[number |-> n + 1, outcome |-> outcome]}, n + 1)
<1> DEFINE new == [number |-> n + 1, outcome |-> outcome]
           grown == log \cup {new}
<1>1. new.number = n + 1
  OBVIOUS
<1> HIDE DEF new
<1>2. {a.number : a \in grown} = {a.number : a \in log} \cup {n + 1}
  BY <1>1
<1>3. (1..n) \cup {n + 1} = 1..(n + 1)
  OBVIOUS
<1>4. \A a \in log : a.number \in 1..n
  BY DEF Logged
<1>5. \A a, b \in grown : a.number = b.number => a = b
  BY <1>1, <1>4 DEF Logged
<1> QED
  BY <1>2, <1>3, <1>5 DEF Logged, new

LEMMA AttemptLedgerStep ==
  ASSUME TypeOK, LeaseShape, AttemptLedger, [Next]_vars
  PROVE  AttemptLedger'
<1>1. \A i \in Item : Logged(attempts[i], ClosedAttempts(i))
  BY DEF AttemptLedger, Logged, ClosedAttempts
<1> SUFFICES ASSUME NEW i \in Item PROVE Logged(attempts'[i], ClosedAttempts(i)')
  BY DEF AttemptLedger, Logged, ClosedAttempts
<1>2. item[i] \in ItemRow /\ item[i].attemptCount \in Nat
  BY DEF TypeOK, ItemRow
\* While the item is leased its current attempt is not logged; then it is.
<1>3. ASSUME item[i].status = "LEASED", NEW outcome
      PROVE  /\ Logged(WithAttempt(i, outcome), item[i].attemptCount)
             /\ SlotFree(i)
  <2>1. item[i].attemptCount - 1 \in Nat
    BY <1>2, <1>3 DEF LeaseShape
  <2>2. Logged(attempts[i], item[i].attemptCount - 1)
    BY <1>1, <1>3 DEF ClosedAttempts
  <2>3. SlotFree(i)
    BY <1>2, <2>2 DEF Logged, SlotFree
  <2>4. (item[i].attemptCount - 1) + 1 = item[i].attemptCount
    BY <1>2
  <2> QED
    BY <2>1, <2>2, <2>3, <2>4, LogGrows DEF WithAttempt
<1>4. ASSUME attempts'[i] = attempts[i], item'[i].attemptCount = item[i].attemptCount,
             item'[i].status = "LEASED" <=> item[i].status = "LEASED"
      PROVE  Logged(attempts'[i], ClosedAttempts(i)')
  BY <1>1, <1>4 DEF ClosedAttempts
<1>5. ASSUME item[i].status = "LEASED", item'[i].status # "LEASED",
             item'[i].attemptCount = item[i].attemptCount,
             NEW outcome, attempts'[i] = WithAttempt(i, outcome)
      PROVE  Logged(attempts'[i], ClosedAttempts(i)')
  BY <1>3, <1>5 DEF ClosedAttempts
<1>6. CASE Kept(i)
  BY <1>4, <1>6 DEF Kept
<1>7. CASE Enqueued(i)
  BY <1>2, <1>4, <1>7 DEF Enqueued, ItemRow
<1>8. CASE Revived(i)
  BY <1>2, <1>4, <1>8, ReplayedFields DEF Revived
<1>9. CASE Buried(i)
  BY <1>2, <1>5, <1>9, ReleasedFields DEF Buried, Exhausted
<1>10. ASSUME NEW w \in Worker, Granted(w, i)
       PROVE  Logged(attempts'[i], ClosedAttempts(i)')
  <2>1. /\ item'[i].status = "LEASED"
        /\ item'[i].attemptCount = item[i].attemptCount + 1
        /\ attempts'[i] = AfterLostLease(i)
    BY <1>2, <1>10, LeasedFields DEF Granted
  <2>2. Logged(AfterLostLease(i), item[i].attemptCount)
    BY <1>1, <1>3 DEF AfterLostLease, ClosedAttempts
  <2> QED
    BY <1>2, <2>1, <2>2 DEF ClosedAttempts
<1>11. ASSUME NEW w \in Worker, Completed(w, i)
       PROVE  Logged(attempts'[i], ClosedAttempts(i)')
  BY <1>2, <1>5, <1>11, ReleasedFields DEF Completed, Owns
<1>12. ASSUME NEW w \in Worker, Failed(w, i)
       PROVE  Logged(attempts'[i], ClosedAttempts(i)')
  BY <1>2, <1>5, <1>12, ReleasedFields DEF Failed, Owns
<1> QED
  BY <1>6, <1>7, <1>8, <1>9, <1>10, <1>11, <1>12, RowStep DEF RowMoves

\* Every attempt is logged exactly once, across takeovers, crashes and late answers: the
\* unique index (workItemId, attemptNumber) and its ON CONFLICT DO NOTHING skip nothing.
THEOREM AttemptsComplete == Spec => []AttemptLedger
<1>1. Init => AttemptLedger
  BY DEF Init, AttemptLedger, NoItem
<1>2. IInv /\ AttemptLedger /\ [Next]_vars => AttemptLedger'
  BY AttemptLedgerStep DEF IInv
<1> QED
  BY <1>1, <1>2, Invariance, PTL DEF Spec

-----------------------------------------------------------------------------
(* Dead letters *)

\* A letter, once written, names an attempt the item has had.
Letters == \A i \in Item : letter[i] \in 0..item[i].attemptCount

LEMMA LettersStep ==
  ASSUME IInv, Letters, DeadLetterEvidence, [Next]_vars
  PROVE  Letters' /\ DeadLetterEvidence'
<1> DEFINE Letter(i) == letter'[i] \in 0..item'[i].attemptCount
           Dead(i) == [number |-> item'[i].attemptCount, outcome |-> "DEAD_LETTERED"]
                        \in attempts'[i]
<1> SUFFICES ASSUME NEW i \in Item
             PROVE  /\ Letter(i)
                    /\ item'[i].status = "DEAD_LETTER" => letter'[i] # 0 /\ Dead(i)
  <2>1. \A n, m \in Nat : m \in 0..n /\ m # 0 => m \in 1..n
    OBVIOUS
  <2>2. \A j \in Item : item'[j].attemptCount \in Nat /\ letter'[j] \in Nat
    BY StepTyped DEF IInv, TypeOK, ItemRow
  <2> QED
    BY <2>1, <2>2 DEF Letters, DeadLetterEvidence
<1> USE DEF IInv
<1>1. /\ item[i] \in ItemRow /\ item[i].attemptCount \in Nat
      /\ letter[i] \in 0..item[i].attemptCount
  BY DEF TypeOK, ItemRow, Letters
<1>2. CASE Kept(i)
  BY <1>1, <1>2 DEF Kept, DeadLetterEvidence
<1>3. CASE Enqueued(i)
  BY <1>1, <1>3 DEF Enqueued, ItemRow
<1>4. CASE Revived(i)
  BY <1>1, <1>4, ReplayedFields DEF Revived
<1>5. ASSUME item[i].status = "LEASED", item'[i] = Released(item[i], "DEAD_LETTER"),
             attempts'[i] = WithAttempt(i, "DEAD_LETTERED"),
             letter'[i] = IF letter[i] = 0 THEN item[i].attemptCount ELSE letter[i]
      PROVE  Letter(i) /\ letter'[i] # 0 /\ Dead(i)
  <2>1. item'[i].attemptCount = item[i].attemptCount /\ item[i].attemptCount > 0
    BY <1>1, <1>5, ReleasedFields DEF LeaseShape
  <2>2. letter'[i] \in 0..item[i].attemptCount /\ letter'[i] # 0
    BY <1>1, <1>5, <2>1
  <2>3. [number |-> item[i].attemptCount, outcome |-> "DEAD_LETTERED"] \in attempts'[i]
    BY <1>5 DEF WithAttempt
  <2> QED
    BY <2>1, <2>2, <2>3
<1>6. CASE Buried(i)
  BY <1>5, <1>6 DEF Buried, Exhausted
<1>7. ASSUME NEW w \in Worker, Granted(w, i)
      PROVE  Letter(i) /\ item'[i].status # "DEAD_LETTER"
  BY <1>1, <1>7, LeasedFields DEF Granted
<1>8. ASSUME NEW w \in Worker, Completed(w, i)
      PROVE  Letter(i) /\ item'[i].status # "DEAD_LETTER"
  BY <1>1, <1>8, ReleasedFields DEF Completed
<1>9. ASSUME NEW w \in Worker, Failed(w, i)
      PROVE  /\ Letter(i)
             /\ item'[i].status = "DEAD_LETTER" => letter'[i] # 0 /\ Dead(i)
  <2>1. CASE item'[i] = Released(item[i], "DEAD_LETTER")
    BY <1>1, <1>5, <1>9, <2>1, ReleasedFields DEF Failed, Owns
  <2>2. CASE /\ \E status \in {"PAUSED", "RETRY"} : item'[i] = Released(item[i], status)
             /\ letter'[i] = letter[i]
    BY <1>1, <2>2, ReleasedFields
  <2> QED
    BY <1>1, <1>9, <2>1, <2>2 DEF Failed
<1> QED
  BY <1>2, <1>3, <1>4, <1>6, <1>7, <1>8, <1>9, RowStep DEF RowMoves

\* Whichever way an item died (failWorkItem, or the terminalization of an expired last
\* attempt), its letter and its DEAD_LETTERED attempt are there: it can be replayed.
THEOREM DeadLettersEvidenced == Spec => []DeadLetterEvidence
<1>1. Init => Letters /\ DeadLetterEvidence
  BY DEF Init, Letters, DeadLetterEvidence, NoItem
<1>2. IInv /\ Letters /\ DeadLetterEvidence /\ [Next]_vars => Letters' /\ DeadLetterEvidence'
  BY LettersStep
<1> QED
  BY <1>1, <1>2, Invariance, PTL DEF Spec

-----------------------------------------------------------------------------
(* The counters of a WorkerRun *)

\* The items whose settlement this process may still count.
Held(w) == {i \in Item : Working(w, i) /\ Owns(w, i)}

\* Every lease was counted when it was claimed, and is settled at most once.
Counts ==
  \A w \in Worker :
    run[w].succeeded + run[w].failed + Cardinality(Held(w)) <= run[w].claimed

Claiming(w) == proc[w] = "claim" /\ proc'[w] = "dispatch"

RunKept(w) ==
  /\ run'[w].succeeded = run[w].succeeded
  /\ run'[w].failed = run[w].failed
  /\ run'[w].claimed >= run[w].claimed
  /\ ~ Claiming(w)

RunEmptied(w) ==
  /\ run'[w] = FreshRun
  /\ \A i \in Item : task'[w][i].pc = "none"

RunClaims(w) ==
  /\ proc[w] = "claim"
  /\ run'[w].succeeded = run[w].succeeded
  /\ run'[w].failed = run[w].failed
  /\ \E batch \in SUBSET Item :
       /\ run'[w].claimed = run[w].claimed + Cardinality(batch)
       /\ \A i \in Item : task'[w][i].pc # "none" => i \in batch

RunSettles(w) ==
  /\ \E i \in Item : /\ Working(w, i) /\ Owns(w, i)
                     /\ item'[i].status # "LEASED"
  /\ run'[w].claimed = run[w].claimed
  /\ run'[w].succeeded + run'[w].failed = run[w].succeeded + run[w].failed + 1
  /\ ~ Claiming(w)

LEMMA CountedFields ==
  ASSUME NEW r \in RunRow, NEW n \in Nat, NEW status
  PROVE  /\ [r EXCEPT !.claimed = @ + n].claimed = r.claimed + n
         /\ [r EXCEPT !.claimed = @ + n].succeeded = r.succeeded
         /\ [r EXCEPT !.claimed = @ + n].failed = r.failed
         /\ [r EXCEPT !.succeeded = @ + 1].claimed = r.claimed
         /\ [r EXCEPT !.succeeded = @ + 1].succeeded = r.succeeded + 1
         /\ [r EXCEPT !.succeeded = @ + 1].failed = r.failed
         /\ [r EXCEPT !.failed = @ + 1].claimed = r.claimed
         /\ [r EXCEPT !.failed = @ + 1].succeeded = r.succeeded
         /\ [r EXCEPT !.failed = @ + 1].failed = r.failed + 1
         /\ [r EXCEPT !.status = status].claimed = r.claimed
         /\ [r EXCEPT !.status = status].succeeded = r.succeeded
         /\ [r EXCEPT !.status = status].failed = r.failed
         /\ r.claimed \in Nat /\ r.succeeded \in Nat /\ r.failed \in Nat
  BY DEF RunRow

LEMMA RunStep ==
  ASSUME TypeOK, [Next]_vars, NEW w \in Worker
  PROVE  RunKept(w) \/ RunEmptied(w) \/ RunClaims(w) \/ RunSettles(w)
<1> USE DEF rows, main
<1> DEFINE Goal == RunKept(w) \/ RunEmptied(w) \/ RunClaims(w) \/ RunSettles(w)
<1>1. run[w] \in RunRow
  BY DEF TypeOK
<1>2. ASSUME run'[w] = run[w], ~ Claiming(w) PROVE Goal
  BY <1>1, <1>2, CountedFields DEF RunKept
<1>3. CASE UNCHANGED vars \/ Outside
  BY <1>2, <1>3 DEF vars, Outside, ActivateHandler, RevokeActivation, EnqueueWorkItem,
                    ReplayDeadLetter, LeaseExpires, BecomesDue, Claiming
<1>4. ASSUME NEW v \in Worker, ProcessStep(v) \/ ProcessFault(v) PROVE Goal
  <2>1. CASE v # w
    <3>1. run'[w] = run[w] /\ proc'[w] = proc[w]
      BY <1>4, <2>1
      DEF ProcessStep, ProcessFault, StartProcess, BeginCycle, Terminalize, ClaimWorkBatch,
          ClaimNothing, StartGroup, EndCycle, FinishCrashed, ProcessEnds, StopProcess,
          ClaimAnswerLost, CycleThrows, RequestShutdown, Kill, Gone, Lease, TypeOK
    <3> QED
      BY <1>2, <3>1 DEF Claiming
  <2>2. CASE v = w /\ (ProcessEnds(w) \/ StopProcess(w) \/ Kill(w))
    BY <2>2 DEF ProcessEnds, StopProcess, Kill, Gone, NoTask, RunEmptied, TypeOK
  \* Both outcomes of the claiming transaction count the batch.
  <2>3. ASSUME NEW batch \in SUBSET {i \in Item : Claimable(i)}, Lease(w, batch)
        PROVE  /\ run'[w].claimed = run[w].claimed + Cardinality(batch)
               /\ run'[w].succeeded = run[w].succeeded
               /\ run'[w].failed = run[w].failed
               /\ Cardinality(batch) \in Nat
    <3>1. Cardinality(batch) \in Nat
      BY FiniteAssumption, FS_Subset, FS_CardinalityType
    <3>2. run'[w] = [run[w] EXCEPT !.claimed = @ + Cardinality(batch)]
      BY <2>3 DEF Lease, TypeOK
    <3> QED
      BY <1>1, <3>1, <3>2, CountedFields
  <2>4. CASE v = w /\ ClaimWorkBatch(w)
    <3>1. PICK batch \in SUBSET {i \in Item : Claimable(i)} :
            /\ Lease(w, batch)
            /\ task' = [task EXCEPT ![w] = [i \in Item |->
                   IF i \in batch
                   THEN [NoTask EXCEPT !.pc = "claimed", !.token = item[i].fencingToken + 1]
                   ELSE NoTask]]
      BY <2>4 DEF ClaimWorkBatch
    <3>2. \A i \in Item : task'[w][i].pc # "none" => i \in batch
      BY <3>1 DEF NoTask, TypeOK
    <3> QED
      BY <2>3, <2>4, <3>1, <3>2 DEF ClaimWorkBatch, RunClaims
  <2>5. CASE v = w /\ ClaimAnswerLost(w)
    <3>1. PICK batch \in SUBSET {i \in Item : Claimable(i)} : Lease(w, batch)
      BY <2>5 DEF ClaimAnswerLost
    <3>2. ~ Claiming(w)
      BY <2>5 DEF ClaimAnswerLost, Claiming, TypeOK
    <3> QED
      BY <1>1, <2>3, <3>1, <3>2, CountedFields DEF RunKept
  <2>6. CASE v = w /\ FinishCrashed(w)
    <3>1. PICK status \in {"FAILED", run[w].status} :
            run' = [run EXCEPT ![w].status = status]
      BY <2>6 DEF FinishCrashed
    <3>2. run'[w] = [run[w] EXCEPT !.status = status]
      BY <3>1 DEF TypeOK
    <3>3. ~ Claiming(w)
      BY <2>6 DEF FinishCrashed, Claiming
    <3> QED
      BY <1>1, <3>2, <3>3, CountedFields DEF RunKept
  <2>7. CASE /\ v = w
             /\ ~ (ProcessEnds(w) \/ StopProcess(w) \/ Kill(w) \/ ClaimWorkBatch(w)
                   \/ ClaimAnswerLost(w) \/ FinishCrashed(w))
    <3>1. run' = run /\ ~ Claiming(w)
      BY <1>4, <2>7
      DEF ProcessStep, ProcessFault, StartProcess, BeginCycle, Terminalize, ClaimNothing,
          StartGroup, EndCycle, CycleThrows, RequestShutdown, Claiming, TypeOK
    <3> QED
      BY <1>2, <3>1
  <2> QED
    BY <2>1, <2>2, <2>4, <2>5, <2>6, <2>7
<1>5. ASSUME NEW v \in Worker, NEW j \in Item, TaskStep(v, j) \/ TaskFault(v, j) PROVE Goal
  <2>1. ~ Claiming(w)
    BY <1>5
    DEF TaskStep, TaskFault, FirstHeartbeat, ReadReceipt, HandlerEffect, HandlerReturns,
        RecordReceipt, CompleteWorkItem, FailWorkItem, Rejects, LeaseLost, Pulse, PulseFails,
        HandlerThrows, StatementFails, FailureNotRecorded, TypeOK, Claiming
  <2>2. item[j] \in ItemRow
    BY DEF TypeOK
  <2>3. CASE CompleteWorkItem(v, j)
    <3>1. /\ Working(v, j) /\ Owns(v, j)
          /\ item'[j] = Released(item[j], "SUCCEEDED")
          /\ run' = [run EXCEPT ![v].succeeded = @ + 1]
      BY <2>3 DEF CompleteWorkItem, Working, TypeOK
    <3>2. CASE v = w
      <4>1. run'[w] = [run[w] EXCEPT !.succeeded = @ + 1]
        BY <3>1, <3>2 DEF TypeOK
      <4>2. /\ run'[w].claimed = run[w].claimed
            /\ run'[w].succeeded + run'[w].failed = run[w].succeeded + run[w].failed + 1
        BY <1>1, <4>1, CountedFields
      <4>3. item'[j].status # "LEASED"
        BY <2>2, <3>1, ReleasedFields
      <4> QED
        BY <2>1, <3>1, <3>2, <4>2, <4>3 DEF RunSettles
    <3>3. CASE v # w
      BY <1>2, <2>1, <3>1, <3>3 DEF TypeOK
    <3> QED
      BY <3>2, <3>3
  <2>4. CASE FailWorkItem(v, j)
    <3>1. PICK status \in {"PAUSED", "RETRY", "DEAD_LETTER"} :
            item'[j] = Released(item[j], status)
      BY <2>4 DEF FailWorkItem, Fail, RetryDecision, TypeOK
    <3>2. /\ Working(v, j) /\ Owns(v, j)
          /\ run' = [run EXCEPT ![v].failed = @ + 1]
      BY <2>4 DEF FailWorkItem, Fail, Working, FailureClass
    <3>3. CASE v = w
      <4>1. run'[w] = [run[w] EXCEPT !.failed = @ + 1]
        BY <3>2, <3>3 DEF TypeOK
      <4>2. /\ run'[w].claimed = run[w].claimed
            /\ run'[w].succeeded + run'[w].failed = run[w].succeeded + run[w].failed + 1
        BY <1>1, <4>1, CountedFields
      <4>3. item'[j].status # "LEASED"
        BY <2>2, <3>1, ReleasedFields
      <4> QED
        BY <2>1, <3>2, <3>3, <4>2, <4>3 DEF RunSettles
    <3>4. CASE v # w
      BY <1>2, <2>1, <3>2, <3>4 DEF TypeOK
    <3> QED
      BY <3>3, <3>4
  <2>5. CASE ~ (CompleteWorkItem(v, j) \/ FailWorkItem(v, j))
    <3>1. run' = run
      BY <1>5, <2>5
      DEF TaskStep, TaskFault, FirstHeartbeat, ReadReceipt, HandlerEffect, HandlerReturns,
          RecordReceipt, LeaseLost, Pulse, PulseFails, HandlerThrows, StatementFails,
          FailureNotRecorded
    <3> QED
      BY <1>2, <2>1, <3>1
  <2> QED
    BY <2>3, <2>4, <2>5
<1> QED
  BY <1>3, <1>4, <1>5 DEF Next

\* Without a claim, what a process holds it has held before.
LEMMA HeldShrinks ==
  ASSUME IInv, [Next]_vars, NEW w \in Worker, ~ Claiming(w)
  PROVE  Held(w)' \subseteq Held(w)
<1> USE DEF IInv
<1> SUFFICES ASSUME NEW i \in Item, Working(w, i)', Owns(w, i)'
             PROVE  Working(w, i) /\ Owns(w, i)
  BY DEF Held
<1>1. ~ Taken(w, i)
  BY DEF Taken, Granted, Claiming
<1>2. Carried(w, i)
  BY <1>1, TaskMoveStep DEF TaskMoves, Dropped, Working
<1>3. ~ Stale(w, i)'
  BY DEF Owns, Stale
<1>4. ~ Stale(w, i) /\ Working(w, i)
  BY <1>2, <1>3, CarriedLease DEF Carried
<1> QED
  BY <1>4 DEF Authority, Stale, Owns

LEMMA CountsStep ==
  ASSUME IInv, Counts, [Next]_vars
  PROVE  Counts'
<1> USE DEF IInv
<1> SUFFICES ASSUME NEW w \in Worker
             PROVE  run'[w].succeeded + run'[w].failed + Cardinality(Held(w)')
                      <= run'[w].claimed
  BY DEF Counts
<1>1. /\ run[w].claimed \in Nat /\ run[w].succeeded \in Nat /\ run[w].failed \in Nat
      /\ run'[w].claimed \in Nat /\ run'[w].succeeded \in Nat /\ run'[w].failed \in Nat
  BY StepTyped DEF TypeOK, RunRow
<1>2. /\ IsFiniteSet(Held(w)) /\ Cardinality(Held(w)) \in Nat
      /\ IsFiniteSet(Held(w)') /\ Cardinality(Held(w)') \in Nat
  <2>1. Held(w) \subseteq Item /\ Held(w)' \subseteq Item
    BY DEF Held
  <2> QED
    BY <2>1, FiniteAssumption, FS_Subset, FS_CardinalityType
<1>3. run[w].succeeded + run[w].failed + Cardinality(Held(w)) <= run[w].claimed
  BY DEF Counts
<1>4. CASE RunKept(w)
  <2>1. Cardinality(Held(w)') <= Cardinality(Held(w))
    BY <1>2, <1>4, HeldShrinks, FS_Subset DEF RunKept
  <2> QED
    BY <1>1, <1>2, <1>3, <1>4, <2>1 DEF RunKept
<1>5. CASE RunEmptied(w)
  <2>1. Held(w)' = {}
    BY <1>5 DEF RunEmptied, Held, Working
  <2>2. Cardinality(Held(w)') = 0
    BY <2>1, FS_EmptySet
  <2> QED
    BY <1>5, <2>2 DEF RunEmptied, FreshRun
<1>6. CASE RunClaims(w)
  <2>1. PICK batch \in SUBSET Item :
          /\ run'[w].claimed = run[w].claimed + Cardinality(batch)
          /\ \A i \in Item : task'[w][i].pc # "none" => i \in batch
    BY <1>6 DEF RunClaims
  <2>2. Held(w)' \subseteq batch
    BY <2>1 DEF Held, Working
  <2>3. IsFiniteSet(batch) /\ Cardinality(batch) \in Nat
    BY FiniteAssumption, FS_Subset, FS_CardinalityType
  <2>4. Cardinality(Held(w)') <= Cardinality(batch)
    BY <2>2, <2>3, FS_Subset
  <2> QED
    BY <1>1, <1>2, <1>3, <1>6, <2>1, <2>3, <2>4 DEF RunClaims
<1>7. CASE RunSettles(w)
  <2>1. PICK i \in Item : Working(w, i) /\ Owns(w, i) /\ item'[i].status # "LEASED"
    BY <1>7 DEF RunSettles
  <2>2. i \in Held(w) /\ i \notin Held(w)'
    BY <2>1 DEF Held, Owns
  <2>3. Held(w)' \subseteq Held(w) \ {i}
    BY <1>7, <2>2, HeldShrinks DEF RunSettles
  <2>4. /\ IsFiniteSet(Held(w) \ {i})
        /\ Cardinality(Held(w) \ {i}) = Cardinality(Held(w)) - 1
    BY <1>2, <2>2, FS_RemoveElement
  <2>5. Cardinality(Held(w)') <= Cardinality(Held(w)) - 1
    BY <2>3, <2>4, FS_Subset
  <2> QED
    BY <1>1, <1>2, <1>3, <1>7, <2>5 DEF RunSettles
<1> QED
  BY <1>4, <1>5, <1>6, <1>7, RunStep

\* No CHECK constraint of WorkItem or WorkerRun can refuse a transaction of the queue: a
\* lease has an owner, the attempt budget is kept, and a run never settles more than it
\* claimed, however many processes lose and take leases.
THEOREM ChecksHold == Spec => []RowChecks
<1>1. Init => Counts
  <2> SUFFICES ASSUME Init, NEW w \in Worker
               PROVE  run[w].succeeded + run[w].failed + Cardinality(Held(w))
                        <= run[w].claimed
    BY DEF Counts
  <2>1. Held(w) = {}
    BY DEF Init, Held, Working, NoTask
  <2>2. Cardinality(Held(w)) = 0
    BY <2>1, FS_EmptySet
  <2> QED
    BY <2>2 DEF Init, FreshRun
<1>2. IInv /\ Counts /\ [Next]_vars => Counts'
  BY CountsStep
<1>3. ASSUME IInv, Counts PROVE RowChecks
  <2>1. ASSUME NEW w \in Worker PROVE run[w].succeeded + run[w].failed <= run[w].claimed
    <3>1. Cardinality(Held(w)) \in Nat
      <4>1. Held(w) \subseteq Item
        BY DEF Held
      <4> QED
        BY <4>1, FiniteAssumption, FS_Subset, FS_CardinalityType
    <3>2. /\ run[w].claimed \in Nat /\ run[w].succeeded \in Nat /\ run[w].failed \in Nat
      BY <1>3 DEF IInv, TypeOK, RunRow
    <3> QED
      BY <1>3, <3>1, <3>2 DEF Counts
  <2> QED
    BY <1>3, <2>1 DEF RowChecks, IInv, LeaseShape
<1> QED
  BY <1>1, <1>2, <1>3, Invariance, PTL DEF Spec

-----------------------------------------------------------------------------
(* The abstract specification *)

LEMMA LedgerInit == Init => Ledger!Init
<1> SUFFICES ASSUME Init PROVE Ledger!Init
  OBVIOUS
<1>1. \A i \in Item : /\ item[i].status = "ABSENT" /\ item[i].attemptCount = 0
                      /\ item[i].maxAttempts = 0 /\ receipt[i] = 0
  BY DEF Init, NoItem
<1> QED
  BY <1>1 DEF Ledger!Init, PhaseOf

LEMMA LedgerStep ==
  ASSUME IInv, [Next]_vars
  PROVE  Ledger!Next
<1> SUFFICES ASSUME NEW i \in Item PROVE Ledger!Move(i) \/ Ledger!Rest(i)
  BY DEF Ledger!Next
<1> USE DEF IInv, PhaseOf
<1>1. /\ item[i] \in ItemRow /\ item[i].attemptCount \in Nat /\ item[i].maxAttempts \in Nat
      /\ item[i].status \in Status
  BY DEF TypeOK, ItemRow
<1>2. ASSUME NEW w \in Worker, RecordReceipt(w, i)
      PROVE  Ledger!Acknowledge(i) \/ Ledger!Rest(i)
  <2>1. item' = item /\ item[i].status = "LEASED"
    BY <1>2, RecordReceiptMoves DEF Owns
  <2>2. task[w][i].token # 0
    BY <1>2, RecordReceiptMoves DEF Authority, Working
  <2>3. receipt'[i] # 0
    BY <1>2, <2>2, RecordReceiptMoves
  <2> QED
    BY <2>1, <2>3 DEF Ledger!Acknowledge, Ledger!Rest
<1>3. ASSUME receipt'[i] = receipt[i]
      PROVE  Ledger!Move(i) \/ Ledger!Rest(i)
  <2>1. CASE Kept(i)
    BY <1>3, <2>1 DEF Kept, Ledger!Rest
  <2>2. CASE Enqueued(i)
    <3>1. /\ item'[i].status = "PENDING" /\ item'[i].maxAttempts = MaxAttempts
          /\ item'[i].attemptCount = item[i].attemptCount
      BY <1>1, <2>2 DEF Enqueued, ItemRow
    <3> QED
      BY <1>3, <2>2, <3>1, PolicyAssumption DEF Enqueued, Ledger!Enqueue, Ledger!Move
  <2>3. CASE Revived(i)
    <3>1. /\ item[i].status = "DEAD_LETTER" /\ item'[i].status = "RETRY"
          /\ item'[i].maxAttempts > item[i].maxAttempts
          /\ item'[i].attemptCount = item[i].attemptCount
      BY <1>1, <2>3, ReplayedFields, PolicyAssumption DEF Revived
    <3> QED
      BY <1>3, <3>1 DEF Ledger!Revive, Ledger!Move
  <2>4. CASE Buried(i)
    BY <1>1, <1>3, <2>4, ReleasedFields DEF Buried, Exhausted, Ledger!GiveBack, Ledger!Move
  <2>5. ASSUME NEW w \in Worker, Granted(w, i) PROVE Ledger!Move(i)
    BY <1>1, <1>3, <2>5, LeasedFields DEF Granted, Claimable, Ledger!HandOut, Ledger!Move
  <2>6. ASSUME NEW w \in Worker, Completed(w, i) PROVE Ledger!Move(i)
    <3>1. receipt[i] # 0
      BY <2>6 DEF Completed, Progress
    <3>2. /\ item[i].status = "LEASED" /\ item'[i].status = "SUCCEEDED"
          /\ item'[i].attemptCount = item[i].attemptCount
          /\ item'[i].maxAttempts = item[i].maxAttempts
      BY <1>1, <2>6, ReleasedFields DEF Completed, Owns
    <3> QED
      BY <1>3, <3>1, <3>2 DEF Ledger!Succeed, Ledger!Move
  <2>7. ASSUME NEW w \in Worker, Failed(w, i) PROVE Ledger!Move(i)
    BY <1>1, <1>3, <2>7, ReleasedFields DEF Failed, Owns, Ledger!GiveBack, Ledger!Move
  <2> QED
    BY <2>1, <2>2, <2>3, <2>4, <2>5, <2>6, <2>7, RowStep DEF RowMoves
<1> QED
  BY <1>2, <1>3, EvidenceStep DEF EvidenceMoves, Ledger!Move

\* The queue implements WorkLedger: claims, takeovers, receipts and retries of src/lib/ops,
\* seen one job at a time, only ever do what the abstract ledger allows.
THEOREM QueueKeepsLedger == Spec => LedgerSpec
<1>1. IInv /\ [Next]_vars => [Ledger!Next]_Ledger!ledger
  BY LedgerStep
<1> QED
  BY <1>1, LedgerInit, Invariance, PTL DEF Spec, LedgerSpec, Ledger!Spec
=============================================================================
