------------------------ MODULE NotificationDispatch ------------------------
(***************************************************************************)
(* The notification outbox: dispatchers that claim rows and hand them to   *)
(* the e-mail provider (src/lib/notifications/dispatcher.ts), the privacy  *)
(* sweep (retention.ts), the operator's reconciliation of an uncertain     *)
(* outcome (outcome-reconciliation.ts) and the provider's bounce events    *)
(* (src/lib/providers/email/resend-event-inbox.ts).                        *)
(*                                                                         *)
(* A delivery reads and writes the database several times around one HTTP  *)
(* call.  Each step below is what lies between two of its awaits.          *)
(***************************************************************************)
EXTENDS Naturals, Sequences, FiniteSets

CONSTANTS
  Note,           \* outbox rows
  Explicit,       \* rows written to an address, not to a user
  Task,           \* dispatch batches that run at the same time
  Worker,         \* names of worker processes; batches of one process share one
  NoWorker,       \* leaseOwner IS NULL
  MaxAttempts,    \* maxAttempts of a new row
  BatchSize,      \* rows one batch claims
  MaxReleases,    \* bound: further attempts an operator grants to a row
  Activation,     \* provider activations; NoActivation is none in force
  MaxFaults,      \* bound: batches that die or stall until a lease runs out
  NoNote,         \* a batch between two deliveries
  NoActivation

ASSUME AttemptBound == MaxAttempts \in Nat \ {0}
ASSUME NullNames ==
  NoWorker \notin Worker /\ NoNote \notin Note /\ NoActivation \notin Activation
ASSUME Recipients == Explicit \subseteq Note
ASSUME Bounds == {BatchSize, MaxReleases, MaxFaults} \subseteq Nat

Open == {"PENDING", "LEASED", "RETRY", "PAUSED"}
Closed == {"DELIVERED", "SUPPRESSED", "DEAD_LETTER"}
Outcome == {"ACCEPTED", "TRANSIENT_FAILURE", "TIMED_OUT", "PERMANENT_FAILURE",
            "SUPPRESSED", "BOUNCED", "CONFIGURATION_ERROR"}
Retryable == {"TRANSIENT_FAILURE", "TIMED_OUT"}

\* lastErrorCode, as far as a statement compares it: the PROVIDER_ACTIVATION_
\* family, the exact code that opens a reconciliation, and any other or none.
Error == {"activation", "outcome", "other"}

\* What a delivery decided to write: the outcome of an attempt, or a pause.
Verdict == Outcome \cup {"noActivation", "changed", "expired", "addressExpired"}

VARIABLES
  row,         \* NotificationOutbox
  log,         \* NotificationDeliveryAttempt: the outcomes, by attemptNumber
  task,        \* the batches
  activation,  \* the provider activation in force
  age,         \* of the frozen request: past 23 h it is stale, past 24 h the
               \* provider has forgotten the key
  lapsed,      \* rows past recipientAddressExpiresAt
  wire,        \* requests handed to HTTP and not yet answered by the provider
  mail,        \* the provider: mails made of a key, and is the key remembered?
  event,       \* EmailProviderEventInbox: the bounce of the row's mail
  hook,        \* the open transaction of the webhook, and what it saw
  faults       \* batches that died or stalled so far

worldVars == <<activation, age, lapsed, faults>>
providerVars == <<wire, mail>>
eventVars == <<event, hook>>
vars == <<row, log, task, worldVars, providerVars, eventVars>>

Attempts == 0..(MaxAttempts + MaxReleases + 1)
Material == {"none", "kept", "destroyed"}

\* A row knows its recipient by user, or by an address it keeps itself.
Row == [status: Open \cup Closed, owner: Worker \cup {NoWorker}, live: BOOLEAN,
        error: Error, attempts: Attempts, max: Attempts \ {0}, request: Material,
        activation: Activation \cup {NoActivation}, body: 0..2,
        address: {"user", "kept", "destroyed"}]

NewRow(address) ==
  [status |-> "PENDING", owner |-> NoWorker, live |-> FALSE, error |-> "other",
   attempts |-> 0, max |-> MaxAttempts, request |-> "none",
   activation |-> NoActivation, body |-> 0, address |-> address]

\* The columns a batch reads when it claims a row, and trusts until it is done.
Snapshot(r) == [attempts |-> r.attempts, max |-> r.max, request |-> r.request,
                activation |-> r.activation, body |-> r.body]
Unread == [attempts |-> 0, max |-> 1, request |-> "none",
           activation |-> NoActivation, body |-> 0]

Idle(o) == [pc |-> "idle", owner |-> o, batch |-> {},
            seen |-> [n \in Note |-> Unread], note |-> NoNote,
            activation |-> NoActivation, body |-> 0, late |-> FALSE,
            verdict |-> "ACCEPTED", sawEvent |-> FALSE]

Init ==
  /\ row = [n \in Note |-> NewRow(IF n \in Explicit THEN "kept" ELSE "user")]
  /\ log = [n \in Note |-> <<>>]
  /\ \E owner \in [Task -> Worker] : task = [t \in Task |-> Idle(owner[t])]
  /\ activation \in Activation
  /\ age = [n \in Note |-> "new"]
  /\ lapsed = {}
  /\ wire = {}
  /\ mail = [n \in Note |-> [count |-> 0, known |-> FALSE]]
  /\ event = [n \in Note |-> "none"]
  /\ hook = [n \in Note |-> "idle"]
  /\ faults = 0

(***************************************************************************)
(* Locks.  The transaction that records an accepted delivery holds the row *)
(* and the advisory lock of the provider's receipt until it commits.       *)
(***************************************************************************)
Locked(n) == \E t \in Task : task[t].pc = "writing" /\ task[t].note = n
ReceiptFree(n) == ~Locked(n) /\ hook[n] = "idle"

\* What every guarded write of a batch asks of the row: a status and a name.
Held(n, t) == row[n].status = "LEASED" /\ row[n].owner = task[t].owner
Accepted(n) == log[n] # <<>> /\ log[n][Len(log[n])] = "ACCEPTED"

\* The batch function throws: what it still holds stays leased.
Stop(t) == task' = [task EXCEPT ![t] = Idle(@.owner)]

\* One delivery is over, the batch goes on with the next row.
Rest(t) ==
  IF task[t].batch = {} THEN Idle(task[t].owner)
  ELSE [Idle(task[t].owner) EXCEPT !.pc = "ready", !.batch = task[t].batch,
          !.seen = [n \in Note |-> IF n \in task[t].batch THEN task[t].seen[n] ELSE Unread]]
Done(t) == task' = [task EXCEPT ![t] = Rest(t)]

Decide(t, v) == task' = [task EXCEPT ![t].pc = "ending", ![t].verdict = v]

(***************************************************************************)
(* The privacy sweep.  Material of closed rows goes at once; material past *)
(* its deadline goes, and the row with it is held or suppressed, unless a  *)
(* live lease protects it.                                                 *)
(***************************************************************************)
Expired(n) == row[n].address = "kept" /\ n \in lapsed
Stale(n) == row[n].request = "kept" /\ age[n] # "new"
Overdue(n) ==
  /\ row[n].status \in Open
  /\ row[n].status = "LEASED" => ~row[n].live
  /\ Stale(n) \/ Expired(n)

Wiped(material) == IF material = "kept" THEN "destroyed" ELSE material
Bare(r) == [r EXCEPT !.request = Wiped(@), !.address = Wiped(@)]
\* Mutant: the lease is not given back.
ParkedLeased(r, status, error) == [r EXCEPT !.status = status, !.error = error]
Parked(r, status, error) ==
  [r EXCEPT !.status = status, !.owner = NoWorker, !.live = FALSE, !.error = error]

Swept(n) ==
  IF row[n].status \in Closed THEN Bare(row[n])
  ELSE IF ~Overdue(n) THEN row[n]
  ELSE IF Expired(n) /\ row[n].activation = NoActivation
    THEN Parked(Bare(row[n]), "SUPPRESSED", "other")
  ELSE Parked(Bare(row[n]), "PAUSED", "outcome")

Sweeping(rows) ==
  /\ \A n \in Note : ~Locked(n)
  /\ row' = rows
  /\ \E old \in SUBSET {n \in Note : event[n] = "RECEIVED" /\ age[n] # "new"} :
       event' = [n \in Note |-> IF n \in old THEN "IGNORED" ELSE event[n]]
  /\ UNCHANGED <<log, hook, worldVars, providerVars>>

\* The sweep's own work item.
MaintainRetention == Sweeping([n \in Note |-> Swept(n)]) /\ UNCHANGED task

(***************************************************************************)
(* A batch: sweep, claim, then one delivery after the other.               *)
(***************************************************************************)
\* Mutant: the lease of a dead batch is never taken over.
ClaimableUnleased(r, n) ==
  /\ r.request # "destroyed" /\ r.address # "destroyed"
  /\ r.address = "kept" => n \notin lapsed
  /\ r.status \in {"PENDING", "RETRY"} \/ (r.status = "PAUSED" /\ r.error = "activation")

Claimable(r, n) ==
  /\ r.request # "destroyed" /\ r.address # "destroyed"
  /\ r.address = "kept" => n \notin lapsed
  /\ \/ r.status \in {"PENDING", "RETRY"}
     \/ r.status = "LEASED" /\ ~r.live
     \/ r.status = "PAUSED" /\ r.error = "activation"

\* Sweep and claim are two transactions; what may come between them may as
\* well come before the sweep or after the claim.
BeginBatch(t) ==
  /\ task[t].pc = "idle"
  /\ \E S \in SUBSET {n \in Note : Claimable(Swept(n), n)} :
       /\ S # {} /\ Cardinality(S) <= BatchSize
       /\ Sweeping([n \in Note |-> IF n \notin S THEN Swept(n)
            ELSE [Swept(n) EXCEPT !.status = "LEASED", !.owner = task[t].owner, !.live = TRUE]])
       /\ task' = [task EXCEPT ![t].pc = "ready", ![t].batch = S,
                     ![t].seen = [n \in Note |-> IF n \in S THEN Snapshot(row[n])
                                                 ELSE Unread]]

\* Between two deliveries, when 20 s have passed: all of the rest or none.
HeartbeatRemaining(t) ==
  /\ task[t].pc = "ready"
  /\ \A n \in task[t].batch : ~Locked(n)
  /\ IF \A n \in task[t].batch : Held(n, t)
       THEN /\ \E n \in task[t].batch : ~row[n].live
            /\ row' = [n \in Note |-> [row[n] EXCEPT !.live = @ \/ n \in task[t].batch]]
            /\ UNCHANGED task
       ELSE Stop(t) /\ UNCHANGED row
  /\ UNCHANGED <<log, worldVars, providerVars, eventVars>>

\* The heartbeat before the try block: a row that is lost ends the batch.
StartDelivery(t) ==
  /\ task[t].pc = "ready"
  /\ \E n \in task[t].batch :
       /\ ~Locked(n)
       /\ IF Held(n, t)
            THEN /\ row' = [row EXCEPT ![n].live = TRUE]
                 /\ task' = [task EXCEPT ![t].pc = "started", ![t].note = n,
                               ![t].batch = @ \ {n}, ![t].late = age[n] # "new"]
            ELSE Stop(t) /\ UNCHANGED row
  /\ UNCHANGED <<log, worldVars, providerVars, eventVars>>

(***************************************************************************)
(* The checks of a delivery, as reads that others may overtake.            *)
(***************************************************************************)
Frozen(t) == task[t].seen[task[t].note].request = "kept"

\* Keys, recipient, suppressions, preference, template: each may end the
\* delivery before the provider is looked up.
Objections == {"CONFIGURATION_ERROR", "SUPPRESSED", "PERMANENT_FAILURE"}
AddressPast(n) == row[n].address # "user" /\ n \in lapsed

\* Mutant: a frozen request is used however old it is.
ExamineAnyAge(t) ==
  /\ task[t].pc = "started"
  /\ LET seen == task[t].seen[task[t].note] IN
       IF activation = NoActivation THEN Decide(t, "noActivation")
       ELSE task' = [task EXCEPT ![t].pc = IF Frozen(t) THEN "frozen" ELSE "examined",
                                 ![t].activation = activation, ![t].body = seen.body]
  /\ UNCHANGED <<row, log, worldVars, providerVars, eventVars>>

Examine(t) ==
  /\ task[t].pc = "started"
  /\ LET seen == task[t].seen[task[t].note] IN
       \/ \E v \in Objections : Decide(t, v)
       \/ AddressPast(task[t].note) /\ Decide(t, "addressExpired")
       \/ /\ ~AddressPast(task[t].note)
          /\ IF activation = NoActivation THEN Decide(t, "noActivation")
             ELSE IF ~Frozen(t)
               THEN task' = [task EXCEPT ![t].pc = "examined", ![t].activation = activation]
             ELSE IF seen.activation # activation THEN Decide(t, "changed")
             ELSE IF task[t].late THEN Decide(t, "expired")
             ELSE task' = [task EXCEPT ![t].pc = "frozen", ![t].activation = activation,
                                       ![t].body = seen.body]
  /\ UNCHANGED <<row, log, worldVars, providerVars, eventVars>>

\* Mutant: freezing does not ask whether a request is there.
FreezeAnew(t) ==
  /\ task[t].pc = "examined"
  /\ LET n == task[t].note IN
       /\ ~Locked(n)
       /\ IF Held(n, t)
            THEN /\ row' = [row EXCEPT ![n].request = "kept", ![n].body = @ + 1,
                                       ![n].activation = task[t].activation]
                 /\ age' = [age EXCEPT ![n] = "new"]
                 /\ task' = [task EXCEPT ![t].pc = "frozen", ![t].body = row[n].body + 1]
            ELSE Decide(t, "TRANSIENT_FAILURE") /\ UNCHANGED <<row, age>>
  /\ UNCHANGED <<log, activation, lapsed, faults, providerVars, eventVars>>

\* A first delivery freezes its request before using it.
FreezeRequest(t) ==
  /\ task[t].pc = "examined"
  /\ LET n == task[t].note IN
       /\ ~Locked(n)
       /\ IF Held(n, t) /\ row[n].request = "none"
            THEN /\ row' = [row EXCEPT ![n].request = "kept", ![n].body = @ + 1,
                                       ![n].activation = task[t].activation]
                 /\ age' = [age EXCEPT ![n] = "new"]
                 /\ task' = [task EXCEPT ![t].pc = "frozen", ![t].body = row[n].body + 1]
            ELSE Decide(t, "TRANSIENT_FAILURE") /\ UNCHANGED <<row, age>>
  /\ UNCHANGED <<log, activation, lapsed, faults, providerVars, eventVars>>

\* The last look at activation and deadline, the heartbeat, and the HTTP call.
Send(t) ==
  /\ task[t].pc = "frozen"
  /\ LET n == task[t].note IN
       /\ ~Locked(n)
       /\ IF activation = NoActivation
            THEN Decide(t, "noActivation") /\ UNCHANGED <<row, wire>>
          ELSE IF activation # task[t].activation
            THEN Decide(t, "changed") /\ UNCHANGED <<row, wire>>
          ELSE IF AddressPast(n)
            THEN Decide(t, "addressExpired") /\ UNCHANGED <<row, wire>>
          ELSE IF Held(n, t)
            THEN /\ row' = [row EXCEPT ![n].live = TRUE]
                 /\ wire' = wire \cup {[task |-> t, note |-> n, body |-> task[t].body]}
                 /\ task' = [task EXCEPT ![t].pc = "waiting"]
          ELSE Decide(t, "TRANSIENT_FAILURE") /\ UNCHANGED <<row, wire>>
  /\ UNCHANGED <<log, worldVars, mail, eventVars>>

\* Any other exception inside the try block, before the request is handed over.
InfrastructureFails(t) ==
  /\ task[t].pc \in {"started", "examined", "frozen"}
  /\ Decide(t, "TRANSIENT_FAILURE")
  /\ UNCHANGED <<row, log, worldVars, providerVars, eventVars>>

\* The deadline passes, the connection breaks, or the answer is a 5xx: nobody
\* knows what becomes of the request.
TimeOut(t) ==
  /\ task[t].pc = "waiting"
  /\ Decide(t, "TIMED_OUT")
  /\ UNCHANGED <<row, log, worldVars, providerVars, eventVars>>

(***************************************************************************)
(* The provider.  It makes one mail of a key it remembers, and its answer  *)
(* may come too late or never.                                             *)
(***************************************************************************)
Waits(r) == task[r.task].pc = "waiting" /\ task[r.task].note = r.note

Accept(r) ==
  /\ wire' = wire \ {r}
  /\ mail' = [mail EXCEPT ![r.note] =
                [count |-> IF @.known THEN @.count ELSE @.count + 1, known |-> TRUE]]
  /\ \/ UNCHANGED task
     \/ Waits(r) /\ Decide(r.task, "ACCEPTED")
  /\ UNCHANGED <<row, log, worldVars, eventVars>>

\* An answer that says the request was not taken, or a request that got lost.  A
\* bounced address is suppressed, which later deliveries to it object to.
Refuse(r) ==
  /\ wire' = wire \ {r}
  /\ \/ UNCHANGED task
     \/ /\ Waits(r)
        /\ \/ Decide(r.task, "TRANSIENT_FAILURE")
           \/ Decide(r.task, "CONFIGURATION_ERROR")
           \/ /\ ~mail[r.note].known
              /\ \E v \in {"PERMANENT_FAILURE", "BOUNCED"} : Decide(r.task, v)
  /\ UNCHANGED <<row, log, mail, worldVars, eventVars>>

(***************************************************************************)
(* The end of a delivery.  finalizeAttempt numbers the attempt after the   *)
(* snapshot, and (outboxId, attemptNumber) is unique.                      *)
(***************************************************************************)
Number(t) == task[t].seen[task[t].note].attempts + 1
LastAttempt(t) == Number(t) >= task[t].seen[task[t].note].max
\* Mutant: attempts may share a number.
RecordableTwice(t) == Held(task[t].note, t)
Recordable(t) == Held(task[t].note, t) /\ Number(t) = Len(log[task[t].note]) + 1

FinalStatus(t) ==
  LET v == task[t].verdict IN
  CASE v = "ACCEPTED" -> "DELIVERED"
    [] v \in {"SUPPRESSED", "BOUNCED"} -> "SUPPRESSED"
    [] v = "CONFIGURATION_ERROR" -> "PAUSED"
    [] v = "TIMED_OUT" /\ LastAttempt(t) -> "PAUSED"
    [] v \in Retryable /\ ~LastAttempt(t) -> "RETRY"
    [] OTHER -> "DEAD_LETTER"

\* Whether the batch knows of a frozen request: from its snapshot or by its
\* own hand.
Bound(t) == task[t].seen[task[t].note].activation # NoActivation \/ task[t].body # 0

Concluded(t) ==
  LET n == task[t].note
      status == FinalStatus(t)
      error == IF task[t].verdict = "TIMED_OUT" /\ LastAttempt(t) THEN "outcome" ELSE "other"
      next == [Parked(row[n], status, error) EXCEPT !.attempts = Number(t)]
  IN IF status \notin Closed THEN next
     ELSE [next EXCEPT !.request = IF Bound(t) THEN "destroyed" ELSE @,
                       !.address = Wiped(@)]

Finalize(t) ==
  /\ task[t].pc = "ending" /\ task[t].verdict \in Outcome \ {"ACCEPTED"}
  /\ LET n == task[t].note IN
       /\ ~Locked(n)
       /\ IF Recordable(t)
            THEN /\ row' = [row EXCEPT ![n] = Concluded(t)]
                 /\ log' = [log EXCEPT ![n] = Append(@, task[t].verdict)]
                 /\ Done(t)
            ELSE Stop(t) /\ UNCHANGED <<row, log>>
  /\ UNCHANGED <<worldVars, providerVars, eventVars>>

\* Mutant: the pending events are read without the receipt's lock.
FinalizeUnlocked(t) ==
  /\ task[t].pc = "ending" /\ task[t].verdict = "ACCEPTED"
  /\ ~Locked(task[t].note)
  /\ IF Recordable(t)
       THEN task' = [task EXCEPT ![t].pc = "writing",
                                 ![t].sawEvent = event[task[t].note] = "RECEIVED"]
       ELSE Stop(t)
  /\ UNCHANGED <<row, log, worldVars, providerVars, eventVars>>

\* An accepted delivery takes the locks and looks for events that came first.
FinalizeAccepted(t) ==
  /\ task[t].pc = "ending" /\ task[t].verdict = "ACCEPTED"
  /\ LET n == task[t].note IN
       IF Recordable(t)
         THEN /\ ReceiptFree(n)
              /\ task' = [task EXCEPT ![t].pc = "writing",
                                      ![t].sawEvent = event[n] = "RECEIVED"]
         ELSE ~Locked(n) /\ Stop(t)
  /\ UNCHANGED <<row, log, worldVars, providerVars, eventVars>>

CommitAccepted(t) ==
  /\ task[t].pc = "writing"
  /\ LET n == task[t].note IN
       /\ row' = [row EXCEPT ![n] = Concluded(t)]
       /\ log' = [log EXCEPT ![n] = Append(@, "ACCEPTED")]
       /\ event' = [event EXCEPT ![n] = IF task[t].sawEvent THEN "PROJECTED" ELSE @]
       /\ Done(t)
  /\ UNCHANGED <<activation, age, lapsed, faults, providerVars, hook>>

\* The three pauses leave the attempt counter alone.
Paused(t) ==
  LET n == task[t].note
      r == row[n]
      known == task[t].seen[n].request = "kept"
      bare == [r EXCEPT !.request = IF known THEN "destroyed" ELSE @, !.address = Wiped(@)]
  IN CASE task[t].verdict = "noActivation" -> Parked(r, "PAUSED", "activation")
       [] task[t].verdict = "changed" -> Parked(bare, "PAUSED", "other")
       [] task[t].verdict = "expired" -> Parked(bare, "PAUSED", "outcome")
       [] task[t].verdict = "addressExpired" /\ Bound(t) ->
            Parked([r EXCEPT !.request = "destroyed", !.address = "destroyed"], "PAUSED", "other")
       [] OTHER -> Parked([r EXCEPT !.address = "destroyed"], "SUPPRESSED", "other")

Pause(t) ==
  /\ task[t].pc = "ending" /\ task[t].verdict \notin Outcome
  /\ LET n == task[t].note IN
       /\ ~Locked(n)
       /\ IF Held(n, t) THEN row' = [row EXCEPT ![n] = Paused(t)] /\ Done(t)
                        ELSE Stop(t) /\ UNCHANGED row
  /\ UNCHANGED <<log, worldVars, providerVars, eventVars>>

(***************************************************************************)
(* The operator decides an uncertain outcome on evidence from the          *)
(* provider, which is taken to be true.                                    *)
(***************************************************************************)
Reconcilable(n) ==
  /\ ReceiptFree(n)
  /\ row[n].status = "PAUSED" /\ row[n].error = "outcome"
  /\ row[n].attempts = row[n].max
  /\ log[n] # <<>> /\ log[n][Len(log[n])] = "TIMED_OUT"
  /\ row[n].request = "kept" /\ age[n] = "new"
  /\ row[n].activation = activation
  /\ row[n].address # "destroyed" /\ ~Expired(n)

TerminalizeAccepted(n) ==
  /\ Reconcilable(n) /\ mail[n].count > 0
  /\ row' = [row EXCEPT ![n] = [Bare(Parked(row[n], "DELIVERED", "other"))
            EXCEPT !.attempts = row[n].attempts + 1, !.max = row[n].attempts + 1]]
  /\ log' = [log EXCEPT ![n] = Append(@, "ACCEPTED")]
  /\ event' = [event EXCEPT ![n] = IF @ = "RECEIVED" THEN "PROJECTED" ELSE @]
  /\ UNCHANGED <<task, activation, age, lapsed, faults, providerVars, hook>>

ReleaseNotAccepted(n) ==
  /\ Reconcilable(n) /\ mail[n].count = 0 /\ \A r \in wire : r.note # n
  /\ row[n].attempts < MaxAttempts + MaxReleases
  /\ row' = [row EXCEPT ![n] = [Parked(@, "RETRY", "other") EXCEPT !.max = row[n].attempts + 1]]
  /\ UNCHANGED <<log, task, worldVars, providerVars, eventVars>>

(***************************************************************************)
(* The provider reports a bounce.  The webhook's transaction looks for the *)
(* accepted attempt under the receipt's lock.                              *)
(***************************************************************************)
ReceiveEvent(n) ==
  /\ mail[n].count > 0 /\ event[n] = "none"
  /\ ReceiptFree(n)
  /\ hook' = [hook EXCEPT ![n] = IF Accepted(n) THEN "sighted" ELSE "blind"]
  /\ UNCHANGED <<row, log, task, worldVars, providerVars, event>>

CommitEvent(n) ==
  /\ hook[n] # "idle"
  /\ hook' = [hook EXCEPT ![n] = "idle"]
  /\ event' = [event EXCEPT ![n] = IF hook[n] = "sighted" THEN "PROJECTED" ELSE "RECEIVED"]
  /\ UNCHANGED <<row, log, task, activation, age, lapsed, faults, providerVars>>

(***************************************************************************)
(* The world: activations, time, and processes that die.                   *)
(***************************************************************************)
SwitchActivation ==
  /\ \E a \in (Activation \cup {NoActivation}) \ {activation} : activation' = a
  /\ UNCHANGED <<row, log, task, age, lapsed, faults, providerVars, eventVars>>

LapseAddress(n) ==
  /\ row[n].address = "kept" /\ n \notin lapsed
  /\ lapsed' = lapsed \cup {n}
  /\ UNCHANGED <<row, log, task, activation, age, faults, providerVars, eventVars>>

\* 23 hours after freezing.
GrowStale(n) ==
  /\ row[n].request # "none" /\ age[n] = "new"
  /\ age' = [age EXCEPT ![n] = "stale"]
  /\ UNCHANGED <<row, log, task, activation, lapsed, faults, providerVars, eventVars>>

\* An hour later the provider forgets the key.  A delivery that began before
\* the request was stale is over by then: its one HTTP call ends in 10 s.
ForgetKey(n) ==
  /\ age[n] = "stale"
  /\ \A r \in wire : r.note # n
  /\ \A t \in Task : task[t].note = n => (task[t].pc \in {"ending", "writing"} \/ task[t].late)
  /\ age' = [age EXCEPT ![n] = "forgotten"]
  /\ mail' = [mail EXCEPT ![n].known = FALSE]
  /\ UNCHANGED <<row, log, task, activation, lapsed, faults, wire, eventVars>>

\* 60 s without a heartbeat.  A batch that still works has then stalled.
Worked(n) == \E t \in Task : Held(n, t) /\ n \in task[t].batch \cup {task[t].note}
ExpireLease(n) ==
  /\ row[n].live
  /\ ~Locked(n)
  /\ IF Worked(n) THEN faults < MaxFaults /\ faults' = faults + 1 ELSE UNCHANGED faults
  /\ row' = [row EXCEPT ![n].live = FALSE]
  /\ UNCHANGED <<log, task, activation, age, lapsed, providerVars, eventVars>>

\* The process dies, or a final transaction fails: the open one is rolled back.
Crash(t) ==
  /\ task[t].pc # "idle"
  /\ faults < MaxFaults /\ faults' = faults + 1
  /\ Stop(t)
  /\ UNCHANGED <<row, log, activation, age, lapsed, providerVars, eventVars>>

Deliver(t) ==
  \/ BeginBatch(t) \/ HeartbeatRemaining(t)
  \/ StartDelivery(t) \/ Examine(t) \/ FreezeRequest(t) \/ Send(t) \/ TimeOut(t)
  \/ Finalize(t) \/ FinalizeAccepted(t) \/ CommitAccepted(t) \/ Pause(t)

Next ==
  \/ \E t \in Task : Deliver(t) \/ InfrastructureFails(t) \/ Crash(t)
  \/ \E r \in wire : Accept(r) \/ Refuse(r)
  \/ \E n \in Note : \/ TerminalizeAccepted(n) \/ ReleaseNotAccepted(n)
                     \/ ReceiveEvent(n) \/ CommitEvent(n)
                     \/ LapseAddress(n) \/ GrowStale(n) \/ ForgetKey(n) \/ ExpireLease(n)
  \/ MaintainRetention \/ SwitchActivation

Spec == Init /\ [][Next]_vars

FairSpec ==
  /\ Spec
  /\ WF_vars(MaintainRetention)
  /\ \A t \in Task : WF_vars(Deliver(t))
  /\ \A n \in Note : WF_vars(~Worked(n) /\ ExpireLease(n)) /\ WF_vars(CommitEvent(n))

-----------------------------------------------------------------------------
\* Types, and the CHECK constraints on leases and attempts.
TypeOK ==
  /\ row \in [Note -> Row]
  /\ \A n \in Note :
       /\ (row[n].status = "LEASED") <=> (row[n].owner # NoWorker)
       /\ row[n].live => row[n].status = "LEASED"
       /\ row[n].attempts <= row[n].max
  /\ log \in [Note -> Seq(Outcome)]
  /\ task \in [Task -> [pc: {"idle", "ready", "started", "examined", "frozen",
                              "waiting", "ending", "writing"},
                        owner: Worker, batch: SUBSET Note,
                        seen: [Note -> [attempts: Attempts, max: Attempts \ {0},
                                        request: Material, body: 0..2,
                                        activation: Activation \cup {NoActivation}]],
                        note: Note \cup {NoNote}, activation: Activation \cup {NoActivation},
                        body: 0..2, late: BOOLEAN, verdict: Verdict, sawEvent: BOOLEAN]]
  /\ activation \in Activation \cup {NoActivation}
  /\ age \in [Note -> {"new", "stale", "forgotten"}]
  /\ lapsed \subseteq Note
  /\ wire \subseteq [task: Task, note: Note, body: 0..2]
  /\ mail \in [Note -> [count: 0..2, known: BOOLEAN]]
  /\ event \in [Note -> {"none", "RECEIVED", "PROJECTED", "IGNORED"}]
  /\ hook \in [Note -> {"idle", "blind", "sighted"}]
  /\ faults \in 0..MaxFaults

\* The attempts of a row are numbered without a gap or a repetition, the last
\* one agrees with the row's status, only retryable ones lie before it, and a
\* row in delivery has an attempt left.  finalizeAttempt numbers by a snapshot.
AttemptLedger ==
  \A n \in Note :
    /\ row[n].attempts = Len(log[n])
    /\ (row[n].status = "DELIVERED") <=> Accepted(n)
    /\ \A i \in 1..(Len(log[n]) - 1) : log[n][i] \in Retryable
    /\ row[n].status \in {"PENDING", "LEASED", "RETRY"} => row[n].attempts < row[n].max

\* Whatever carries the row's idempotency key carries the same bytes: the
\* request is frozen once, even by two batches of one process that both hold
\* the row.
OneBody == \A r \in wire : r.body = row[r.note].body /\ r.body = 1

\* A bounce and the accepted attempt it belongs to never miss each other: the
\* side that commits second sees the first.
ReceiptsMeet == \A n \in Note : ~(event[n] = "RECEIVED" /\ Accepted(n))

\* While an activation stays in force every notification ends delivered,
\* suppressed, dead or before an operator.
Ended(n) == row[n].status \in Closed \/ (row[n].status = "PAUSED" /\ row[n].error # "activation")
EveryNotificationSettles ==
  <>[](activation # NoActivation) => \A n \in Note : []<>Ended(n)

\* What the dispatcher does is a behaviour of Mailing.
Outcomes ==
  [PENDING |-> "open", LEASED |-> "open", RETRY |-> "open", PAUSED |-> "held",
   DELIVERED |-> "delivered", SUPPRESSED |-> "suppressed", DEAD_LETTER |-> "dead"]
M == INSTANCE Mailing WITH outcome <- [n \in Note |-> Outcomes[row[n].status]],
                           mails <- [n \in Note |-> mail[n].count]
MailingSpec == M!Spec

\* An outcome the provider left open is not closed as a dead letter that was
\* never sent (src/lib/providers/email/resend-email-provider.ts:203-209).
DeadLetterUnsent ==
  \A n \in Note : row[n].status = "DEAD_LETTER" => mail[n].count = 0
=============================================================================
