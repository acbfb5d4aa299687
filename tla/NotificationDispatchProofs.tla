-------------------- MODULE NotificationDispatchProofs --------------------
(***************************************************************************)
(* The safety theorems of NotificationDispatch, for any number of rows,    *)
(* batches, workers, attempts, activations, faults and further attempts.   *)
(***************************************************************************)
EXTENDS NotificationDispatch, TLAPS

(***************************************************************************)
(* The inductive invariant.                                                *)
(***************************************************************************)
\* A request is frozen once, with its activation, and never forgotten again; only a
\* delivered row may have been granted one attempt more than operators may grant.
BodySound ==
  \A n \in Note :
    /\ row[n].body <= 1
    /\ row[n].request = "none" <=> row[n].body = 0
    /\ row[n].activation = NoActivation <=> row[n].body = 0
    /\ row[n].max <= MaxAttempts + MaxReleases \/ row[n].status = "DELIVERED"

\* What a batch read of a row when it claimed it is old, but not wrong.
SeenSound ==
  \A t \in Task : \A n \in Note :
    LET s == task[t].seen[n] IN
    /\ s.body <= row[n].body /\ s.max <= row[n].max
    /\ s.request = "none" <=> s.body = 0
    /\ s.activation = NoActivation <=> s.body = 0

InHand == {"started", "examined", "frozen", "waiting"}
TaskSound ==
  \A t \in Task :
    LET n == task[t].note IN
    /\ task[t].pc \in {"idle", "ready"} => task[t].body = 0 /\ ~task[t].late
    /\ task[t].pc \notin {"idle", "ready"} =>
       /\ n \in Note
       /\ task[t].body <= row[n].body
       /\ task[t].late => row[n].body = 1
       /\ task[t].pc \in {"examined", "frozen", "waiting"} => task[t].activation # NoActivation
       /\ task[t].pc \in {"frozen", "waiting"} => task[t].body = 1 /\ ~task[t].late
       /\ task[t].pc \in InHand /\ ~task[t].late => age[n] # "forgotten"
       /\ task[t].pc \in {"ending", "writing"} /\ task[t].verdict = "ACCEPTED" => mail[n].count = 1

WireSound == \A r \in wire : r.body = 1 /\ row[r.note].body = 1 /\ age[r.note] # "forgotten"
AgeSound == \A n \in Note : age[n] # "new" => row[n].body = 1
MailSound ==
  \A n \in Note :
    /\ mail[n].known => mail[n].count = 1
    /\ mail[n].count <= 1
    /\ mail[n].count = 1 /\ age[n] # "forgotten" => mail[n].known

\* A row that may be delivered again has only failed for a while, and not too often.
Lively(n) == row[n].status \in {"PENDING", "LEASED", "RETRY"}
             \/ (row[n].status = "PAUSED" /\ row[n].error = "activation")
Retried ==
  \A n \in Note : Lively(n) => /\ row[n].attempts < row[n].max
                               /\ \A i \in 1..Len(log[n]) : log[n][i] \in Retryable

\* Who writes the end of an accepted delivery has row and receipt for itself.
WriterSound ==
  \A t \in Task : task[t].pc = "writing" =>
    LET n == task[t].note IN
    /\ Recordable(t) /\ task[t].verdict = "ACCEPTED"
    /\ hook[n] = "idle" /\ (event[n] = "RECEIVED" => task[t].sawEvent)
    /\ \A u \in Task : task[u].pc = "writing" /\ task[u].note = n => u = t
HookSound == \A n \in Note : hook[n] = "blind" => ~Accepted(n)

IInv == /\ TypeOK /\ AttemptLedger /\ BodySound /\ SeenSound /\ TaskSound /\ WireSound /\ AgeSound
        /\ MailSound /\ Retried /\ WriterSound /\ HookSound /\ ReceiptsMeet

-----------------------------------------------------------------------------
(* Who changes what *)

LEMMA RowMovers ==
  ASSUME [Next]_vars
  PROVE  \/ UNCHANGED <<row, log>>
         \/ \E t \in Task : BeginBatch(t) \/ HeartbeatRemaining(t) \/ StartDelivery(t) \/ FreezeRequest(t) \/ Send(t)
         \/ \E t \in Task : Finalize(t) \/ CommitAccepted(t) \/ Pause(t)
         \/ \E n \in Note : TerminalizeAccepted(n) \/ ReleaseNotAccepted(n) \/ ExpireLease(n)
         \/ MaintainRetention
<1>1. ASSUME \E t \in Task : Deliver(t) \/ InfrastructureFails(t) \/ Crash(t)
      PROVE  \/ UNCHANGED <<row, log>>
             \/ \E t \in Task : BeginBatch(t) \/ HeartbeatRemaining(t) \/ StartDelivery(t) \/ FreezeRequest(t) \/ Send(t)
             \/ \E t \in Task : Finalize(t) \/ CommitAccepted(t) \/ Pause(t)
  <2>1. ASSUME NEW t \in Task, Deliver(t) \/ InfrastructureFails(t) \/ Crash(t)
        PROVE  \/ UNCHANGED <<row, log>>
             \/ BeginBatch(t) \/ HeartbeatRemaining(t) \/ StartDelivery(t) \/ FreezeRequest(t) \/ Send(t)
             \/ Finalize(t) \/ CommitAccepted(t) \/ Pause(t)
    BY <2>1 DEF Deliver, Examine, TimeOut, FinalizeAccepted, InfrastructureFails, Crash
  <2> QED
    BY <1>1, <2>1
<1>2. ASSUME \E r \in wire : Accept(r) \/ Refuse(r)
      PROVE  UNCHANGED <<row, log>>
  BY <1>2 DEF Accept, Refuse
<1>3. ASSUME \E n \in Note : \/ TerminalizeAccepted(n) \/ ReleaseNotAccepted(n) \/ ReceiveEvent(n) \/ CommitEvent(n)
                          \/ LapseAddress(n) \/ GrowStale(n) \/ ForgetKey(n) \/ ExpireLease(n)
      PROVE  \/ UNCHANGED <<row, log>>
             \/ \E n \in Note : TerminalizeAccepted(n) \/ ReleaseNotAccepted(n) \/ ExpireLease(n)
  BY <1>3 DEF ReceiveEvent, CommitEvent, LapseAddress, GrowStale, ForgetKey
<1>4. ASSUME MaintainRetention \/ SwitchActivation
      PROVE  \/ UNCHANGED <<row, log>>
             \/ MaintainRetention
  BY <1>4 DEF SwitchActivation
<1>5. UNCHANGED vars => UNCHANGED <<row, log>>
  BY DEF vars
<1> QED
  BY <1>1, <1>2, <1>3, <1>4, <1>5 DEF Next

LEMMA TaskMovers ==
  ASSUME [Next]_vars
  PROVE  \/ task' = task
         \/ \E t \in Task : BeginBatch(t) \/ HeartbeatRemaining(t) \/ StartDelivery(t) \/ Examine(t) \/ FreezeRequest(t)
         \/ \E t \in Task : Send(t) \/ TimeOut(t) \/ Finalize(t) \/ FinalizeAccepted(t) \/ CommitAccepted(t)
         \/ \E t \in Task : Pause(t) \/ InfrastructureFails(t) \/ Crash(t)
         \/ \E r \in wire : Accept(r) \/ Refuse(r)
<1>1. ASSUME \E t \in Task : Deliver(t) \/ InfrastructureFails(t) \/ Crash(t)
      PROVE  \/ task' = task
             \/ \E t \in Task : BeginBatch(t) \/ HeartbeatRemaining(t) \/ StartDelivery(t) \/ Examine(t) \/ FreezeRequest(t)
             \/ \E t \in Task : Send(t) \/ TimeOut(t) \/ Finalize(t) \/ FinalizeAccepted(t) \/ CommitAccepted(t)
             \/ \E t \in Task : Pause(t) \/ InfrastructureFails(t) \/ Crash(t)
  <2>1. ASSUME NEW t \in Task, Deliver(t) \/ InfrastructureFails(t) \/ Crash(t)
        PROVE  \/ task' = task
             \/ BeginBatch(t) \/ HeartbeatRemaining(t) \/ StartDelivery(t) \/ Examine(t) \/ FreezeRequest(t)
             \/ Send(t) \/ TimeOut(t) \/ Finalize(t) \/ FinalizeAccepted(t) \/ CommitAccepted(t)
             \/ Pause(t) \/ InfrastructureFails(t) \/ Crash(t)
    BY <2>1 DEF Deliver
  <2> QED
    BY <1>1, <2>1
<1>2. ASSUME \E r \in wire : Accept(r) \/ Refuse(r)
      PROVE  \/ task' = task
             \/ \E r \in wire : Accept(r) \/ Refuse(r)
  BY <1>2
<1>3. ASSUME \E n \in Note : \/ TerminalizeAccepted(n) \/ ReleaseNotAccepted(n) \/ ReceiveEvent(n) \/ CommitEvent(n)
                          \/ LapseAddress(n) \/ GrowStale(n) \/ ForgetKey(n) \/ ExpireLease(n)
      PROVE  task' = task
  BY <1>3 DEF TerminalizeAccepted, ReleaseNotAccepted, ReceiveEvent, CommitEvent, LapseAddress,
         GrowStale, ForgetKey, ExpireLease
<1>4. ASSUME MaintainRetention \/ SwitchActivation
      PROVE  task' = task
  BY <1>4 DEF Sweeping, MaintainRetention, SwitchActivation
<1>5. UNCHANGED vars => task' = task
  BY DEF vars
<1> QED
  BY <1>1, <1>2, <1>3, <1>4, <1>5 DEF Next

LEMMA AgeMovers ==
  ASSUME [Next]_vars
  PROVE  \/ age' = age
         \/ \E t \in Task : FreezeRequest(t)
         \/ \E n \in Note : GrowStale(n) \/ ForgetKey(n)
<1>1. ASSUME \E t \in Task : Deliver(t) \/ InfrastructureFails(t) \/ Crash(t)
      PROVE  \/ age' = age
             \/ \E t \in Task : FreezeRequest(t)
  <2>1. ASSUME NEW t \in Task, Deliver(t) \/ InfrastructureFails(t) \/ Crash(t)
        PROVE  \/ age' = age
             \/ FreezeRequest(t)
    BY <2>1 DEF Deliver, Sweeping, BeginBatch, HeartbeatRemaining, StartDelivery, Examine, Send,
         TimeOut, Finalize, FinalizeAccepted, CommitAccepted, Pause, InfrastructureFails, Crash,
         worldVars
  <2> QED
    BY <1>1, <2>1
<1>2. ASSUME \E r \in wire : Accept(r) \/ Refuse(r)
      PROVE  age' = age
  BY <1>2 DEF Accept, Refuse, worldVars
<1>3. ASSUME \E n \in Note : \/ TerminalizeAccepted(n) \/ ReleaseNotAccepted(n) \/ ReceiveEvent(n) \/ CommitEvent(n)
                          \/ LapseAddress(n) \/ GrowStale(n) \/ ForgetKey(n) \/ ExpireLease(n)
      PROVE  \/ age' = age
             \/ \E n \in Note : GrowStale(n) \/ ForgetKey(n)
  BY <1>3 DEF TerminalizeAccepted, ReleaseNotAccepted, ReceiveEvent, CommitEvent, LapseAddress,
         ExpireLease, worldVars
<1>4. ASSUME MaintainRetention \/ SwitchActivation
      PROVE  age' = age
  BY <1>4 DEF Sweeping, MaintainRetention, SwitchActivation, worldVars
<1>5. UNCHANGED vars => age' = age
  BY DEF vars, worldVars
<1> QED
  BY <1>1, <1>2, <1>3, <1>4, <1>5 DEF Next

LEMMA ProviderMovers ==
  ASSUME [Next]_vars
  PROVE  \/ UNCHANGED <<wire, mail>>
         \/ \E t \in Task : Send(t)
         \/ \E r \in wire : Accept(r) \/ Refuse(r)
         \/ \E n \in Note : ForgetKey(n)
<1>1. ASSUME \E t \in Task : Deliver(t) \/ InfrastructureFails(t) \/ Crash(t)
      PROVE  \/ UNCHANGED <<wire, mail>>
             \/ \E t \in Task : Send(t)
  <2>1. ASSUME NEW t \in Task, Deliver(t) \/ InfrastructureFails(t) \/ Crash(t)
        PROVE  \/ UNCHANGED <<wire, mail>>
             \/ Send(t)
    BY <2>1 DEF Deliver, Sweeping, BeginBatch, HeartbeatRemaining, StartDelivery, Examine,
         FreezeRequest, TimeOut, Finalize, FinalizeAccepted, CommitAccepted, Pause,
         InfrastructureFails, Crash, providerVars
  <2> QED
    BY <1>1, <2>1
<1>2. ASSUME \E r \in wire : Accept(r) \/ Refuse(r)
      PROVE  \/ UNCHANGED <<wire, mail>>
             \/ \E r \in wire : Accept(r) \/ Refuse(r)
  BY <1>2 DEF providerVars
<1>3. ASSUME \E n \in Note : \/ TerminalizeAccepted(n) \/ ReleaseNotAccepted(n) \/ ReceiveEvent(n) \/ CommitEvent(n)
                          \/ LapseAddress(n) \/ GrowStale(n) \/ ForgetKey(n) \/ ExpireLease(n)
      PROVE  \/ UNCHANGED <<wire, mail>>
             \/ \E n \in Note : ForgetKey(n)
  BY <1>3 DEF TerminalizeAccepted, ReleaseNotAccepted, ReceiveEvent, CommitEvent, LapseAddress,
         GrowStale, ExpireLease, providerVars
<1>4. ASSUME MaintainRetention \/ SwitchActivation
      PROVE  UNCHANGED <<wire, mail>>
  BY <1>4 DEF Sweeping, MaintainRetention, SwitchActivation, providerVars
<1>5. UNCHANGED vars => UNCHANGED <<wire, mail>>
  BY DEF vars, providerVars
<1> QED
  BY <1>1, <1>2, <1>3, <1>4, <1>5 DEF Next

LEMMA EventMovers ==
  ASSUME [Next]_vars
  PROVE  \/ UNCHANGED <<event, hook>>
         \/ \E t \in Task : BeginBatch(t) \/ CommitAccepted(t)
         \/ \E n \in Note : TerminalizeAccepted(n) \/ ReceiveEvent(n) \/ CommitEvent(n)
         \/ MaintainRetention
<1>1. ASSUME \E t \in Task : Deliver(t) \/ InfrastructureFails(t) \/ Crash(t)
      PROVE  \/ UNCHANGED <<event, hook>>
             \/ \E t \in Task : BeginBatch(t) \/ CommitAccepted(t)
  <2>1. ASSUME NEW t \in Task, Deliver(t) \/ InfrastructureFails(t) \/ Crash(t)
        PROVE  \/ UNCHANGED <<event, hook>>
             \/ BeginBatch(t) \/ CommitAccepted(t)
    BY <2>1 DEF Deliver, HeartbeatRemaining, StartDelivery, Examine, FreezeRequest, Send, TimeOut,
         Finalize, FinalizeAccepted, Pause, InfrastructureFails, Crash, eventVars
  <2> QED
    BY <1>1, <2>1
<1>2. ASSUME \E r \in wire : Accept(r) \/ Refuse(r)
      PROVE  UNCHANGED <<event, hook>>
  BY <1>2 DEF Accept, Refuse, eventVars
<1>3. ASSUME \E n \in Note : \/ TerminalizeAccepted(n) \/ ReleaseNotAccepted(n) \/ ReceiveEvent(n) \/ CommitEvent(n)
                          \/ LapseAddress(n) \/ GrowStale(n) \/ ForgetKey(n) \/ ExpireLease(n)
      PROVE  \/ UNCHANGED <<event, hook>>
             \/ \E n \in Note : TerminalizeAccepted(n) \/ ReceiveEvent(n) \/ CommitEvent(n)
  BY <1>3 DEF ReleaseNotAccepted, LapseAddress, GrowStale, ForgetKey, ExpireLease, eventVars
<1>4. ASSUME MaintainRetention \/ SwitchActivation
      PROVE  \/ UNCHANGED <<event, hook>>
             \/ MaintainRetention
  BY <1>4 DEF SwitchActivation, eventVars
<1>5. UNCHANGED vars => UNCHANGED <<event, hook>>
  BY DEF vars, eventVars
<1> QED
  BY <1>1, <1>2, <1>3, <1>4, <1>5 DEF Next

LEMMA WorldMovers ==
  ASSUME [Next]_vars
  PROVE  \/ UNCHANGED <<activation, lapsed, faults>>
         \/ \E t \in Task : Crash(t)
         \/ \E n \in Note : LapseAddress(n) \/ ExpireLease(n)
         \/ SwitchActivation
<1>1. ASSUME \E t \in Task : Deliver(t) \/ InfrastructureFails(t) \/ Crash(t)
      PROVE  \/ UNCHANGED <<activation, lapsed, faults>>
             \/ \E t \in Task : Crash(t)
  <2>1. ASSUME NEW t \in Task, Deliver(t) \/ InfrastructureFails(t) \/ Crash(t)
        PROVE  \/ UNCHANGED <<activation, lapsed, faults>>
             \/ Crash(t)
    BY <2>1 DEF Deliver, Sweeping, BeginBatch, HeartbeatRemaining, StartDelivery, Examine,
         FreezeRequest, Send, TimeOut, Finalize, FinalizeAccepted, CommitAccepted, Pause,
         InfrastructureFails, worldVars
  <2> QED
    BY <1>1, <2>1
<1>2. ASSUME \E r \in wire : Accept(r) \/ Refuse(r)
      PROVE  UNCHANGED <<activation, lapsed, faults>>
  BY <1>2 DEF Accept, Refuse, worldVars
<1>3. ASSUME \E n \in Note : \/ TerminalizeAccepted(n) \/ ReleaseNotAccepted(n) \/ ReceiveEvent(n) \/ CommitEvent(n)
                          \/ LapseAddress(n) \/ GrowStale(n) \/ ForgetKey(n) \/ ExpireLease(n)
      PROVE  \/ UNCHANGED <<activation, lapsed, faults>>
             \/ \E n \in Note : LapseAddress(n) \/ ExpireLease(n)
  BY <1>3 DEF TerminalizeAccepted, ReleaseNotAccepted, ReceiveEvent, CommitEvent, GrowStale,
         ForgetKey, worldVars
<1>4. ASSUME MaintainRetention \/ SwitchActivation
      PROVE  \/ UNCHANGED <<activation, lapsed, faults>>
             \/ SwitchActivation
  BY <1>4 DEF Sweeping, MaintainRetention, worldVars
<1>5. UNCHANGED vars => UNCHANGED <<activation, lapsed, faults>>
  BY DEF vars, worldVars
<1> QED
  BY <1>1, <1>2, <1>3, <1>4, <1>5 DEF Next

-----------------------------------------------------------------------------
(* Types of rows, batches and logs *)

TaskRow ==
  [pc: {"idle", "ready", "started", "examined", "frozen", "waiting", "ending", "writing"},
   owner: Worker, batch: SUBSET Note,
   seen: [Note -> [attempts: Attempts, max: Attempts \ {0}, request: Material, body: 0..2,
                   activation: Activation \cup {NoActivation}]],
   note: Note \cup {NoNote}, activation: Activation \cup {NoActivation},
   body: 0..2, late: BOOLEAN, verdict: Verdict, sawEvent: BOOLEAN]
Seen == [attempts: Attempts, max: Attempts \ {0}, request: Material, body: 0..2,
         activation: Activation \cup {NoActivation}]

RowOK(r) ==
  /\ (r.status = "LEASED") <=> (r.owner # NoWorker)
  /\ r.live => r.status = "LEASED"
  /\ r.attempts <= r.max

LEMMA TypeParts ==
  TypeOK <=>
    /\ row \in [Note -> Row] /\ \A n \in Note : RowOK(row[n])
    /\ log \in [Note -> Seq(Outcome)] /\ task \in [Task -> TaskRow]
    /\ activation \in Activation \cup {NoActivation}
    /\ age \in [Note -> {"new", "stale", "forgotten"}] /\ lapsed \subseteq Note
    /\ wire \subseteq [task: Task, note: Note, body: 0..2]
    /\ mail \in [Note -> [count: 0..2, known: BOOLEAN]]
    /\ event \in [Note -> {"none", "RECEIVED", "PROJECTED", "IGNORED"}]
    /\ hook \in [Note -> {"idle", "blind", "sighted"}]
    /\ faults \in 0..MaxFaults
  BY DEF TypeOK, TaskRow, RowOK

LEMMA Naturals ==
  /\ MaxAttempts \in Nat /\ MaxReleases \in Nat /\ MaxAttempts >= 1 /\ MaxFaults \in Nat
  /\ Attempts = 0..(MaxAttempts + MaxReleases + 1)
  BY AttemptBound, Bounds DEF Attempts

-----------------------------------------------------------------------------
(* Updates of a row *)

LEMMA ParkedFields ==
  ASSUME NEW r \in Row, NEW status \in Open \cup Closed, NEW error \in Error
  PROVE  LET s == Parked(r, status, error) IN
         /\ s \in Row /\ s.status = status /\ s.owner = NoWorker /\ ~s.live /\ s.error = error
         /\ s.attempts = r.attempts /\ s.max = r.max /\ s.request = r.request
         /\ s.activation = r.activation /\ s.body = r.body /\ s.address = r.address
  BY DEF Parked, Row

LEMMA BareFields ==
  ASSUME NEW r \in Row
  PROVE  LET s == Bare(r) IN
         /\ s \in Row /\ s.status = r.status /\ s.owner = r.owner /\ s.live = r.live /\ s.error = r.error
         /\ s.attempts = r.attempts /\ s.max = r.max
         /\ s.request = r.request \/ (s.request = "destroyed" /\ r.request # "none")
         /\ s.activation = r.activation /\ s.body = r.body
<1>1. /\ Wiped(r.request) \in Material /\ Wiped(r.address) \in {"user", "kept", "destroyed"}
      /\ Wiped(r.request) = r.request \/ (Wiped(r.request) = "destroyed" /\ r.request # "none")
  BY DEF Row, Wiped, Material
<1>2. PICK q \in Material, a \in {"user", "kept", "destroyed"} :
        /\ q = Wiped(r.request) /\ a = Wiped(r.address)
        /\ q = r.request \/ (q = "destroyed" /\ r.request # "none")
  BY <1>1
<1>3. Bare(r) = [r EXCEPT !.request = q, !.address = a]
  BY <1>2 DEF Bare
<1>4. PICK s : s = [r EXCEPT !.request = q, !.address = a]
  OBVIOUS
<1>5. /\ s \in Row /\ s.status = r.status /\ s.owner = r.owner /\ s.live = r.live /\ s.error = r.error
      /\ s.attempts = r.attempts /\ s.max = r.max /\ s.request = q /\ s.activation = r.activation /\ s.body = r.body
  BY <1>4 DEF Row
<1>6. s = Bare(r)
  BY <1>3, <1>4
<1> HIDE DEF Bare
<1> QED
  BY <1>2, <1>5, <1>6

-----------------------------------------------------------------------------
(* What one step does to a row and its log *)

Wears(r, s) == s.request = r.request \/ (s.request = "destroyed" /\ r.request # "none")
Kept(r, s) ==
  /\ s.attempts = r.attempts /\ s.max = r.max /\ s.body = r.body /\ s.activation = r.activation
  /\ Wears(r, s)

Brushed(r, s) ==
  /\ s.status = r.status /\ s.owner = r.owner /\ s.error = r.error
  /\ s.live => s.status = "LEASED"
  /\ Kept(r, s)
ParkedFrom(r, s) ==
  /\ r.status \in Open /\ s.status \in {"PAUSED", "SUPPRESSED"} /\ s.owner = NoWorker /\ ~s.live
  /\ s.status = "PAUSED" /\ s.error = "activation" => r.status = "LEASED"
  /\ Kept(r, s)
ClaimedFrom(r, s) ==
  /\ s.status = "LEASED" /\ s.owner \in Worker
  /\ Kept(r, s)
FrozenFrom(r, s) ==
  /\ r.status = "LEASED" /\ s.status = "LEASED" /\ s.owner = r.owner /\ (s.live => r.live)
  /\ r.request = "none" /\ s.request = "kept" /\ s.body = r.body + 1 /\ s.activation # NoActivation
  /\ s.attempts = r.attempts /\ s.max = r.max
EndedBy(t, n, r, s) ==
  /\ task[t].note = n /\ Recordable(t) /\ task[t].verdict \in Outcome
  /\ \/ task[t].pc = "ending" /\ task[t].verdict # "ACCEPTED" /\ ~Locked(n)
     \/ task[t].pc = "writing" /\ task[t].verdict = "ACCEPTED"
  /\ s.status = FinalStatus(t) /\ s.owner = NoWorker /\ ~s.live /\ s.error # "activation"
  /\ s.attempts = r.attempts + 1 /\ s.max = r.max /\ s.body = r.body /\ s.activation = r.activation
  /\ Wears(r, s)
  /\ log'[n] = Append(log[n], task[t].verdict) /\ task'[t].pc \in {"idle", "ready"}
  /\ task[t].pc = "writing" /\ task[t].sawEvent => event'[n] # "RECEIVED"
  /\ task[t].pc = "writing" /\ event[n] # "RECEIVED" => event'[n] # "RECEIVED"
Open2(n, r) ==
  /\ ReceiptFree(n) /\ r.status = "PAUSED" /\ r.attempts = r.max
  /\ log[n] # <<>> /\ log[n][Len(log[n])] = "TIMED_OUT"
ClosedBy(n, r, s) ==
  /\ Open2(n, r) /\ mail[n].count > 0
  /\ s.status = "DELIVERED" /\ s.owner = NoWorker /\ ~s.live
  /\ s.attempts = r.attempts + 1 /\ s.max = r.attempts + 1 /\ s.body = r.body /\ s.activation = r.activation
  /\ Wears(r, s)
  /\ log'[n] = Append(log[n], "ACCEPTED") /\ event'[n] # "RECEIVED"
ReleasedBy(n, r, s) ==
  /\ Open2(n, r) /\ r.attempts < MaxAttempts + MaxReleases
  /\ s.status = "RETRY" /\ s.owner = NoWorker /\ ~s.live
  /\ s.attempts = r.attempts /\ s.max = r.attempts + 1 /\ s.body = r.body /\ s.activation = r.activation
  /\ Wears(r, s)

RowStep(n) ==
  \/ /\ log'[n] = log[n]
     /\ \/ Brushed(row[n], row'[n])
        \/ ~Locked(n) /\ ParkedFrom(row[n], row'[n])
        \/ ~Locked(n) /\ Lively(n) /\ ClaimedFrom(row[n], row'[n])
        \/ ~Locked(n) /\ FrozenFrom(row[n], row'[n])
        \/ ReleasedBy(n, row[n], row'[n])
  \/ \E t \in Task : EndedBy(t, n, row[n], row'[n])
  \/ ClosedBy(n, row[n], row'[n])

RowFacts == row' \in [Note -> Row] /\ log' \in [Note -> Seq(Outcome)] /\ \A n \in Note : RowStep(n)

LEMMA RowIs ==
  ASSUME IInv, NEW n \in Note
  PROVE  /\ row[n] \in Row /\ RowOK(row[n])
         /\ row[n].attempts \in Nat /\ row[n].max \in Nat /\ row[n].body \in Nat /\ row[n].max >= 1
         /\ row[n].attempts = Len(log[n]) /\ log[n] \in Seq(Outcome)
<1>1. row[n] \in Row /\ RowOK(row[n]) /\ log[n] \in Seq(Outcome)
  BY TypeParts DEF IInv
<1>2. row[n].attempts \in Nat /\ row[n].max \in Nat /\ row[n].body \in Nat /\ row[n].max >= 1
  BY <1>1, Naturals DEF Row
<1> QED
  BY <1>1, <1>2 DEF IInv, AttemptLedger

LEMMA Untouched == ASSUME IInv, NEW n \in Note PROVE Brushed(row[n], row[n])
  BY RowIs DEF Brushed, Kept, Wears, RowOK

\* One row is replaced.
LEMMA OneRow ==
  ASSUME IInv, NEW n \in Note, NEW r \in Row, row' = [row EXCEPT ![n] = r],
         log' \in [Note -> Seq(Outcome)], \A m \in Note : m # n => log'[m] = log[m],
         row'[n] = r => RowStep(n)
  PROVE  RowFacts
<1>1. row \in [Note -> Row]
  BY TypeParts DEF IInv
<1>2. row' \in [Note -> Row] /\ row'[n] = r /\ \A m \in Note : m # n => row'[m] = row[m]
  BY <1>1
<1>3. ASSUME NEW m \in Note, m # n PROVE RowStep(m)
  <2>1. row'[m] = row[m] /\ log'[m] = log[m] /\ Brushed(row[m], row[m])
    BY <1>2, <1>3, Untouched
  <2>2. Brushed(row[m], row'[m])
    BY <2>1
  <2> QED
    BY <2>1, <2>2 DEF RowStep
<1> QED
  BY <1>2, <1>3 DEF RowFacts

LEMMA NoRow == ASSUME IInv, UNCHANGED <<row, log>> PROVE RowFacts
<1>1. row \in [Note -> Row] /\ log \in [Note -> Seq(Outcome)]
  BY TypeParts DEF IInv
<1>2. ASSUME NEW n \in Note PROVE RowStep(n)
  <2>1. Brushed(row[n], row'[n])
    BY Untouched
  <2> QED
    BY <2>1 DEF RowStep
<1> QED
  BY <1>1, <1>2 DEF RowFacts

LEMMA SweptIs ==
  ASSUME IInv, NEW n \in Note
  PROVE  /\ Swept(n) \in Row
         /\ \/ Swept(n) = row[n]
            \/ row[n].status \in Closed /\ Swept(n).status = row[n].status /\ Brushed(row[n], Swept(n))
            \/ ParkedFrom(row[n], Swept(n)) /\ ~(Swept(n).status = "PAUSED" /\ Swept(n).error = "activation")
<1>0. row[n] \in Row /\ RowOK(row[n])
  BY RowIs
<1>1. CASE row[n].status \in Closed
  <2>1. Swept(n) = Bare(row[n])
    BY <1>1 DEF Swept
  <2> QED
    BY <1>0, <1>1, <2>1, BareFields DEF Brushed, Kept, Wears, RowOK
<1>2. CASE row[n].status \notin Closed /\ ~Overdue(n)
  BY <1>0, <1>2 DEF Swept
<1>3. CASE row[n].status \notin Closed /\ Overdue(n)
  <2>1. row[n].status \in Open
    BY <1>3 DEF Overdue
  <2>2. {"SUPPRESSED", "PAUSED"} \subseteq Open \cup Closed /\ {"other", "outcome"} \subseteq Error
    BY DEF Open, Closed, Error
  <2>3. \/ Swept(n) = Parked(Bare(row[n]), "SUPPRESSED", "other")
        \/ Swept(n) = Parked(Bare(row[n]), "PAUSED", "outcome")
    BY <1>3 DEF Swept
  <2>4. PICK b \in Row : b = Bare(row[n]) /\ Kept(row[n], b)
    <3>1. Bare(row[n]) \in Row /\ Kept(row[n], Bare(row[n]))
      BY <1>0, BareFields DEF Kept, Wears
    <3> QED
      BY <3>1
  <2>5. CASE Swept(n) = Parked(Bare(row[n]), "SUPPRESSED", "other")
    <3>1. PICK q : q = Swept(n) /\ q = Parked(b, "SUPPRESSED", "other")
      BY <2>4, <2>5
    <3>2. /\ q \in Row /\ q.status = "SUPPRESSED" /\ q.error = "other" /\ q.owner = NoWorker /\ ~q.live
          /\ q.attempts = b.attempts /\ q.max = b.max /\ q.request = b.request
          /\ q.activation = b.activation /\ q.body = b.body
      BY <2>2, <3>1, ParkedFields
    <3>3. ParkedFrom(row[n], q)
      BY <2>1, <2>4, <3>2 DEF ParkedFrom, Kept, Wears
    <3> QED
      BY <3>1, <3>2, <3>3
  <2>6. CASE Swept(n) = Parked(Bare(row[n]), "PAUSED", "outcome")
    <3>1. PICK q : q = Swept(n) /\ q = Parked(b, "PAUSED", "outcome")
      BY <2>4, <2>6
    <3>2. /\ q \in Row /\ q.status = "PAUSED" /\ q.error = "outcome" /\ q.owner = NoWorker /\ ~q.live
          /\ q.attempts = b.attempts /\ q.max = b.max /\ q.request = b.request
          /\ q.activation = b.activation /\ q.body = b.body
      BY <2>2, <3>1, ParkedFields
    <3>3. ParkedFrom(row[n], q)
      BY <2>1, <2>4, <3>2 DEF ParkedFrom, Kept, Wears
    <3> QED
      BY <3>1, <3>2, <3>3
  <2> QED
    BY <2>3, <2>5, <2>6
<1> QED
  BY <1>1, <1>2, <1>3

LEMMA ClaimableIs ==
  ASSUME IInv, NEW n \in Note, Claimable(Swept(n), n)
  PROVE  Swept(n) = row[n] /\ Lively(n)
<1>1. PICK q : q = Swept(n)
  OBVIOUS
<1>2. q.status \in {"PENDING", "RETRY", "LEASED"} \/ (q.status = "PAUSED" /\ q.error = "activation")
  BY <1>1 DEF Claimable
<1>3. q = row[n]
  BY <1>1, <1>2, SweptIs DEF ParkedFrom, Closed
<1> QED
  BY <1>1, <1>2, <1>3 DEF Lively

LEMMA SweepRows ==
  ASSUME IInv, NEW t \in Task, NEW S, S \subseteq {n \in Note : Claimable(Swept(n), n)},
         Sweeping([n \in Note |-> IF n \notin S THEN Swept(n)
            ELSE [Swept(n) EXCEPT !.status = "LEASED", !.owner = task[t].owner, !.live = TRUE]])
  PROVE  RowFacts
<1>1. /\ row' = [n \in Note |-> IF n \notin S THEN Swept(n)
            ELSE [Swept(n) EXCEPT !.status = "LEASED", !.owner = task[t].owner, !.live = TRUE]]
      /\ log' = log /\ \A n \in Note : ~Locked(n)
  BY DEF Sweeping
<1>2. task[t].owner \in Worker
  BY TypeParts DEF IInv, TaskRow
<1>3. ASSUME NEW n \in Note PROVE row'[n] \in Row /\ RowStep(n)
  <2>1. CASE n \notin S
    <3>1. PICK q \in Row : q = Swept(n) /\ q = row'[n]
      BY <1>1, <2>1, SweptIs
    <3>2. Brushed(row[n], q) \/ ParkedFrom(row[n], q)
      BY <3>1, SweptIs, Untouched
    <3> QED
      BY <1>1, <3>1, <3>2 DEF RowStep
  <2>2. CASE n \in S
    <3>1. Swept(n) = row[n] /\ Lively(n)
      BY <2>2, ClaimableIs
    <3>2. PICK r, w, s : r \in Row /\ w \in Worker /\
            r = row[n] /\ w = task[t].owner /\ s = [r EXCEPT !.status = "LEASED", !.owner = w, !.live = TRUE]
      BY <1>2, RowIs
    <3>3. s = row'[n]
      BY <1>1, <2>2, <3>1, <3>2
    <3>4. s \in Row /\ ClaimedFrom(r, s)
      BY <3>2 DEF Row, Open, ClaimedFrom, Kept, Wears
    <3> QED
      BY <1>1, <3>1, <3>2, <3>3, <3>4 DEF RowStep
  <2> QED
    BY <2>1, <2>2
<1>4. row' \in [Note -> Row]
  BY <1>1, <1>3
<1>5. log' \in [Note -> Seq(Outcome)]
  BY <1>1, TypeParts DEF IInv
<1> QED
  BY <1>3, <1>4, <1>5 DEF RowFacts

LEMMA RetentionRows == ASSUME IInv, MaintainRetention PROVE RowFacts
<1>1. row' = [n \in Note |-> Swept(n)] /\ log' = log /\ \A n \in Note : ~Locked(n)
  BY DEF MaintainRetention, Sweeping
<1>2. ASSUME NEW n \in Note PROVE row'[n] \in Row /\ RowStep(n)
  <2>1. PICK q \in Row : q = Swept(n) /\ q = row'[n]
    BY <1>1, SweptIs
  <2>2. Brushed(row[n], q) \/ ParkedFrom(row[n], q)
    BY <2>1, SweptIs, Untouched
  <2> QED
    BY <1>1, <2>1, <2>2 DEF RowStep
<1>3. row' \in [Note -> Row]
  BY <1>1, <1>2
<1>4. log' \in [Note -> Seq(Outcome)]
  BY <1>1, TypeParts DEF IInv
<1> QED
  BY <1>2, <1>3, <1>4 DEF RowFacts

\* A lease is renewed or runs out.
LEMMA LiveRows ==
  ASSUME IInv, NEW n \in Note, NEW b \in BOOLEAN, b => row[n].status = "LEASED",
         row' = [row EXCEPT ![n].live = b], log' = log
  PROVE  RowFacts
<1>1. PICK r, s : r \in Row /\ r = row[n] /\ s = [r EXCEPT !.live = b]
  BY RowIs
<1>2. /\ s \in Row /\ s.status = r.status /\ s.owner = r.owner /\ s.error = r.error /\ s.live = b
      /\ s.attempts = r.attempts /\ s.max = r.max /\ s.request = r.request
      /\ s.activation = r.activation /\ s.body = r.body
  BY <1>1 DEF Row
<1>3. Brushed(r, s)
  BY <1>1, <1>2 DEF Brushed, Kept, Wears
<1>4. row' = [row EXCEPT ![n] = s] /\ log' \in [Note -> Seq(Outcome)]
  BY <1>1, TypeParts DEF IInv
<1>5. ASSUME row'[n] = s PROVE RowStep(n)
  BY <1>1, <1>3, <1>5 DEF RowStep
<1> QED
  BY <1>2, <1>4, <1>5, OneRow

LEMMA HeartbeatRows == ASSUME IInv, NEW t \in Task, HeartbeatRemaining(t) PROVE RowFacts
<1>1. CASE UNCHANGED row
  BY <1>1, NoRow DEF HeartbeatRemaining
<1>2. CASE ~UNCHANGED row
  <2>1. /\ row' = [n \in Note |-> [row[n] EXCEPT !.live = @ \/ n \in task[t].batch]] /\ log' = log
        /\ \A n \in task[t].batch : row[n].status = "LEASED"
    BY <1>2 DEF HeartbeatRemaining, Held
  <2>2. ASSUME NEW n \in Note PROVE row'[n] \in Row /\ RowStep(n)
    <3>1. PICK r, b, s : r \in Row /\ b \in BOOLEAN /\
            r = row[n] /\ b = (row[n].live \/ n \in task[t].batch) /\ s = [r EXCEPT !.live = b]
      BY RowIs
    <3>2. s = row'[n]
      BY <2>1, <3>1
    <3>3. /\ s \in Row /\ s.status = r.status /\ s.owner = r.owner /\ s.error = r.error /\ s.live = b
          /\ s.attempts = r.attempts /\ s.max = r.max /\ s.request = r.request
          /\ s.activation = r.activation /\ s.body = r.body
      BY <3>1 DEF Row
    <3>4. b => r.status = "LEASED"
      BY <2>1, <3>1, RowIs DEF RowOK
    <3>5. Brushed(r, s)
      BY <3>3, <3>4 DEF Brushed, Kept, Wears
    <3> QED
      BY <2>1, <3>1, <3>2, <3>3, <3>5 DEF RowStep
  <2>3. row' \in [Note -> Row]
    BY <2>1, <2>2
  <2>4. log' \in [Note -> Seq(Outcome)]
    BY <2>1, TypeParts DEF IInv
  <2> QED
    BY <2>2, <2>3, <2>4 DEF RowFacts
<1> QED
  BY <1>1, <1>2

LEMMA TaskNotes ==
  ASSUME IInv, NEW t \in Task
  PROVE  /\ task[t] \in TaskRow
         /\ task[t].pc \notin {"idle", "ready"} => task[t].note \in Note
         /\ task[t].batch \subseteq Note /\ task[t].owner \in Worker
<1>1. task[t] \in TaskRow
  BY TypeParts DEF IInv
<1> QED
  BY <1>1 DEF IInv, TaskSound, TaskRow

LEMMA FreezeRows == ASSUME IInv, NEW t \in Task, FreezeRequest(t) PROVE RowFacts
<1>1. PICK n \in Note : n = task[t].note
  BY TaskNotes DEF FreezeRequest
<1>2. CASE UNCHANGED row
  BY <1>2, NoRow DEF FreezeRequest
<1>3. CASE ~UNCHANGED row
  <2>1. /\ row' = [row EXCEPT ![n].request = "kept", ![n].body = @ + 1, ![n].activation = task[t].activation]
        /\ log' = log /\ ~Locked(n) /\ Held(n, t) /\ row[n].request = "none"
    BY <1>1, <1>3 DEF FreezeRequest
  <2>2. task[t].activation \in Activation
    BY TaskNotes DEF FreezeRequest, IInv, TaskSound, TaskRow
  <2>3. row[n].body = 0
    BY <2>1 DEF IInv, BodySound
  <2>4. PICK r, a, s :
          /\ r \in Row /\ a \in Activation /\ r = row[n] /\ a = task[t].activation
          /\ s = [r EXCEPT !.request = "kept", !.body = 1, !.activation = a]
    BY <2>2, RowIs
  <2>5. /\ s \in Row /\ s.status = r.status /\ s.owner = r.owner /\ s.live = r.live /\ s.error = r.error
        /\ s.attempts = r.attempts /\ s.max = r.max /\ s.request = "kept"
        /\ s.activation = a /\ s.body = 1
    <3>0. "kept" \in Material /\ 1 \in 0..2 /\ a \in Activation \cup {NoActivation}
      BY <2>4 DEF Material
    <3>1. s \in Row
      BY <2>4, <3>0 DEF Row
    <3>2. /\ s.status = r.status /\ s.owner = r.owner /\ s.live = r.live /\ s.error = r.error
          /\ s.attempts = r.attempts /\ s.max = r.max
      BY <2>4 DEF Row
    <3>3. s.request = "kept" /\ s.activation = a /\ s.body = 1
      BY <2>4 DEF Row
    <3> QED
      BY <3>1, <3>2, <3>3
  <2>6. FrozenFrom(r, s)
    BY <2>1, <2>3, <2>4, <2>5, NullNames DEF FrozenFrom, Held
  <2>7. row' = [row EXCEPT ![n] = s]
    <3>1. row' = [row EXCEPT ![n] = [row[n] EXCEPT !.request = "kept", !.body = 0 + 1, !.activation = a]]
      BY <2>1, <2>3, <2>4
    <3> QED
      BY <2>4, <3>1
  <2>8. log' \in [Note -> Seq(Outcome)]
    BY <2>1, TypeParts DEF IInv
  <2>9. row'[n] = s => RowStep(n)
    BY <2>1, <2>4, <2>6 DEF RowStep
  <2> QED
    BY <2>1, <2>5, <2>7, <2>8, <2>9, OneRow
<1> QED
  BY <1>2, <1>3

\* The row a batch leaves behind at the end of a delivery.
LEMMA ConcludedIs ==
  ASSUME IInv, NEW t \in Task, NEW n \in Note, n = task[t].note, task[t].pc \in {"ending", "writing"},
         Recordable(t), task[t].verdict \in Outcome
  PROVE  LET s == Concluded(t) IN
         /\ s \in Row /\ s.status = FinalStatus(t) /\ s.owner = NoWorker /\ ~s.live /\ s.error # "activation"
         /\ s.attempts = row[n].attempts + 1 /\ s.max = row[n].max /\ s.body = row[n].body
         /\ s.activation = row[n].activation
         /\ Wears(row[n], s)
<1>final. FinalStatus(t) \in Closed \cup {"PAUSED", "RETRY"}
  BY DEF FinalStatus, Closed
<1>number. Number(t) = row[n].attempts + 1 /\ Number(t) \in Attempts
  <2>1. Number(t) = row[n].attempts + 1
    BY RowIs DEF Recordable
  <2>2. row[n].attempts < row[n].max /\ row[n].max \in Attempts
    <3>1. Lively(n)
      BY DEF Recordable, Held, Lively
    <3> QED
      BY <3>1, RowIs DEF IInv, Retried, Row
  <2>3. Number(t) \in Attempts
    <3>1. PICK i \in Nat, j \in Attempts : i = row[n].attempts /\ j = row[n].max /\ i < j
      BY <2>2, RowIs
    <3>2. i + 1 \in Attempts
      BY <3>1, Naturals
    <3> QED
      BY <2>1, <3>1, <3>2
  <2> QED
    BY <2>1, <2>3
<1>r. PICK r \in Row : r = row[n]
  BY RowIs
<1>status. PICK status \in Closed \cup {"PAUSED", "RETRY"} : status = FinalStatus(t)
  BY <1>final
<1>error. PICK error \in {"outcome", "other"} :
         error = IF task[t].verdict = "TIMED_OUT" /\ LastAttempt(t) THEN "outcome" ELSE "other"
  OBVIOUS
<1>k. PICK k \in Attempts : k = Number(t)
  BY <1>number
<1>1. /\ r \in Row /\ status \in Closed \cup {"PAUSED", "RETRY"}
      /\ error \in {"outcome", "other"} /\ k \in Attempts
      /\ r = row[n] /\ status = FinalStatus(t)
      /\ error = IF task[t].verdict = "TIMED_OUT" /\ LastAttempt(t) THEN "outcome" ELSE "other"
      /\ k = Number(t) /\ k = r.attempts + 1
  <2>1. k = r.attempts + 1
    BY <1>number, <1>r, <1>k
  <2> QED
    BY <1>r, <1>status, <1>error, <1>k, <2>1
<1>2. {"outcome", "other"} \subseteq Error /\ Closed \cup {"PAUSED", "RETRY"} \subseteq Open \cup Closed
  BY DEF Error, Open
<1>3. PICK p : p = Parked(r, status, error)
  OBVIOUS
<1>4. /\ p \in Row /\ p.status = status /\ p.owner = NoWorker /\ ~p.live /\ p.error = error
      /\ p.attempts = r.attempts /\ p.max = r.max /\ p.request = r.request
      /\ p.activation = r.activation /\ p.body = r.body /\ p.address = r.address
  <2>1. status \in Open \cup Closed /\ error \in Error
    BY <1>1, <1>2
  <2> QED
    BY <1>1, <1>3, <2>1, ParkedFields
<1>5. PICK q : q = [p EXCEPT !.attempts = k]
  OBVIOUS
<1>6. /\ q \in Row /\ q.status = status /\ q.owner = NoWorker /\ q.live = p.live /\ q.error = error
      /\ q.attempts = k /\ q.max = r.max /\ q.request = r.request
      /\ q.activation = r.activation /\ q.body = r.body /\ q.address = r.address
  BY <1>4, <1>5 DEF Row
<1>7. PICK m \in Material, a \in {"user", "kept", "destroyed"} :
        /\ m = IF Bound(t) THEN "destroyed" ELSE r.request
        /\ a = Wiped(r.address)
  BY DEF Row, Wiped, Material
<1>8. Bound(t) => r.request # "none"
  <2>1. task[t].seen[n].activation # NoActivation => row[n].body # 0
    <3>1. task[t].seen[n].body \in Nat
      BY TaskNotes DEF TaskRow
    <3> QED
      BY <3>1, RowIs DEF IInv, SeenSound
  <2>2. task[t].body # 0 => row[n].body # 0
    <3>1. task[t].body \in Nat
      BY TaskNotes DEF TaskRow
    <3> QED
      BY <3>1, RowIs DEF IInv, TaskSound
  <2> QED
    BY <1>1, <2>1, <2>2 DEF Bound, IInv, BodySound
<1>9. PICK s : s = [q EXCEPT !.request = m, !.address = a]
  OBVIOUS
<1>10. /\ s \in Row /\ s.status = status /\ s.owner = NoWorker /\ s.live = p.live /\ s.error = error
       /\ s.attempts = k /\ s.max = r.max /\ s.request = m
       /\ s.activation = r.activation /\ s.body = r.body
  BY <1>6, <1>9 DEF Row
<1>11. Concluded(t) = IF status \notin Closed THEN q ELSE s
  BY <1>1, <1>3, <1>5, <1>6, <1>7, <1>9 DEF Concluded
<1>12. Wears(r, q) /\ Wears(r, s)
  BY <1>6, <1>7, <1>8, <1>10 DEF Wears
<1>13. PICK c : c = Concluded(t) /\ (c = q \/ c = s)
  BY <1>11
<1>14. /\ c \in Row /\ c.status = FinalStatus(t) /\ c.owner = NoWorker /\ ~c.live /\ c.error # "activation"
       /\ c.attempts = row[n].attempts + 1 /\ c.max = row[n].max /\ c.body = row[n].body
       /\ c.activation = row[n].activation
       /\ Wears(row[n], c)
  BY <1>1, <1>4, <1>6, <1>10, <1>12, <1>13
<1> HIDE DEF Concluded
<1> QED
  BY <1>13, <1>14

\* What a batch knows of a frozen request is so.
LEMMA BoundIs ==
  ASSUME IInv, NEW t \in Task, NEW n \in Note, n = task[t].note,
         task[t].pc \notin {"idle", "ready"}
  PROVE  /\ Bound(t) => row[n].request # "none"
         /\ task[t].seen[n].request = "kept" => row[n].request # "none"
<1>1. task[t].seen[n].body \in Nat /\ task[t].body \in Nat
  BY TaskNotes DEF TaskRow
<1>2. task[t].seen[n].body # 0 => row[n].body # 0
  BY <1>1, RowIs DEF IInv, SeenSound
<1>3. task[t].body # 0 => row[n].body # 0
  BY <1>1, RowIs DEF IInv, TaskSound
<1>4. task[t].seen[n].activation # NoActivation => task[t].seen[n].body # 0
  BY DEF IInv, SeenSound
<1>5. task[t].seen[n].request # "none" => task[t].seen[n].body # 0
  BY DEF IInv, SeenSound
<1>6. row[n].body # 0 => row[n].request # "none"
  BY DEF IInv, BodySound
<1> QED
  BY <1>2, <1>3, <1>4, <1>5, <1>6 DEF Bound

LEMMA MaterialKept ==
  ASSUME NEW r \in Row, NEW m \in Material, NEW a \in {"user", "kept", "destroyed"},
         m = r.request \/ (m = "destroyed" /\ r.request # "none"),
         NEW b, b = [r EXCEPT !.request = m, !.address = a]
  PROVE  b \in Row /\ Kept(r, b)
  BY DEF Row, Kept, Wears

LEMMA PausedIs ==
  ASSUME IInv, NEW t \in Task, NEW n \in Note, n = task[t].note, task[t].pc = "ending",
         Held(n, t)
  PROVE  Paused(t) \in Row /\ ParkedFrom(row[n], Paused(t))
<1>1. PICK r, v : r \in Row /\ r = row[n] /\ v = Paused(t)
  BY RowIs
<1>2. r.status = "LEASED"
  BY <1>1 DEF Held
<1>3. Wiped(r.address) \in {"user", "kept", "destroyed"} /\ r.request \in Material
      /\ "destroyed" \in Material
  BY <1>1 DEF Row, Wiped, Material
<1>4. PICK b \in Row : 
          /\ Kept(r, b)
          /\ b = [r EXCEPT !.request = IF task[t].seen[n].request = "kept" THEN "destroyed" ELSE @,
                           !.address = Wiped(@)]
  <2>1. PICK m \in Material, a \in {"user", "kept", "destroyed"} :
          m = (IF task[t].seen[n].request = "kept" THEN "destroyed" ELSE r.request) /\ a = Wiped(r.address)
    BY <1>3
  <2>2. m = r.request \/ (m = "destroyed" /\ r.request # "none")
    BY <1>1, <2>1, BoundIs
  <2>3. PICK b : b = [r EXCEPT !.request = m, !.address = a]
    OBVIOUS
  <2>4. b \in Row /\ Kept(r, b)
    BY <1>1, <2>2, <2>3, MaterialKept
  <2> QED
    BY <2>1, <2>3, <2>4
<1>5. PICK c \in Row : Kept(r, c) /\ c = [r EXCEPT !.address = "destroyed"]
  <2>1. PICK c : c = [r EXCEPT !.address = "destroyed"]
    OBVIOUS
  <2>2. c \in Row /\ Kept(r, c)
    BY <1>1, <2>1 DEF Row, Kept, Wears
  <2> QED
    BY <2>1, <2>2
<1>6. Bound(t) => \E d \in Row : Kept(r, d) /\ d = [r EXCEPT !.request = "destroyed", !.address = "destroyed"]
  <2>1. ASSUME Bound(t) PROVE \E d \in Row : Kept(r, d) /\ d = [r EXCEPT !.request = "destroyed", !.address = "destroyed"]
    <3>1. r.request # "none"
      BY <1>1, <2>1, BoundIs
    <3>2. PICK m \in Material, a \in {"user", "kept", "destroyed"} : m = "destroyed" /\ a = "destroyed"
      BY DEF Material
    <3>3. PICK d : d = [r EXCEPT !.request = m, !.address = a]
      OBVIOUS
    <3>4. d \in Row /\ Kept(r, d)
      BY <1>1, <3>1, <3>2, <3>3, MaterialKept
    <3> QED
      BY <3>2, <3>3, <3>4
  <2> QED
    BY <2>1
<1>7. \E q \in Row, status \in {"PAUSED", "SUPPRESSED"}, error \in {"activation", "outcome", "other"} :
        Kept(r, q) /\ v = Parked(q, status, error)
  <2>1. CASE task[t].verdict = "noActivation"
    <3>1. v = Parked(r, "PAUSED", "activation") /\ Kept(r, r)
      BY <1>1, <2>1 DEF Paused, Kept, Wears
    <3> QED
      BY <1>1, <3>1
  <2>2. CASE task[t].verdict = "changed"
    <3>1. v = Parked(b, "PAUSED", "other")
      BY <1>1, <1>4, <2>2 DEF Paused
    <3> QED
      BY <1>4, <3>1
  <2>3. CASE task[t].verdict = "expired"
    <3>1. v = Parked(b, "PAUSED", "outcome")
      BY <1>1, <1>4, <2>3 DEF Paused
    <3> QED
      BY <1>4, <3>1
  <2>4. CASE task[t].verdict = "addressExpired" /\ Bound(t)
    <3>1. PICK d \in Row : Kept(r, d) /\ d = [r EXCEPT !.request = "destroyed", !.address = "destroyed"]
      BY <1>6, <2>4
    <3>2. v = Parked(d, "PAUSED", "other")
      BY <1>1, <2>4, <3>1 DEF Paused
    <3> QED
      BY <3>1, <3>2
  <2>5. CASE /\ task[t].verdict \notin {"noActivation", "changed", "expired"}
             /\ ~(task[t].verdict = "addressExpired" /\ Bound(t))
    <3>1. v = Parked(c, "SUPPRESSED", "other")
      BY <1>1, <1>5, <2>5 DEF Paused
    <3> QED
      BY <1>5, <3>1
  <2> QED
    BY <2>1, <2>2, <2>3, <2>4, <2>5
<1>8. PICK q \in Row, status \in {"PAUSED", "SUPPRESSED"}, error \in {"activation", "outcome", "other"} :
        Kept(r, q) /\ v = Parked(q, status, error)
  BY <1>7
<1>9. /\ v \in Row /\ v.status = status /\ v.owner = NoWorker /\ ~v.live /\ v.error = error
      /\ v.attempts = q.attempts /\ v.max = q.max /\ v.request = q.request
      /\ v.activation = q.activation /\ v.body = q.body
  <2>1. status \in Open \cup Closed /\ error \in Error
    BY DEF Open, Closed, Error
  <2> QED
    BY <1>8, <2>1, ParkedFields
<1>10. ParkedFrom(r, v)
  BY <1>2, <1>8, <1>9 DEF ParkedFrom, Kept, Wears, Open
<1> QED
  BY <1>1, <1>9, <1>10

LEMMA PauseRows == ASSUME IInv, NEW t \in Task, Pause(t) PROVE RowFacts
<1>1. PICK n \in Note : n = task[t].note
  BY TaskNotes DEF Pause
<1>2. CASE UNCHANGED row
  BY <1>2, NoRow DEF Pause
<1>3. CASE ~UNCHANGED row
  <2>1. row' = [row EXCEPT ![n] = Paused(t)] /\ Held(n, t) /\ ~Locked(n) /\ log' = log /\ task[t].pc = "ending"
    BY <1>1, <1>3 DEF Pause
  <2>2. PICK s \in Row : s = Paused(t) /\ ParkedFrom(row[n], s)
    BY <1>1, <2>1, PausedIs
  <2>3. row' = [row EXCEPT ![n] = s]
    BY <2>1, <2>2
  <2>4. row'[n] = s => RowStep(n)
    BY <2>1, <2>2 DEF RowStep
  <2>5. log' \in [Note -> Seq(Outcome)]
    BY <2>1, TypeParts DEF IInv
  <2> QED
    BY <2>1, <2>3, <2>4, <2>5, OneRow
<1> QED
  BY <1>2, <1>3

\* An attempt is appended to one log.
LEMMA OneLog ==
  ASSUME IInv, NEW n \in Note, NEW v \in Outcome, log' = [log EXCEPT ![n] = Append(@, v)]
  PROVE  /\ log' \in [Note -> Seq(Outcome)] /\ log'[n] = Append(log[n], v)
         /\ \A m \in Note : m # n => log'[m] = log[m]
<1>1. log \in [Note -> Seq(Outcome)] /\ log[n] \in Seq(Outcome)
  BY TypeParts DEF IInv
<1>2. PICK l \in Seq(Outcome) : l = Append(log[n], v)
  <2>1. Append(log[n], v) \in Seq(Outcome)
    BY <1>1
  <2> QED
    BY <2>1
<1>3. log' = [log EXCEPT ![n] = l]
  BY <1>2
<1> QED
  BY <1>1, <1>2, <1>3

LEMMA EventIs ==
  ASSUME IInv
  PROVE  /\ event \in [Note -> {"none", "RECEIVED", "PROJECTED", "IGNORED"}]
         /\ hook \in [Note -> {"idle", "blind", "sighted"}]
  BY TypeParts DEF IInv

LEMMA DoneIs ==
  ASSUME IInv, NEW t \in Task, Done(t) \/ Stop(t)
  PROVE  task'[t].pc \in {"idle", "ready"}
<1>1. task \in [Task -> TaskRow]
  BY TypeParts DEF IInv
<1>2. CASE Done(t)
  <2>1. task'[t] = Rest(t)
    BY <1>1, <1>2 DEF Done
  <2> QED
    BY <2>1 DEF Rest, Idle
<1>3. CASE Stop(t)
  <2>1. task'[t] = Idle(task[t].owner)
    BY <1>1, <1>3 DEF Stop
  <2> QED
    BY <2>1 DEF Idle
<1> QED
  BY <1>2, <1>3

LEMMA FinalRows ==
  ASSUME IInv, NEW t \in Task, NEW n \in Note, n = task[t].note, Recordable(t),
         task[t].verdict \in Outcome,
         \/ task[t].pc = "ending" /\ task[t].verdict # "ACCEPTED" /\ ~Locked(n)
         \/ task[t].pc = "writing" /\ task[t].verdict = "ACCEPTED",
         row' = [row EXCEPT ![n] = Concluded(t)],
         log' = [log EXCEPT ![n] = Append(@, task[t].verdict)],
         task'[t].pc \in {"idle", "ready"},
         task[t].pc = "writing" /\ task[t].sawEvent => event'[n] # "RECEIVED",
         task[t].pc = "writing" /\ event[n] # "RECEIVED" => event'[n] # "RECEIVED"
  PROVE  RowFacts
<1>1. PICK s \in Row :
        /\ s = Concluded(t)
        /\ s.status = FinalStatus(t) /\ s.owner = NoWorker /\ ~s.live /\ s.error # "activation"
        /\ s.attempts = row[n].attempts + 1 /\ s.max = row[n].max /\ s.body = row[n].body
        /\ s.activation = row[n].activation
        /\ Wears(row[n], s)
  <2>1. task[t].pc \in {"ending", "writing"}
    OBVIOUS
  <2>2. PICK s : s = Concluded(t)
    OBVIOUS
  <2> QED
    BY <2>1, <2>2, ConcludedIs
<1>2. row' = [row EXCEPT ![n] = s]
  BY <1>1
<1>3. /\ log' \in [Note -> Seq(Outcome)] /\ log'[n] = Append(log[n], task[t].verdict)
      /\ \A m \in Note : m # n => log'[m] = log[m]
  BY OneLog
<1>4. EndedBy(t, n, row[n], s)
  BY <1>1, <1>3 DEF EndedBy
<1>5. row'[n] = s => RowStep(n)
  BY <1>4 DEF RowStep
<1> QED
  BY <1>2, <1>3, <1>5, OneRow

LEMMA FinalizeRows == ASSUME IInv, NEW t \in Task, Finalize(t) PROVE RowFacts
<1>1. PICK n \in Note : n = task[t].note
  BY TaskNotes DEF Finalize
<1>2. CASE ~Recordable(t)
  BY <1>2, NoRow DEF Finalize
<1>3. CASE Recordable(t)
  <2>1. /\ row' = [row EXCEPT ![n] = Concluded(t)] /\ log' = [log EXCEPT ![n] = Append(@, task[t].verdict)]
        /\ ~Locked(n) /\ task[t].pc = "ending" /\ task[t].verdict \in Outcome /\ task[t].verdict # "ACCEPTED"
    BY <1>1, <1>3 DEF Finalize
  <2>2. task'[t].pc \in {"idle", "ready"}
    BY <1>3, DoneIs DEF Finalize
  <2> QED
    BY <1>1, <1>3, <2>1, <2>2, FinalRows
<1> QED
  BY <1>2, <1>3

LEMMA CommitRows == ASSUME IInv, NEW t \in Task, CommitAccepted(t) PROVE RowFacts
<1>1. PICK n \in Note : n = task[t].note
  BY TaskNotes DEF CommitAccepted
<1>2. Recordable(t) /\ task[t].verdict = "ACCEPTED"
  BY DEF IInv, WriterSound, CommitAccepted
<1>3. /\ row' = [row EXCEPT ![n] = Concluded(t)] /\ log' = [log EXCEPT ![n] = Append(@, task[t].verdict)]
      /\ task[t].pc = "writing" /\ task[t].verdict \in Outcome
  BY <1>1, <1>2 DEF CommitAccepted, Outcome
<1>4. task'[t].pc \in {"idle", "ready"}
  BY DoneIs DEF CommitAccepted
<1>5. event'[n] = IF task[t].sawEvent THEN "PROJECTED" ELSE event[n]
  BY <1>1, EventIs DEF CommitAccepted
<1>6. /\ task[t].sawEvent => event'[n] # "RECEIVED"
      /\ event[n] # "RECEIVED" => event'[n] # "RECEIVED"
  BY <1>5
<1> QED
  BY <1>1, <1>2, <1>3, <1>4, <1>6, FinalRows

\* A row an operator may decide has all its attempts, and one more can be numbered.
LEMMA OpenIs ==
  ASSUME IInv, NEW n \in Note, Reconcilable(n)
  PROVE  /\ Open2(n, row[n]) /\ row[n].attempts <= MaxAttempts + MaxReleases
         /\ row[n].attempts + 1 \in Attempts \ {0}
<1>1. Open2(n, row[n]) /\ row[n].status = "PAUSED" /\ row[n].attempts = row[n].max
  BY DEF Reconcilable, Open2
<1>2. row[n].max <= MaxAttempts + MaxReleases
  BY <1>1 DEF IInv, BodySound
<1> QED
  BY <1>1, <1>2, RowIs, Naturals

LEMMA CloseRows == ASSUME IInv, NEW n \in Note, TerminalizeAccepted(n) PROVE RowFacts
<1>1. /\ Reconcilable(n) /\ mail[n].count > 0 /\ log' = [log EXCEPT ![n] = Append(@, "ACCEPTED")]
      /\ row' = [row EXCEPT ![n] = [Bare(Parked(row[n], "DELIVERED", "other"))
                EXCEPT !.attempts = row[n].attempts + 1, !.max = row[n].attempts + 1]]
  BY DEF TerminalizeAccepted
<1>2. PICK r \in Row, k \in Attempts \ {0} : r = row[n] /\ k = r.attempts + 1
  BY <1>1, RowIs, OpenIs
<1>3. PICK p : p = Parked(r, "DELIVERED", "other")
  OBVIOUS
<1>4. /\ p \in Row /\ p.status = "DELIVERED" /\ p.owner = NoWorker /\ ~p.live
      /\ p.attempts = r.attempts /\ p.request = r.request
      /\ p.activation = r.activation /\ p.body = r.body
  <2>1. "DELIVERED" \in Open \cup Closed /\ "other" \in Error
    BY DEF Closed, Error
  <2> QED
    BY <1>3, <2>1, ParkedFields
<1>5. PICK b : b = Bare(p)
  OBVIOUS
<1>6. /\ b \in Row /\ b.status = "DELIVERED" /\ b.owner = NoWorker /\ b.live = p.live
      /\ b.attempts = r.attempts /\ Wears(r, b)
      /\ b.activation = r.activation /\ b.body = r.body
  BY <1>4, <1>5, BareFields DEF Wears
<1>7. PICK s : s = [b EXCEPT !.attempts = k, !.max = k]
  OBVIOUS
<1>8. /\ s \in Row /\ s.status = b.status /\ s.owner = b.owner /\ s.live = b.live
      /\ s.attempts = k /\ s.max = k /\ s.request = b.request
      /\ s.activation = b.activation /\ s.body = b.body
  <2>1. k \in Attempts
    BY <1>2
  <2> QED
    BY <1>2, <1>6, <1>7, <2>1 DEF Row
<1>9. row' = [row EXCEPT ![n] = s]
  <2>1. b = Bare(Parked(row[n], "DELIVERED", "other")) /\ row[n].attempts + 1 = k
    BY <1>2, <1>3, <1>5
  <2> QED
    BY <1>1, <1>7, <2>1
<1>10. /\ log' \in [Note -> Seq(Outcome)] /\ log'[n] = Append(log[n], "ACCEPTED")
       /\ \A m \in Note : m # n => log'[m] = log[m]
  <2>1. "ACCEPTED" \in Outcome
    BY DEF Outcome
  <2> QED
    BY <1>1, <2>1, OneLog
<1>11. ClosedBy(n, r, s)
  <2>1. event'[n] = IF event[n] = "RECEIVED" THEN "PROJECTED" ELSE event[n]
    BY EventIs DEF TerminalizeAccepted
  <2>2. event'[n] # "RECEIVED"
    BY <2>1
  <2> QED
    BY <1>1, <1>2, <1>4, <1>6, <1>8, <1>10, <2>2, OpenIs DEF ClosedBy, Wears
<1>12. row'[n] = s => RowStep(n)
  BY <1>2, <1>11 DEF RowStep
<1> QED
  BY <1>8, <1>9, <1>10, <1>12, OneRow

LEMMA ReleaseRows == ASSUME IInv, NEW n \in Note, ReleaseNotAccepted(n) PROVE RowFacts
<1>1. /\ Reconcilable(n) /\ log' = log /\ row[n].attempts < MaxAttempts + MaxReleases
      /\ row' = [row EXCEPT ![n] = [Parked(@, "RETRY", "other") EXCEPT !.max = row[n].attempts + 1]]
  BY DEF ReleaseNotAccepted
<1>2. PICK r \in Row, k \in Attempts \ {0} : r = row[n] /\ k = r.attempts + 1
  BY <1>1, RowIs, OpenIs
<1>3. PICK p : p = Parked(r, "RETRY", "other")
  OBVIOUS
<1>4. /\ p \in Row /\ p.status = "RETRY" /\ p.owner = NoWorker /\ ~p.live
      /\ p.attempts = r.attempts /\ p.request = r.request
      /\ p.activation = r.activation /\ p.body = r.body
  <2>1. "RETRY" \in Open \cup Closed /\ "other" \in Error
    BY DEF Open, Error
  <2> QED
    BY <1>3, <2>1, ParkedFields
<1>5. PICK s : s = [p EXCEPT !.max = k]
  OBVIOUS
<1>6. /\ s \in Row /\ s.status = p.status /\ s.owner = p.owner /\ s.live = p.live
      /\ s.attempts = p.attempts /\ s.max = k /\ s.request = p.request
      /\ s.activation = p.activation /\ s.body = p.body
  BY <1>2, <1>4, <1>5 DEF Row
<1>7. row' = [row EXCEPT ![n] = s]
  BY <1>1, <1>2, <1>3, <1>5
<1>8. ReleasedBy(n, r, s)
  BY <1>1, <1>2, <1>4, <1>6, OpenIs DEF ReleasedBy, Wears
<1>9. log' \in [Note -> Seq(Outcome)]
  BY <1>1, TypeParts DEF IInv
<1>10. row'[n] = s => RowStep(n)
  BY <1>1, <1>2, <1>8 DEF RowStep
<1> QED
  BY <1>1, <1>6, <1>7, <1>9, <1>10, OneRow

LEMMA StartRows == ASSUME IInv, NEW t \in Task, StartDelivery(t) PROVE RowFacts
<1>1. CASE UNCHANGED row
  BY <1>1, NoRow DEF StartDelivery
<1>2. CASE ~UNCHANGED row
  <2>1. PICK n \in task[t].batch : row' = [row EXCEPT ![n].live = TRUE] /\ Held(n, t)
    BY <1>2 DEF StartDelivery
  <2>2. n \in Note /\ log' = log
    BY TaskNotes DEF StartDelivery
  <2> QED
    BY <2>1, <2>2, LiveRows DEF Held
<1> QED
  BY <1>1, <1>2

LEMMA SendRows == ASSUME IInv, NEW t \in Task, Send(t) PROVE RowFacts
<1>1. PICK n \in Note : n = task[t].note
  BY TaskNotes DEF Send
<1>2. CASE UNCHANGED row
  BY <1>2, NoRow DEF Send
<1>3. CASE ~UNCHANGED row
  <2>1. row' = [row EXCEPT ![n].live = TRUE] /\ Held(n, t) /\ log' = log
    BY <1>1, <1>3 DEF Send
  <2> QED
    BY <2>1, LiveRows DEF Held
<1> QED
  BY <1>2, <1>3

\* Every step is, row by row, one of the steps above.
LEMMA RowFollows == ASSUME IInv, [Next]_vars PROVE RowFacts
<1>1. ASSUME NEW t \in Task, BeginBatch(t) PROVE RowFacts
  <2>1. PICK S \in SUBSET {n \in Note : Claimable(Swept(n), n)} :
          Sweeping([n \in Note |-> IF n \notin S THEN Swept(n)
            ELSE [Swept(n) EXCEPT !.status = "LEASED", !.owner = task[t].owner, !.live = TRUE]])
    BY <1>1 DEF BeginBatch
  <2> QED
    BY <2>1, SweepRows
<1>2. ASSUME NEW n \in Note, ExpireLease(n) PROVE RowFacts
  BY <1>2, LiveRows DEF ExpireLease
<1>3. ASSUME NEW t \in Task, HeartbeatRemaining(t) \/ StartDelivery(t) \/ FreezeRequest(t) \/ Send(t)
      PROVE  RowFacts
  BY <1>3, HeartbeatRows, StartRows, FreezeRows, SendRows
<1>4. ASSUME NEW t \in Task, Finalize(t) \/ CommitAccepted(t) \/ Pause(t) PROVE RowFacts
  BY <1>4, FinalizeRows, CommitRows, PauseRows
<1>5. ASSUME NEW n \in Note, TerminalizeAccepted(n) \/ ReleaseNotAccepted(n) PROVE RowFacts
  BY <1>5, CloseRows, ReleaseRows
<1> QED
  BY <1>1, <1>2, <1>3, <1>4, <1>5, RowMovers, NoRow, RetentionRows

-----------------------------------------------------------------------------
(* What one step does to a batch *)

Carried(t) == task'[t].note = task[t].note /\ task'[t].late = task[t].late /\ task'[t].seen = task[t].seen
Rested(t) ==
  /\ task'[t].pc \in {"idle", "ready"} /\ task'[t].body = 0 /\ ~task'[t].late
  /\ \A n \in Note : task'[t].seen[n] \in {task[t].seen[n], Unread, Snapshot(row[n])}
Started(t) ==
  /\ task[t].pc = "ready" /\ task'[t].pc = "started" /\ task'[t].note \in Note
  /\ task'[t].body = task[t].body /\ task'[t].seen = task[t].seen
  /\ task'[t].late <=> age[task'[t].note] # "new"
Examined(t) ==
  /\ task[t].pc = "started" /\ Carried(t) /\ task'[t].activation # NoActivation
  /\ \/ task'[t].pc = "examined" /\ task'[t].body = task[t].body
     \/ /\ task'[t].pc = "frozen" /\ ~task[t].late
        /\ task[t].seen[task[t].note].request = "kept" /\ task'[t].body = task[t].seen[task[t].note].body
Froze(t) ==
  /\ task[t].pc = "examined" /\ task'[t].pc = "frozen" /\ Carried(t)
  /\ task'[t].activation = task[t].activation /\ task'[t].body = 1
  /\ row[task[t].note].body = 0 /\ row'[task[t].note].body = 1
Waiting(t) ==
  /\ task[t].pc = "frozen" /\ task'[t].pc = "waiting" /\ Carried(t)
  /\ task'[t].activation = task[t].activation /\ task'[t].body = task[t].body
Ending(t) ==
  /\ task[t].pc \in InHand /\ task'[t].pc = "ending" /\ Carried(t) /\ task'[t].body = task[t].body
  /\ task'[t].verdict = "ACCEPTED" => mail'[task[t].note].count = 1
Writing(t) ==
  /\ task[t].pc = "ending" /\ task[t].verdict = "ACCEPTED" /\ task'[t].pc = "writing" /\ Carried(t)
  /\ task'[t].body = task[t].body /\ task'[t].verdict = task[t].verdict
  /\ Recordable(t) /\ ReceiptFree(task[t].note)
  /\ task'[t].sawEvent <=> event[task[t].note] = "RECEIVED"
  /\ UNCHANGED <<row, log, event, hook>>

TaskStep(t) ==
  /\ task'[t].owner = task[t].owner
  /\ \/ task'[t] = task[t]
     \/ Rested(t) \/ Started(t) \/ Examined(t) \/ Froze(t) \/ Waiting(t) \/ Ending(t) \/ Writing(t)
TaskFacts ==
  /\ task' \in [Task -> TaskRow] /\ \A t \in Task : TaskStep(t)
  /\ \A t, u \in Task : t = u \/ task'[t] = task[t] \/ task'[u] = task[u]

LEMMA OneTask ==
  ASSUME IInv, NEW t \in Task, NEW x \in TaskRow, task' = [task EXCEPT ![t] = x],
         task'[t] = x => TaskStep(t)
  PROVE  TaskFacts
<1>1. task \in [Task -> TaskRow]
  BY TypeParts DEF IInv
<1>2. task' \in [Task -> TaskRow] /\ task'[t] = x /\ \A u \in Task : u # t => task'[u] = task[u]
  BY <1>1
<1>3. ASSUME NEW u \in Task PROVE TaskStep(u)
  <2>1. CASE u = t
    BY <1>2, <2>1
  <2>2. CASE u # t
    BY <1>2, <2>2 DEF TaskStep
  <2> QED
    BY <2>1, <2>2
<1>4. \A u, v \in Task : u = v \/ task'[u] = task[u] \/ task'[v] = task[v]
  BY <1>2
<1> QED
  BY <1>2, <1>3, <1>4 DEF TaskFacts

LEMMA NoTask == ASSUME IInv, task' = task PROVE TaskFacts
  BY TypeParts DEF IInv, TaskFacts, TaskStep

LEMMA UnreadIs == Unread \in Seen
<1>1. 0 \in Attempts /\ 1 \in Attempts \ {0}
  BY Naturals
<1>2. "none" \in Material
  BY DEF Material
<1> QED
  BY <1>1, <1>2 DEF Unread, Seen

LEMMA IdleIs ==
  ASSUME NEW o \in Worker
  PROVE  /\ Idle(o) \in TaskRow /\ Idle(o).pc = "idle" /\ Idle(o).owner = o /\ Idle(o).body = 0
         /\ ~Idle(o).late /\ Idle(o).seen = [n \in Note |-> Unread] /\ Idle(o).batch = {}
<1>1. "ACCEPTED" \in Verdict
  BY DEF Verdict, Outcome
<1>2. [n \in Note |-> Unread] \in [Note -> Seen]
  BY UnreadIs
<1>3. Idle(o) \in TaskRow
  BY <1>1, <1>2 DEF Idle, TaskRow, Seen
<1> QED
  BY <1>3 DEF Idle

LEMMA StopTasks == ASSUME IInv, NEW t \in Task, Stop(t) PROVE TaskFacts
<1>1. task[t].owner \in Worker /\ task \in [Task -> TaskRow]
  BY TaskNotes, TypeParts DEF IInv
<1>2. PICK x : x = Idle(task[t].owner)
  OBVIOUS
<1>3. x \in TaskRow /\ x.pc = "idle" /\ x.owner = task[t].owner /\ x.body = 0 /\ ~x.late /\ x.seen = [n \in Note |-> Unread]
  BY <1>1, <1>2, IdleIs
<1>4. task' = [task EXCEPT ![t] = x]
  BY <1>2 DEF Stop
<1>5. ASSUME task'[t] = x PROVE TaskStep(t)
  BY <1>3, <1>5 DEF TaskStep, Rested
<1> QED
  BY <1>3, <1>4, <1>5, OneTask

LEMMA DoneTasks == ASSUME IInv, NEW t \in Task, Done(t) PROVE TaskFacts
<1>1. task[t].owner \in Worker /\ task[t] \in TaskRow /\ task[t].batch \subseteq Note
  BY TaskNotes
<1>2. CASE task[t].batch = {}
  BY <1>2, StopTasks DEF Done, Rest, Stop
<1>3. CASE task[t].batch # {}
  <2>1. PICK i : i = Idle(task[t].owner)
    OBVIOUS
  <2>2. i \in TaskRow /\ i.owner = task[t].owner /\ i.body = 0 /\ ~i.late
    BY <1>1, <2>1, IdleIs
  <2>3. PICK b, s : b = task[t].batch /\ s = [n \in Note |-> IF n \in task[t].batch THEN task[t].seen[n] ELSE Unread]
    OBVIOUS
  <2>4. task[t].seen \in [Note -> Seen]
    BY <1>1 DEF TaskRow, Seen
  <2>5. s \in [Note -> Seen] /\ b \subseteq Note
    BY <1>1, <2>3, <2>4, UnreadIs
  <2>6. PICK x : x = [i EXCEPT !.pc = "ready", !.batch = b, !.seen = s]
    OBVIOUS
  <2>7. x \in TaskRow /\ x.owner = task[t].owner /\ x.body = 0 /\ ~x.late /\ x.pc = "ready" /\ x.seen = s
    BY <2>2, <2>5, <2>6 DEF TaskRow, Seen
  <2>8. task' = [task EXCEPT ![t] = x]
    BY <1>3, <2>1, <2>3, <2>6 DEF Done, Rest
  <2>9. ASSUME task'[t] = x PROVE TaskStep(t)
    <3>1. \A n \in Note : s[n] \in {task[t].seen[n], Unread, Snapshot(row[n])}
      BY <2>3
    <3> QED
      BY <2>7, <2>9, <3>1 DEF TaskStep, Rested
  <2> QED
    BY <2>7, <2>8, <2>9, OneTask
<1> QED
  BY <1>2, <1>3

LEMMA DecideTasks ==
  ASSUME IInv, NEW t \in Task, NEW v \in Verdict, Decide(t, v), task[t].pc \in InHand,
         v = "ACCEPTED" => mail'[task[t].note].count = 1
  PROVE  TaskFacts
<1>1. task[t] \in TaskRow /\ task \in [Task -> TaskRow]
  BY TaskNotes, TypeParts DEF IInv
<1>2. PICK x : x = [task[t] EXCEPT !.pc = "ending", !.verdict = v]
  OBVIOUS
<1>3. /\ x \in TaskRow /\ x.pc = "ending" /\ x.verdict = v /\ x.owner = task[t].owner
      /\ x.note = task[t].note /\ x.late = task[t].late /\ x.seen = task[t].seen /\ x.body = task[t].body
  BY <1>1, <1>2 DEF TaskRow
<1>4. task' = [task EXCEPT ![t] = x]
  BY <1>1, <1>2 DEF Decide
<1>5. ASSUME task'[t] = x PROVE TaskStep(t)
  BY <1>3, <1>5 DEF TaskStep, Ending, Carried
<1> QED
  BY <1>3, <1>4, <1>5, OneTask

LEMMA Verdicts ==
  /\ Objections \subseteq Verdict /\ Outcome \subseteq Verdict
  /\ {"noActivation", "changed", "expired", "addressExpired", "TRANSIENT_FAILURE", "TIMED_OUT",
      "CONFIGURATION_ERROR", "PERMANENT_FAILURE", "BOUNCED", "ACCEPTED"} \subseteq Verdict
  /\ "ACCEPTED" \notin Objections
  BY DEF Objections, Verdict, Outcome

LEMMA BeginTasks == ASSUME IInv, NEW t \in Task, BeginBatch(t) PROVE TaskFacts
<1>1. task[t] \in TaskRow /\ task \in [Task -> TaskRow]
  BY TaskNotes, TypeParts DEF IInv
<1>2. PICK S : /\ S \subseteq Note
               /\ task' = [task EXCEPT ![t].pc = "ready", ![t].batch = S,
                             ![t].seen = [n \in Note |-> IF n \in S THEN Snapshot(row[n]) ELSE Unread]]
  BY DEF BeginBatch
<1>3. PICK s : s = [n \in Note |-> IF n \in S THEN Snapshot(row[n]) ELSE Unread]
  OBVIOUS
<1>4. s \in [Note -> Seen]
  <2>1. ASSUME NEW n \in Note PROVE Snapshot(row[n]) \in Seen
    BY RowIs DEF Snapshot, Seen, Row
  <2> QED
    BY <1>3, <2>1, UnreadIs
<1>5. PICK x : x = [task[t] EXCEPT !.pc = "ready", !.batch = S, !.seen = s]
  OBVIOUS
<1>6. /\ x \in TaskRow /\ x.pc = "ready" /\ x.owner = task[t].owner /\ x.late = task[t].late
      /\ x.body = task[t].body /\ x.seen = s
  BY <1>1, <1>2, <1>4, <1>5 DEF TaskRow, Seen
<1>7. task' = [task EXCEPT ![t] = x]
  BY <1>1, <1>2, <1>3, <1>5
<1>8. task[t].body = 0 /\ ~task[t].late
  BY DEF IInv, TaskSound, BeginBatch
<1>9. \A n \in Note : s[n] \in {task[t].seen[n], Unread, Snapshot(row[n])}
  BY <1>3
<1>10. ASSUME task'[t] = x PROVE TaskStep(t)
  BY <1>6, <1>8, <1>9, <1>10 DEF TaskStep, Rested
<1> QED
  BY <1>6, <1>7, <1>10, OneTask

LEMMA HeartbeatTasks == ASSUME IInv, NEW t \in Task, HeartbeatRemaining(t) PROVE TaskFacts
  BY StopTasks, NoTask DEF HeartbeatRemaining

LEMMA StartTasks == ASSUME IInv, NEW t \in Task, StartDelivery(t) PROVE TaskFacts
<1>1. CASE Stop(t)
  BY <1>1, StopTasks
<1>2. CASE ~Stop(t)
  <2>1. task[t] \in TaskRow /\ task \in [Task -> TaskRow]
    BY TaskNotes, TypeParts DEF IInv
  <2>2. PICK n \in Note :
          task' = [task EXCEPT ![t].pc = "started", ![t].note = n,
                               ![t].batch = @ \ {n}, ![t].late = age[n] # "new"]
    BY <1>2, TaskNotes DEF StartDelivery
  <2>3. PICK b, l : b = task[t].batch \ {n} /\ l \in BOOLEAN /\ l = (age[n] # "new")
    OBVIOUS
  <2>4. b \subseteq Note
    BY <2>3, TaskNotes
  <2>5. PICK x : x = [task[t] EXCEPT !.pc = "started", !.note = n, !.batch = b, !.late = l]
    OBVIOUS
  <2>6. /\ x \in TaskRow /\ x.pc = "started" /\ x.owner = task[t].owner /\ x.late = l
        /\ x.body = task[t].body /\ x.seen = task[t].seen /\ x.note = n
    BY <2>1, <2>3, <2>4, <2>5 DEF TaskRow
  <2>7. task' = [task EXCEPT ![t] = x]
    BY <2>1, <2>2, <2>3, <2>5
  <2>8. ASSUME task'[t] = x PROVE TaskStep(t)
    <3>1. task[t].pc = "ready"
      BY DEF StartDelivery
    <3> QED
      BY <2>3, <2>6, <2>8, <3>1 DEF TaskStep, Started
  <2> QED
    BY <2>6, <2>7, <2>8, OneTask
<1> QED
  BY <1>1, <1>2

LEMMA ExamineTasks == ASSUME IInv, NEW t \in Task, Examine(t) PROVE TaskFacts
<1>1. PICK n \in Note : n = task[t].note
  BY TaskNotes DEF Examine
<1>2. task[t] \in TaskRow /\ task \in [Task -> TaskRow] /\ activation \in Activation \cup {NoActivation}
  BY TaskNotes, TypeParts DEF IInv
<1>3. task[t].pc = "started" /\ task[t].pc \in InHand
  BY DEF Examine, InHand
<1>4. CASE \E v \in Verdict \ {"ACCEPTED"} : Decide(t, v)
  BY <1>3, <1>4, DecideTasks
<1>5. CASE /\ activation # NoActivation /\ ~Frozen(t)
           /\ task' = [task EXCEPT ![t].pc = "examined", ![t].activation = activation]
  <2>1. PICK x : x = [task[t] EXCEPT !.pc = "examined", !.activation = activation]
    OBVIOUS
  <2>2. /\ x \in TaskRow /\ x.pc = "examined" /\ x.activation = activation /\ x.owner = task[t].owner
        /\ x.note = task[t].note /\ x.late = task[t].late /\ x.seen = task[t].seen /\ x.body = task[t].body
    BY <1>2, <2>1 DEF TaskRow
  <2>3. task' = [task EXCEPT ![t] = x]
    BY <1>2, <1>5, <2>1
  <2>4. ASSUME task'[t] = x PROVE TaskStep(t)
    BY <1>3, <1>5, <2>2, <2>4 DEF TaskStep, Examined, Carried
  <2> QED
    BY <2>2, <2>3, <2>4, OneTask
<1>6. CASE /\ activation # NoActivation /\ Frozen(t) /\ ~task[t].late
           /\ task' = [task EXCEPT ![t].pc = "frozen", ![t].activation = activation,
                                   ![t].body = task[t].seen[task[t].note].body]
  <2>1. PICK b \in 0..2 : b = task[t].seen[task[t].note].body
    BY <1>1, <1>2 DEF TaskRow
  <2>2. PICK x : x = [task[t] EXCEPT !.pc = "frozen", !.activation = activation, !.body = b]
    OBVIOUS
  <2>3. /\ x \in TaskRow /\ x.pc = "frozen" /\ x.activation = activation /\ x.owner = task[t].owner
        /\ x.note = task[t].note /\ x.late = task[t].late /\ x.seen = task[t].seen /\ x.body = b
    BY <1>2, <2>1, <2>2 DEF TaskRow
  <2>4. task' = [task EXCEPT ![t] = x]
    BY <1>2, <1>6, <2>1, <2>2
  <2>5. ASSUME task'[t] = x PROVE TaskStep(t)
    BY <1>3, <1>6, <2>1, <2>3, <2>5 DEF TaskStep, Examined, Carried, Frozen
  <2> QED
    BY <2>3, <2>4, <2>5, OneTask
<1>7. {"noActivation", "changed", "expired", "addressExpired"} \subseteq Verdict \ {"ACCEPTED"}
      /\ Objections \subseteq Verdict \ {"ACCEPTED"}
  BY Verdicts
<1> QED
  BY <1>4, <1>5, <1>6, <1>7 DEF Examine

LEMMA FreezeTasks == ASSUME IInv, NEW t \in Task, FreezeRequest(t) PROVE TaskFacts
<1>1. PICK n \in Note : n = task[t].note
  BY TaskNotes DEF FreezeRequest
<1>2. task[t] \in TaskRow /\ task \in [Task -> TaskRow] /\ row \in [Note -> Row]
  BY TaskNotes, TypeParts DEF IInv
<1>3. task[t].pc = "examined" /\ task[t].pc \in InHand
  BY DEF FreezeRequest, InHand
<1>4. CASE Decide(t, "TRANSIENT_FAILURE")
  BY <1>3, <1>4, Verdicts, DecideTasks
<1>5. CASE ~Decide(t, "TRANSIENT_FAILURE")
  <2>1. /\ row[n].request = "none"
        /\ row' = [row EXCEPT ![n].request = "kept", ![n].body = @ + 1, ![n].activation = task[t].activation]
        /\ task' = [task EXCEPT ![t].pc = "frozen", ![t].body = row[n].body + 1]
    BY <1>1, <1>5 DEF FreezeRequest
  <2>2. row[n].body = 0
    BY <2>1 DEF IInv, BodySound
  <2>3. row'[n].body = 1
    <3>1. PICK r, a : r \in Row /\ r = row[n] /\ a = task[t].activation
      BY RowIs
    <3>2. row'[n] = [r EXCEPT !.request = "kept", !.body = r.body + 1, !.activation = a]
      BY <1>2, <2>1, <3>1
    <3>3. [r EXCEPT !.request = "kept", !.body = r.body + 1, !.activation = a].body = r.body + 1
      BY <3>1 DEF Row
    <3> QED
      BY <2>2, <3>1, <3>2, <3>3
  <2>4. PICK b, x : b \in 0..2 /\ b = 0 + 1 /\ x = [task[t] EXCEPT !.pc = "frozen", !.body = b]
    <3>1. 0 + 1 \in 0..2
      OBVIOUS
    <3>2. PICK b \in 0..2 : b = 0 + 1
      BY <3>1
    <3>3. PICK x : x = [task[t] EXCEPT !.pc = "frozen", !.body = b]
      OBVIOUS
    <3> QED
      BY <3>2, <3>3
  <2>5. /\ x \in TaskRow /\ x.pc = "frozen" /\ x.activation = task[t].activation /\ x.owner = task[t].owner
        /\ x.note = task[t].note /\ x.late = task[t].late /\ x.seen = task[t].seen /\ x.body = b
    BY <1>2, <2>4 DEF TaskRow
  <2>6. task' = [task EXCEPT ![t] = x]
    <3>1. task' = [task EXCEPT ![t].pc = "frozen", ![t].body = 0 + 1]
      BY <2>1, <2>2
    <3>2. task' = [task EXCEPT ![t].pc = "frozen", ![t].body = b]
      BY <2>4, <3>1
    <3> QED
      BY <1>2, <2>4, <3>2
  <2>7. ASSUME task'[t] = x PROVE TaskStep(t)
    BY <1>1, <1>3, <2>2, <2>3, <2>4, <2>5, <2>7 DEF TaskStep, Froze, Carried
  <2> QED
    BY <2>5, <2>6, <2>7, OneTask
<1> QED
  BY <1>4, <1>5

LEMMA SendTasks == ASSUME IInv, NEW t \in Task, Send(t) PROVE TaskFacts
<1>1. task[t] \in TaskRow /\ task \in [Task -> TaskRow]
  BY TaskNotes, TypeParts DEF IInv
<1>2. task[t].pc = "frozen" /\ task[t].pc \in InHand
  BY DEF Send, InHand
<1>3. CASE \E v \in Verdict \ {"ACCEPTED"} : Decide(t, v)
  BY <1>2, <1>3, DecideTasks
<1>4. CASE task' = [task EXCEPT ![t].pc = "waiting"]
  <2>1. PICK x : x = [task[t] EXCEPT !.pc = "waiting"]
    OBVIOUS
  <2>2. /\ x \in TaskRow /\ x.pc = "waiting" /\ x.activation = task[t].activation /\ x.owner = task[t].owner
        /\ x.note = task[t].note /\ x.late = task[t].late /\ x.seen = task[t].seen /\ x.body = task[t].body
    BY <1>1, <2>1 DEF TaskRow
  <2>3. task' = [task EXCEPT ![t] = x]
    BY <1>1, <1>4, <2>1
  <2>4. ASSUME task'[t] = x PROVE TaskStep(t)
    BY <1>2, <2>2, <2>4 DEF TaskStep, Waiting, Carried
  <2> QED
    BY <2>2, <2>3, <2>4, OneTask
<1>5. {"noActivation", "changed", "addressExpired", "TRANSIENT_FAILURE"} \subseteq Verdict \ {"ACCEPTED"}
  BY Verdicts
<1> QED
  BY <1>3, <1>4, <1>5 DEF Send

LEMMA WriteTasks == ASSUME IInv, NEW t \in Task, FinalizeAccepted(t) PROVE TaskFacts
<1>1. CASE Stop(t)
  BY <1>1, StopTasks
<1>2. CASE ~Stop(t)
  <2>1. task[t] \in TaskRow /\ task \in [Task -> TaskRow]
    BY TaskNotes, TypeParts DEF IInv
  <2>2. /\ task' = [task EXCEPT ![t].pc = "writing", ![t].sawEvent = event[task[t].note] = "RECEIVED"]
        /\ Recordable(t) /\ ReceiptFree(task[t].note) /\ task[t].pc = "ending" /\ task[t].verdict = "ACCEPTED"
        /\ UNCHANGED <<row, log, event, hook>>
    BY <1>2 DEF FinalizeAccepted, eventVars
  <2>3. PICK b \in BOOLEAN : b = (event[task[t].note] = "RECEIVED")
    OBVIOUS
  <2>4. PICK x : x = [task[t] EXCEPT !.pc = "writing", !.sawEvent = b]
    OBVIOUS
  <2>5. /\ x \in TaskRow /\ x.pc = "writing" /\ x.owner = task[t].owner /\ x.verdict = task[t].verdict
        /\ x.note = task[t].note /\ x.late = task[t].late /\ x.seen = task[t].seen /\ x.body = task[t].body
        /\ x.sawEvent = b
    BY <2>1, <2>3, <2>4 DEF TaskRow
  <2>6. task' = [task EXCEPT ![t] = x]
    BY <2>1, <2>2, <2>3, <2>4
  <2>7. ASSUME task'[t] = x PROVE TaskStep(t)
    BY <2>2, <2>3, <2>5, <2>7 DEF TaskStep, Writing, Carried
  <2> QED
    BY <2>5, <2>6, <2>7, OneTask
<1> QED
  BY <1>1, <1>2

\* A request the provider takes becomes the one mail of its key.
LEMMA AcceptMail ==
  ASSUME IInv, NEW r \in wire, Accept(r)
  PROVE  /\ r.note \in Note /\ r.task \in Task /\ age[r.note] # "forgotten"
         /\ mail'[r.note] = [count |-> 1, known |-> TRUE]
         /\ \A m \in Note : m # r.note => mail'[m] = mail[m]
<1>1. r.note \in Note /\ r.task \in Task /\ mail \in [Note -> [count: 0..2, known: BOOLEAN]]
  BY TypeParts DEF IInv
<1>2. age[r.note] # "forgotten"
  BY DEF IInv, WireSound
<1>3. (IF mail[r.note].known THEN mail[r.note].count ELSE mail[r.note].count + 1) = 1
  BY <1>1, <1>2 DEF IInv, MailSound
<1> QED
  BY <1>1, <1>2, <1>3 DEF Accept

LEMMA AnswerTasks == ASSUME IInv, NEW r \in wire, Accept(r) \/ Refuse(r) PROVE TaskFacts
<1>1. r.task \in Task
  BY TypeParts DEF IInv
<1>2. CASE task' = task
  BY <1>2, NoTask
<1>3. CASE Accept(r) /\ task' # task
  <2>1. Waits(r) /\ Decide(r.task, "ACCEPTED") /\ mail'[r.note].count = 1
    <3>1. Waits(r) /\ Decide(r.task, "ACCEPTED")
      BY <1>3 DEF Accept
    <3>2. mail'[r.note] = [count |-> 1, known |-> TRUE]
      BY <1>3, AcceptMail
    <3> QED
      BY <3>1, <3>2
  <2>2. task[r.task].pc \in InHand /\ task[r.task].note = r.note
    BY <2>1 DEF Waits, InHand
  <2> QED
    BY <1>1, <2>1, <2>2, Verdicts, DecideTasks
<1>4. CASE Refuse(r) /\ task' # task
  <2>1. task[r.task].pc \in InHand
    BY <1>4 DEF Refuse, Waits, InHand
  <2>2. \E v \in Verdict \ {"ACCEPTED"} : Decide(r.task, v)
    BY <1>4, Verdicts DEF Refuse
  <2> QED
    BY <1>1, <2>1, <2>2, DecideTasks
<1> QED
  BY <1>2, <1>3, <1>4

\* Every step is, batch by batch, one of the steps above.
LEMMA TaskFollows == ASSUME IInv, [Next]_vars PROVE TaskFacts
<1>1. ASSUME NEW t \in Task, TimeOut(t) \/ InfrastructureFails(t) PROVE TaskFacts
  <2>1. task[t].pc \in InHand
    BY <1>1 DEF TimeOut, InfrastructureFails, InHand
  <2>2. \E v \in Verdict \ {"ACCEPTED"} : Decide(t, v)
    BY <1>1, Verdicts DEF TimeOut, InfrastructureFails
  <2> QED
    BY <2>1, <2>2, DecideTasks
<1>2. ASSUME NEW t \in Task, Finalize(t) \/ CommitAccepted(t) \/ Pause(t) \/ Crash(t) PROVE TaskFacts
  BY <1>2, StopTasks, DoneTasks DEF Finalize, CommitAccepted, Pause, Crash
<1>3. ASSUME NEW t \in Task, BeginBatch(t) \/ HeartbeatRemaining(t) \/ StartDelivery(t) PROVE TaskFacts
  BY <1>3, BeginTasks, HeartbeatTasks, StartTasks
<1>4. ASSUME NEW t \in Task, Examine(t) \/ FreezeRequest(t) \/ Send(t) \/ FinalizeAccepted(t) PROVE TaskFacts
  BY <1>4, ExamineTasks, FreezeTasks, SendTasks, WriteTasks
<1> QED
  BY <1>1, <1>2, <1>3, <1>4, TaskMovers, NoTask, AnswerTasks

-----------------------------------------------------------------------------
(* What one step does to requests, mails, events and the world *)

AgeStep(n) ==
  \/ age'[n] = age[n]
  \/ age[n] = "new" /\ age'[n] = "stale" /\ row[n].request # "none"
  \/ /\ age[n] = "stale" /\ age'[n] = "forgotten" /\ UNCHANGED <<task, wire>>
     /\ \A r \in wire : r.note # n
     /\ \A t \in Task : task[t].note = n => task[t].pc \in {"ending", "writing"} \/ task[t].late
AgeFacts == age' \in [Note -> {"new", "stale", "forgotten"}] /\ \A n \in Note : AgeStep(n)

LEMMA AgeFollows == ASSUME IInv, [Next]_vars PROVE AgeFacts
<1>1. age \in [Note -> {"new", "stale", "forgotten"}]
  BY TypeParts DEF IInv
<1>2. CASE age' = age
  BY <1>1, <1>2 DEF AgeFacts, AgeStep
<1>3. ASSUME NEW t \in Task, FreezeRequest(t) PROVE age' = age
  <2>1. CASE ~UNCHANGED age
    <3>1. PICK n \in Note : n = task[t].note
      BY <1>3, TaskNotes DEF FreezeRequest
    <3>2. age' = [age EXCEPT ![n] = "new"] /\ row[n].request = "none"
      BY <1>3, <2>1, <3>1 DEF FreezeRequest
    <3>3. row[n].body = 0
      BY <3>2 DEF IInv, BodySound
    <3>4. age[n] = "new"
      BY <3>3 DEF IInv, AgeSound
    <3> QED
      BY <1>1, <3>2, <3>4
  <2> QED
    BY <2>1
<1>4. ASSUME NEW n \in Note, GrowStale(n) PROVE AgeFacts
  <2>1. age' = [age EXCEPT ![n] = "stale"] /\ age[n] = "new" /\ row[n].request # "none"
    BY <1>4 DEF GrowStale
  <2> QED
    BY <1>1, <2>1 DEF AgeFacts, AgeStep
<1>5. ASSUME NEW n \in Note, ForgetKey(n) PROVE AgeFacts
  <2>1. /\ age' = [age EXCEPT ![n] = "forgotten"] /\ age[n] = "stale" /\ UNCHANGED <<task, wire>>
        /\ \A r \in wire : r.note # n
        /\ \A t \in Task : task[t].note = n => task[t].pc \in {"ending", "writing"} \/ task[t].late
    BY <1>5 DEF ForgetKey
  <2> QED
    BY <1>1, <2>1 DEF AgeFacts, AgeStep
<1> QED
  BY <1>2, <1>3, <1>4, <1>5, AgeMovers

MailStep(n) ==
  \/ mail'[n] = mail[n] /\ ~(age[n] # "forgotten" /\ age'[n] = "forgotten")
  \/ mail'[n].count = 1 /\ mail'[n].known /\ age[n] # "forgotten" /\ age'[n] = age[n]
  \/ mail'[n].count = mail[n].count /\ ~mail'[n].known /\ age'[n] = "forgotten"
MailFacts == mail' \in [Note -> [count: 0..2, known: BOOLEAN]] /\ \A n \in Note : MailStep(n)

\* A request goes out only with frozen bytes, and while the provider knows the key.
Handed(r) ==
  /\ r \in [task: Task, note: Note, body: 0..2]
  /\ r.body = 1 /\ row[r.note].body = 1 /\ age[r.note] # "forgotten" /\ age' = age
WireFacts == \A r \in wire' : r \in wire \/ Handed(r)

LEMMA MailFollows == ASSUME IInv, [Next]_vars PROVE MailFacts /\ WireFacts
<1>1. mail \in [Note -> [count: 0..2, known: BOOLEAN]] /\ age \in [Note -> {"new", "stale", "forgotten"}]
  BY TypeParts DEF IInv
<1>2. ASSUME NEW t \in Task, Send(t) PROVE MailFacts /\ WireFacts
  <2>1. UNCHANGED <<mail, age>>
    BY <1>2 DEF Send, worldVars
  <2>2. MailFacts
    BY <1>1, <2>1 DEF MailFacts, MailStep
  <2>3. CASE wire' = wire
    BY <2>2, <2>3 DEF WireFacts
  <2>4. CASE wire' # wire
    <3>1. PICK n \in Note : n = task[t].note
      BY <1>2, TaskNotes DEF Send
    <3>2. wire' = wire \cup {[task |-> t, note |-> n, body |-> task[t].body]} /\ task[t].pc = "frozen"
      BY <1>2, <2>4, <3>1 DEF Send
    <3>3. task[t].body = 1 /\ ~task[t].late /\ age[n] # "forgotten" /\ task[t].body <= row[n].body
      BY <3>1, <3>2 DEF IInv, TaskSound, InHand
    <3>4. row[n].body = 1
      BY <3>3, RowIs DEF IInv, BodySound
    <3>5. PICK q : q = [task |-> t, note |-> n, body |-> task[t].body]
      OBVIOUS
    <3>6. q \in [task: Task, note: Note, body: 0..2] /\ q.note = n /\ q.body = 1
      BY <3>3, <3>5
    <3>7. Handed(q)
      BY <2>1, <3>3, <3>4, <3>6 DEF Handed
    <3> QED
      BY <2>2, <3>2, <3>5, <3>7 DEF WireFacts
  <2> QED
    BY <2>3, <2>4
<1>3. ASSUME NEW r \in wire, Accept(r) PROVE MailFacts /\ WireFacts
  <2>1. age' = age /\ wire' = wire \ {r}
    BY <1>3 DEF Accept, worldVars
  <2>2. /\ r.note \in Note /\ age[r.note] # "forgotten"
        /\ mail'[r.note] = [count |-> 1, known |-> TRUE]
        /\ \A m \in Note : m # r.note => mail'[m] = mail[m]
    BY <1>3, AcceptMail
  <2>3. mail'[r.note].count = 1 /\ mail'[r.note].known
    BY <2>2
  <2>4. \A n \in Note : MailStep(n)
    BY <2>1, <2>2, <2>3 DEF MailStep
  <2>5. mail' \in [Note -> [count: 0..2, known: BOOLEAN]]
    <3>1. \E c \in [count: 0..2, known: BOOLEAN] : mail' = [mail EXCEPT ![r.note] = c]
      <4>1. PICK c : mail' = [mail EXCEPT ![r.note] = c]
        BY <1>3 DEF Accept
      <4>2. c = [count |-> 1, known |-> TRUE]
        BY <1>1, <2>2, <4>1
      <4>3. 1 \in 0..2 /\ TRUE \in BOOLEAN
        OBVIOUS
      <4>4. c \in [count: 0..2, known: BOOLEAN]
        BY <4>2, <4>3
      <4> QED
        BY <4>1, <4>4
    <3> QED
      BY <1>1, <3>1
  <2> QED
    BY <2>1, <2>4, <2>5 DEF MailFacts, WireFacts
<1>4. ASSUME NEW r \in wire, Refuse(r) PROVE MailFacts /\ WireFacts
  BY <1>1, <1>4 DEF Refuse, worldVars, MailFacts, MailStep, WireFacts
<1>5. ASSUME NEW n \in Note, ForgetKey(n) PROVE MailFacts /\ WireFacts
  <2>1. mail' = [mail EXCEPT ![n].known = FALSE] /\ wire' = wire /\ age' = [age EXCEPT ![n] = "forgotten"]
    BY <1>5 DEF ForgetKey
  <2>2. PICK q, f : q \in [count: 0..2, known: BOOLEAN] /\ q = mail[n] /\ f = [q EXCEPT !.known = FALSE]
    BY <1>1
  <2>3. f \in [count: 0..2, known: BOOLEAN] /\ f.count = q.count /\ ~f.known
    BY <2>2
  <2>4. mail' = [mail EXCEPT ![n] = f]
    BY <1>1, <2>1, <2>2
  <2>5. mail' \in [Note -> [count: 0..2, known: BOOLEAN]] /\ mail'[n] = f
        /\ \A m \in Note : m # n => mail'[m] = mail[m] /\ age'[m] = age[m]
    <3>1. mail' \in [Note -> [count: 0..2, known: BOOLEAN]]
      BY <1>1, <2>3, <2>4
    <3>2. mail'[n] = f /\ \A m \in Note : m # n => mail'[m] = mail[m]
      BY <1>1, <2>4
    <3>3. \A m \in Note : m # n => age'[m] = age[m]
      BY <1>1, <2>1
    <3> QED
      BY <3>1, <3>2, <3>3
  <2>6. age'[n] = "forgotten"
    BY <1>1, <2>1
  <2>7. \A m \in Note : MailStep(m)
    BY <2>2, <2>3, <2>5, <2>6 DEF MailStep
  <2> QED
    BY <2>1, <2>5, <2>7 DEF MailFacts, WireFacts
<1>6. CASE UNCHANGED <<wire, mail>> /\ \A n \in Note : ~ForgetKey(n)
  <2>1. ASSUME NEW n \in Note PROVE MailStep(n)
    <3>1. ~(age[n] # "forgotten" /\ age'[n] = "forgotten")
      <4>1. CASE age' = age
        BY <4>1
      <4>2. CASE \E t \in Task : FreezeRequest(t)
        <5>1. PICK t \in Task : FreezeRequest(t)
          BY <4>2
        <5>2. PICK m \in Note : m = task[t].note
          BY <5>1, TaskNotes DEF FreezeRequest
        <5>3. age' = age \/ age' = [age EXCEPT ![m] = "new"]
          BY <5>1, <5>2 DEF FreezeRequest
        <5> QED
          BY <1>1, <5>3
      <4>3. CASE \E m \in Note : GrowStale(m)
        <5>1. PICK m \in Note : age' = [age EXCEPT ![m] = "stale"]
          BY <4>3 DEF GrowStale
        <5> QED
          BY <1>1, <5>1
      <4> QED
        BY <1>6, <4>1, <4>2, <4>3, AgeMovers
    <3> QED
      BY <1>6, <3>1 DEF MailStep
  <2> QED
    BY <1>1, <1>6, <2>1 DEF MailFacts, WireFacts
<1> QED
  BY <1>2, <1>3, <1>4, <1>5, <1>6, ProviderMovers

EventStep(n) ==
  \/ event'[n] = event[n] /\ hook'[n] = hook[n]
  \/ event'[n] \in {"IGNORED", "PROJECTED"} /\ hook'[n] = hook[n]
  \/ /\ ReceiptFree(n) /\ event'[n] = event[n] /\ UNCHANGED <<row, log, task>>
     /\ hook'[n] = IF Accepted(n) THEN "sighted" ELSE "blind"
  \/ /\ hook[n] # "idle" /\ hook'[n] = "idle" /\ UNCHANGED <<row, log, task>>
     /\ event'[n] = IF hook[n] = "sighted" THEN "PROJECTED" ELSE "RECEIVED"
EventFacts ==
  /\ event' \in [Note -> {"none", "RECEIVED", "PROJECTED", "IGNORED"}]
  /\ hook' \in [Note -> {"idle", "blind", "sighted"}]
  /\ \A n \in Note : EventStep(n)

LEMMA EventFollows == ASSUME IInv, [Next]_vars PROVE EventFacts
<1>1. /\ event \in [Note -> {"none", "RECEIVED", "PROJECTED", "IGNORED"}]
      /\ hook \in [Note -> {"idle", "blind", "sighted"}]
  BY EventIs
<1>2. CASE UNCHANGED <<event, hook>>
  BY <1>1, <1>2 DEF EventFacts, EventStep
<1>3. ASSUME hook' = hook,
             \E old \in SUBSET Note : event' = [n \in Note |-> IF n \in old THEN "IGNORED" ELSE event[n]]
      PROVE  EventFacts
  BY <1>1, <1>3 DEF EventFacts, EventStep
<1>4. ASSUME NEW t \in Task, CommitAccepted(t) PROVE EventFacts
  <2>1. PICK n \in Note : n = task[t].note
    BY <1>4, TaskNotes DEF CommitAccepted
  <2>2. event' = [event EXCEPT ![n] = IF task[t].sawEvent THEN "PROJECTED" ELSE @] /\ hook' = hook
    BY <1>4, <2>1 DEF CommitAccepted
  <2> QED
    BY <1>1, <2>1, <2>2 DEF EventFacts, EventStep
<1>5. ASSUME NEW n \in Note, TerminalizeAccepted(n) PROVE EventFacts
  <2>1. event' = [event EXCEPT ![n] = IF @ = "RECEIVED" THEN "PROJECTED" ELSE @] /\ hook' = hook
    BY <1>5 DEF TerminalizeAccepted
  <2> QED
    BY <1>1, <2>1 DEF EventFacts, EventStep
<1>6. ASSUME NEW n \in Note, ReceiveEvent(n) PROVE EventFacts
  BY <1>1, <1>6 DEF ReceiveEvent, EventFacts, EventStep
<1>7. ASSUME NEW n \in Note, CommitEvent(n) PROVE EventFacts
  BY <1>1, <1>7 DEF CommitEvent, EventFacts, EventStep
<1>8. ASSUME NEW t \in Task, BeginBatch(t) PROVE EventFacts
  BY <1>3, <1>8 DEF BeginBatch, Sweeping
<1>9. ASSUME MaintainRetention PROVE EventFacts
  BY <1>3, <1>9 DEF MaintainRetention, Sweeping
<1> QED
  BY <1>2, <1>4, <1>5, <1>6, <1>7, <1>8, <1>9, EventMovers

LEMMA WorldFollows ==
  ASSUME IInv, [Next]_vars
  PROVE  activation' \in Activation \cup {NoActivation} /\ lapsed' \subseteq Note /\ faults' \in 0..MaxFaults
<1>1. activation \in Activation \cup {NoActivation} /\ lapsed \subseteq Note /\ faults \in 0..MaxFaults
  BY TypeParts DEF IInv
<1>2. ASSUME NEW t \in Task, Crash(t)
      PROVE  UNCHANGED <<activation, lapsed>> /\ faults' \in 0..MaxFaults
  BY <1>1, <1>2, Naturals DEF Crash
<1>3. ASSUME NEW n \in Note, LapseAddress(n)
      PROVE  UNCHANGED <<activation, faults>> /\ lapsed' \subseteq Note
  BY <1>1, <1>3 DEF LapseAddress
<1>4. ASSUME NEW n \in Note, ExpireLease(n)
      PROVE  UNCHANGED <<activation, lapsed>> /\ faults' \in 0..MaxFaults
  BY <1>1, <1>4, Naturals DEF ExpireLease
<1>5. ASSUME SwitchActivation
      PROVE  UNCHANGED <<lapsed, faults>> /\ activation' \in Activation \cup {NoActivation}
  BY <1>5 DEF SwitchActivation
<1> QED
  BY <1>1, <1>2, <1>3, <1>4, <1>5, WorldMovers

-----------------------------------------------------------------------------
(* The parts of the invariant, one step later *)

LEMMA RowGrows ==
  ASSUME IInv, RowFacts, NEW n \in Note
  PROVE  /\ row'[n] \in Row /\ row'[n].body \in Nat /\ row'[n].max \in Nat /\ row'[n].attempts \in Nat
         /\ row'[n].body >= row[n].body /\ row'[n].max >= row[n].max
<1>1. row'[n] \in Row
  BY DEF RowFacts
<1>2. row'[n].body \in Nat /\ row'[n].max \in Nat /\ row'[n].attempts \in Nat
  BY <1>1, Naturals DEF Row
<1>3. RowStep(n)
  BY DEF RowFacts
<1>4. row'[n].body >= row[n].body /\ row'[n].max >= row[n].max
  BY <1>2, <1>3, RowIs DEF RowStep, Brushed, Kept, ParkedFrom, ClaimedFrom, FrozenFrom, ReleasedBy,
     Open2, EndedBy, ClosedBy
<1> QED
  BY <1>1, <1>2, <1>4

\* A row at the end of a delivery has an attempt left, and gives its lease back.
LEMMA EndIs ==
  ASSUME IInv, NEW t \in Task, NEW n \in Note, NEW s, EndedBy(t, n, row[n], s)
  PROVE  /\ row[n].status = "LEASED" /\ Lively(n) /\ row[n].attempts < row[n].max
         /\ \A i \in 1..Len(log[n]) : log[n][i] \in Retryable
         /\ s.status \in Closed \cup {"PAUSED", "RETRY"}
         /\ s.status = "DELIVERED" <=> task[t].verdict = "ACCEPTED"
         /\ s.status = "RETRY" => task[t].verdict \in Retryable /\ s.attempts < s.max
<1>1. row[n].status = "LEASED" /\ Number(t) = Len(log[n]) + 1 /\ task[t].note = n
  BY DEF EndedBy, Recordable, Held
<1>2. Lively(n)
  BY <1>1 DEF Lively
<1>3. row[n].attempts < row[n].max /\ \A i \in 1..Len(log[n]) : log[n][i] \in Retryable
  BY <1>2 DEF IInv, Retried
<1>4. s.status = FinalStatus(t) /\ task[t].verdict \in Outcome
  BY DEF EndedBy
<1>5. /\ s.status \in Closed \cup {"PAUSED", "RETRY"}
      /\ s.status = "DELIVERED" <=> task[t].verdict = "ACCEPTED"
      /\ s.status = "RETRY" => task[t].verdict \in Retryable /\ ~LastAttempt(t)
  BY <1>4 DEF FinalStatus, Closed, Retryable
<1>6. ~LastAttempt(t) => s.attempts < s.max
  <2>1. task[t].seen[n].max \in Nat /\ task[t].seen[n].max <= row[n].max
    <3>1. task[t].seen[n].max \in Attempts
      BY TaskNotes DEF TaskRow
    <3> QED
      BY <3>1, Naturals DEF IInv, SeenSound
  <2>2. s.attempts = Number(t) /\ s.max = row[n].max
    BY <1>1, RowIs DEF EndedBy
  <2>3. Number(t) \in Nat
    BY <1>1, RowIs
  <2> QED
    BY <1>1, <2>1, <2>2, <2>3, RowIs DEF LastAttempt
<1> QED
  BY <1>1, <1>2, <1>3, <1>5, <1>6

LEMMA RowTypes == ASSUME IInv, RowFacts, NEW n \in Note PROVE RowOK(row'[n])
<1>1. RowStep(n)
  BY DEF RowFacts
<1>2. row[n].attempts \in Nat /\ row[n].max \in Nat /\ RowOK(row[n])
  BY RowIs
<1>3. CASE Brushed(row[n], row'[n])
  BY <1>2, <1>3 DEF Brushed, Kept, RowOK
<1>4. CASE ParkedFrom(row[n], row'[n])
  BY <1>2, <1>4 DEF ParkedFrom, Kept, RowOK
<1>5. CASE ClaimedFrom(row[n], row'[n])
  BY <1>2, <1>5, NullNames DEF ClaimedFrom, Kept, RowOK
<1>6. CASE FrozenFrom(row[n], row'[n])
  BY <1>2, <1>6 DEF FrozenFrom, RowOK
<1>7. CASE ReleasedBy(n, row[n], row'[n])
  BY <1>2, <1>7 DEF ReleasedBy, RowOK
<1>8. ASSUME NEW t \in Task, EndedBy(t, n, row[n], row'[n]) PROVE RowOK(row'[n])
  <2>1. row[n].attempts < row[n].max /\ row'[n].status # "LEASED"
    BY <1>8, EndIs DEF Closed
  <2> QED
    BY <1>2, <1>8, <2>1 DEF EndedBy, RowOK
<1>9. CASE ClosedBy(n, row[n], row'[n])
  BY <1>2, <1>9 DEF ClosedBy, RowOK
<1> QED
  BY <1>1, <1>3, <1>4, <1>5, <1>6, <1>7, <1>8, <1>9 DEF RowStep

LEMMA TypeKept ==
  ASSUME IInv, RowFacts, TaskFacts, AgeFacts, MailFacts, WireFacts, EventFacts, [Next]_vars
  PROVE  TypeOK'
<1>1. row' \in [Note -> Row] /\ log' \in [Note -> Seq(Outcome)] /\ task' \in [Task -> TaskRow]
  BY DEF RowFacts, TaskFacts
<1>2. \A n \in Note : RowOK(row'[n])
  BY RowTypes
<1>3. wire' \subseteq [task: Task, note: Note, body: 0..2]
  BY TypeParts DEF IInv, WireFacts, Handed
<1>4. activation' \in Activation \cup {NoActivation} /\ lapsed' \subseteq Note /\ faults' \in 0..MaxFaults
  BY WorldFollows
<1>5. /\ age' \in [Note -> {"new", "stale", "forgotten"}]
      /\ mail' \in [Note -> [count: 0..2, known: BOOLEAN]]
      /\ event' \in [Note -> {"none", "RECEIVED", "PROJECTED", "IGNORED"}]
      /\ hook' \in [Note -> {"idle", "blind", "sighted"}]
  BY DEF AgeFacts, MailFacts, EventFacts
<1> QED
  BY <1>1, <1>2, <1>3, <1>4, <1>5 DEF TypeOK, TaskRow, RowOK

LEMMA BodyKept == ASSUME IInv, RowFacts PROVE BodySound'
<1>1. ASSUME NEW n \in Note
      PROVE  /\ row'[n].body <= 1
             /\ row'[n].request = "none" <=> row'[n].body = 0
             /\ row'[n].activation = NoActivation <=> row'[n].body = 0
             /\ row'[n].max <= MaxAttempts + MaxReleases \/ row'[n].status = "DELIVERED"
  <2>1. RowStep(n)
    BY DEF RowFacts
  <2>2. /\ row[n].body <= 1
        /\ row[n].request = "none" <=> row[n].body = 0
        /\ row[n].activation = NoActivation <=> row[n].body = 0
        /\ row[n].max <= MaxAttempts + MaxReleases \/ row[n].status = "DELIVERED"
    BY DEF IInv, BodySound
  <2>3. /\ row[n].body \in Nat /\ row[n].max \in Nat /\ row[n].attempts \in Nat /\ row[n].status \in Open \cup Closed
        /\ MaxAttempts + MaxReleases \in Nat
    BY RowIs, Naturals DEF Row
  <2>4. CASE Brushed(row[n], row'[n])
    BY <2>2, <2>4 DEF Brushed, Kept, Wears
  <2>5. CASE ParkedFrom(row[n], row'[n])
    BY <2>2, <2>5 DEF ParkedFrom, Kept, Wears, Open
  <2>6. CASE ClaimedFrom(row[n], row'[n]) /\ Lively(n)
    BY <2>2, <2>6 DEF ClaimedFrom, Kept, Wears, Lively
  <2>7. CASE FrozenFrom(row[n], row'[n])
    BY <2>2, <2>3, <2>7 DEF FrozenFrom
  <2>8. CASE ReleasedBy(n, row[n], row'[n])
    BY <2>2, <2>3, <2>8 DEF ReleasedBy, Wears
  <2>9. ASSUME NEW t \in Task, EndedBy(t, n, row[n], row'[n])
        PROVE  /\ row'[n].body <= 1
               /\ row'[n].request = "none" <=> row'[n].body = 0
               /\ row'[n].activation = NoActivation <=> row'[n].body = 0
               /\ row'[n].max <= MaxAttempts + MaxReleases
    <3>1. row[n].status = "LEASED"
      BY <2>9, EndIs
    <3> QED
      BY <2>2, <2>9, <3>1 DEF EndedBy, Wears
  <2>10. CASE ClosedBy(n, row[n], row'[n])
    BY <2>2, <2>10 DEF ClosedBy, Wears
  <2> QED
    BY <2>1, <2>4, <2>5, <2>6, <2>7, <2>8, <2>9, <2>10 DEF RowStep
<1> QED
  BY <1>1 DEF BodySound

LEMMA SeenKept == ASSUME IInv, RowFacts, TaskFacts PROVE SeenSound'
<1>1. ASSUME NEW t \in Task, NEW n \in Note, NEW s, s = task'[t].seen[n]
      PROVE  /\ s.body <= row'[n].body /\ s.max <= row'[n].max
             /\ s.request = "none" <=> s.body = 0
             /\ s.activation = NoActivation <=> s.body = 0
  <2>1. s \in {task[t].seen[n], Unread, Snapshot(row[n])}
    BY <1>1 DEF TaskFacts, TaskStep, Rested, Started, Examined, Froze, Waiting, Ending, Writing, Carried
  <2>2. row'[n].body \in Nat /\ row'[n].max \in Nat /\ row'[n].body >= row[n].body /\ row'[n].max >= row[n].max
    BY RowGrows
  <2>3. row[n].body \in Nat /\ row[n].max \in Nat /\ row[n].max >= 1
    BY RowIs
  <2>4. CASE s = task[t].seen[n]
    <3>1. s.body \in Nat /\ s.max \in Nat
      <4>1. s \in Seen
        BY <2>4, TaskNotes DEF TaskRow, Seen
      <4> QED
        BY <4>1, Naturals DEF Seen
    <3>2. /\ s.body <= row[n].body /\ s.max <= row[n].max
          /\ s.request = "none" <=> s.body = 0
          /\ s.activation = NoActivation <=> s.body = 0
      BY <2>4 DEF IInv, SeenSound
    <3> QED
      BY <2>2, <2>3, <3>1, <3>2
  <2>5. CASE s = Unread
    <3>1. s.body = 0 /\ s.max = 1 /\ s.request = "none" /\ s.activation = NoActivation
      BY <2>5 DEF Unread
    <3> QED
      BY <2>2, <2>3, <3>1
  <2>6. CASE s = Snapshot(row[n])
    <3>1. s.body = row[n].body /\ s.max = row[n].max /\ s.request = row[n].request /\ s.activation = row[n].activation
      BY <2>6 DEF Snapshot
    <3> QED
      BY <2>2, <2>3, <3>1 DEF IInv, BodySound
  <2> QED
    BY <2>1, <2>4, <2>5, <2>6
<1> QED
  BY <1>1 DEF SeenSound

LEMMA Appended ==
  ASSUME NEW l \in Seq(Outcome), NEW v \in Outcome, NEW k, k = Append(l, v)
  PROVE  /\ Len(k) = Len(l) + 1 /\ k # <<>> /\ k[Len(k)] = v /\ Len(l) \in Nat
         /\ \A i \in 1..Len(l) : k[i] = l[i]
  OBVIOUS

\* Only retryable outcomes lie before one that is appended.
LEMMA AppendKeeps ==
  ASSUME NEW l \in Seq(Outcome), NEW v \in Outcome, NEW k, k = Append(l, v),
         \A i \in 1..Len(l) : l[i] \in Retryable
  PROVE  /\ \A i \in 1..(Len(k) - 1) : k[i] \in Retryable
         /\ v \in Retryable => \A i \in 1..Len(k) : k[i] \in Retryable
<1>1. /\ Len(k) = Len(l) + 1 /\ k[Len(k)] = v /\ Len(l) \in Nat
      /\ \A i \in 1..Len(l) : k[i] = l[i]
  BY Appended
<1>2. ASSUME NEW i \in 1..(Len(k) - 1) PROVE k[i] \in Retryable
  BY <1>1
<1>3. ASSUME v \in Retryable, NEW i \in 1..Len(k) PROVE k[i] \in Retryable
  <2>1. i \in 1..(Len(k) - 1) \/ i = Len(k)
    BY <1>1
  <2> QED
    BY <1>1, <1>2, <1>3, <2>1
<1> QED
  BY <1>2, <1>3

\* What an operator decides has failed without an answer every time.
LEMMA DecidedIs ==
  ASSUME IInv, NEW n \in Note, Open2(n, row[n])
  PROVE  /\ \A i \in 1..Len(log[n]) : log[n][i] \in Retryable
         /\ ~Accepted(n) /\ hook[n] = "idle" /\ ~Locked(n)
<1>1. log[n] # <<>> /\ log[n][Len(log[n])] = "TIMED_OUT" /\ hook[n] = "idle" /\ ~Locked(n)
  BY DEF Open2, ReceiptFree
<1>2. \A i \in 1..(Len(log[n]) - 1) : log[n][i] \in Retryable
  BY DEF IInv, AttemptLedger
<1>3. ASSUME NEW i \in 1..Len(log[n]) PROVE log[n][i] \in Retryable
  <2>1. Len(log[n]) \in Nat
    BY RowIs
  <2>2. i \in 1..(Len(log[n]) - 1) \/ i = Len(log[n])
    BY <2>1
  <2> QED
    BY <1>1, <1>2, <2>2 DEF Retryable
<1> QED
  BY <1>1, <1>3 DEF Accepted

LEMMA RetriedKept == ASSUME IInv, RowFacts PROVE Retried'
<1>1. ASSUME NEW n \in Note,
             row'[n].status \in {"PENDING", "LEASED", "RETRY"}
               \/ (row'[n].status = "PAUSED" /\ row'[n].error = "activation")
      PROVE  row'[n].attempts < row'[n].max /\ \A i \in 1..Len(log'[n]) : log'[n][i] \in Retryable
  <2>1. RowStep(n)
    BY DEF RowFacts
  <2>2. Lively(n) => row[n].attempts < row[n].max /\ \A i \in 1..Len(log[n]) : log[n][i] \in Retryable
    BY DEF IInv, Retried
  <2>3. CASE log'[n] = log[n] /\ Kept(row[n], row'[n]) /\ Lively(n)
    BY <2>2, <2>3 DEF Kept
  <2>4. CASE log'[n] = log[n] /\ Brushed(row[n], row'[n])
    BY <1>1, <2>3, <2>4 DEF Brushed, Lively
  <2>5. CASE log'[n] = log[n] /\ ParkedFrom(row[n], row'[n])
    BY <1>1, <2>3, <2>5 DEF ParkedFrom, Lively
  <2>6. CASE log'[n] = log[n] /\ Lively(n) /\ ClaimedFrom(row[n], row'[n])
    BY <2>3, <2>6 DEF ClaimedFrom
  <2>7. CASE log'[n] = log[n] /\ FrozenFrom(row[n], row'[n])
    BY <2>2, <2>7 DEF FrozenFrom, Lively
  <2>8. CASE log'[n] = log[n] /\ ReleasedBy(n, row[n], row'[n])
    BY <2>8, RowIs, DecidedIs DEF ReleasedBy
  <2>9. ASSUME NEW t \in Task, EndedBy(t, n, row[n], row'[n])
        PROVE  row'[n].attempts < row'[n].max /\ \A i \in 1..Len(log'[n]) : log'[n][i] \in Retryable
    <3>1. row'[n].status = "RETRY"
      BY <1>1, <2>9, EndIs DEF EndedBy, Closed
    <3>2. /\ task[t].verdict \in Retryable /\ row'[n].attempts < row'[n].max
          /\ \A i \in 1..Len(log[n]) : log[n][i] \in Retryable
      BY <2>9, <3>1, EndIs
    <3>3. log'[n] = Append(log[n], task[t].verdict) /\ task[t].verdict \in Outcome /\ log[n] \in Seq(Outcome)
      BY <2>9, RowIs DEF EndedBy
    <3> QED
      BY <3>2, <3>3, AppendKeeps
  <2>10. ~ClosedBy(n, row[n], row'[n])
    BY <1>1 DEF ClosedBy
  <2> QED
    BY <2>1, <2>4, <2>5, <2>6, <2>7, <2>8, <2>9, <2>10 DEF RowStep
<1> QED
  BY <1>1 DEF Retried, Lively

LEMMA LedgerKept == ASSUME IInv, RowFacts, Retried' PROVE AttemptLedger'
<1>1. ASSUME NEW n \in Note, NEW k, k = log'[n]
      PROVE  /\ row'[n].attempts = Len(k)
             /\ row'[n].status = "DELIVERED" <=> (k # <<>> /\ k[Len(k)] = "ACCEPTED")
             /\ \A i \in 1..(Len(k) - 1) : k[i] \in Retryable
  <2>1. RowStep(n)
    BY DEF RowFacts
  <2>2. /\ row[n].attempts = Len(log[n])
        /\ row[n].status = "DELIVERED" <=> (log[n] # <<>> /\ log[n][Len(log[n])] = "ACCEPTED")
        /\ \A i \in 1..(Len(log[n]) - 1) : log[n][i] \in Retryable
        /\ log[n] \in Seq(Outcome)
    BY RowIs DEF IInv, AttemptLedger, Accepted
  <2>3. CASE /\ k = log[n] /\ row'[n].attempts = row[n].attempts
             /\ row'[n].status = "DELIVERED" <=> row[n].status = "DELIVERED"
    BY <2>2, <2>3
  <2>4. CASE log'[n] = log[n] /\ Brushed(row[n], row'[n])
    BY <1>1, <2>3, <2>4 DEF Brushed, Kept
  <2>5. CASE log'[n] = log[n] /\ ParkedFrom(row[n], row'[n])
    BY <1>1, <2>3, <2>5 DEF ParkedFrom, Kept, Open
  <2>6. CASE log'[n] = log[n] /\ Lively(n) /\ ClaimedFrom(row[n], row'[n])
    BY <1>1, <2>3, <2>6 DEF ClaimedFrom, Kept, Lively
  <2>7. CASE log'[n] = log[n] /\ FrozenFrom(row[n], row'[n])
    BY <1>1, <2>3, <2>7 DEF FrozenFrom
  <2>8. CASE log'[n] = log[n] /\ ReleasedBy(n, row[n], row'[n])
    BY <1>1, <2>3, <2>8 DEF ReleasedBy, Open2
  <2>9. ASSUME NEW t \in Task, EndedBy(t, n, row[n], row'[n])
        PROVE  /\ row'[n].attempts = Len(k)
               /\ row'[n].status = "DELIVERED" <=> (k # <<>> /\ k[Len(k)] = "ACCEPTED")
               /\ \A i \in 1..(Len(k) - 1) : k[i] \in Retryable
    <3>1. /\ \A i \in 1..Len(log[n]) : log[n][i] \in Retryable
          /\ row'[n].status = "DELIVERED" <=> task[t].verdict = "ACCEPTED"
      BY <2>9, EndIs
    <3>2. k = Append(log[n], task[t].verdict) /\ task[t].verdict \in Outcome /\ row'[n].attempts = row[n].attempts + 1
      BY <1>1, <2>9 DEF EndedBy
    <3>3. Len(k) = Len(log[n]) + 1 /\ k # <<>> /\ k[Len(k)] = task[t].verdict
      BY <2>2, <3>2, Appended
    <3>4. \A i \in 1..(Len(k) - 1) : k[i] \in Retryable
      BY <2>2, <3>1, <3>2, AppendKeeps
    <3> QED
      BY <2>2, <3>1, <3>2, <3>3, <3>4
  <2>10. ASSUME ClosedBy(n, row[n], row'[n])
         PROVE  /\ row'[n].attempts = Len(k)
                /\ row'[n].status = "DELIVERED" <=> (k # <<>> /\ k[Len(k)] = "ACCEPTED")
                /\ \A i \in 1..(Len(k) - 1) : k[i] \in Retryable
    <3>1. \A i \in 1..Len(log[n]) : log[n][i] \in Retryable
      BY <2>10, DecidedIs DEF ClosedBy
    <3>2. k = Append(log[n], "ACCEPTED") /\ "ACCEPTED" \in Outcome
      BY <1>1, <2>10 DEF ClosedBy, Outcome
    <3>3. row'[n].attempts = row[n].attempts + 1 /\ row'[n].status = "DELIVERED"
      BY <2>10 DEF ClosedBy
    <3>4. Len(k) = Len(log[n]) + 1 /\ k # <<>> /\ k[Len(k)] = "ACCEPTED"
      BY <2>2, <3>2, Appended
    <3>5. \A i \in 1..(Len(k) - 1) : k[i] \in Retryable
      BY <2>2, <3>1, <3>2, AppendKeeps
    <3> QED
      BY <2>2, <3>3, <3>4, <3>5
  <2> QED
    BY <2>1, <2>4, <2>5, <2>6, <2>7, <2>8, <2>9, <2>10 DEF RowStep
<1>2. \A n \in Note : row'[n].status \in {"PENDING", "LEASED", "RETRY"} => row'[n].attempts < row'[n].max
  BY DEF Retried, Lively
<1> QED
  BY <1>1, <1>2 DEF AttemptLedger, Accepted

\* A frozen request stays frozen.
LEMMA BodyStays ==
  ASSUME IInv, RowFacts, BodySound', NEW n \in Note, row[n].body = 1
  PROVE  row'[n].body = 1
  BY RowGrows DEF BodySound

LEMMA AgeKept == ASSUME IInv, RowFacts, AgeFacts, BodySound' PROVE AgeSound'
<1>1. ASSUME NEW n \in Note, age'[n] # "new" PROVE row'[n].body = 1
  <2>1. row[n].body = 1
    <3>1. AgeStep(n)
      BY DEF AgeFacts
    <3>2. CASE age[n] # "new"
      BY <3>2 DEF IInv, AgeSound
    <3>3. CASE row[n].request # "none"
      BY <3>3, RowIs DEF IInv, BodySound
    <3> QED
      BY <1>1, <3>1, <3>2, <3>3 DEF AgeStep
  <2> QED
    BY <2>1, BodyStays
<1> QED
  BY <1>1 DEF AgeSound

LEMMA MailKept == ASSUME IInv, AgeFacts, MailFacts PROVE MailSound'
<1>1. ASSUME NEW n \in Note
      PROVE  /\ mail'[n].known => mail'[n].count = 1
             /\ mail'[n].count <= 1
             /\ mail'[n].count = 1 /\ age'[n] # "forgotten" => mail'[n].known
             /\ mail[n].count = 1 => mail'[n].count = 1
  <2>1. MailStep(n) /\ AgeStep(n)
    BY DEF MailFacts, AgeFacts
  <2>2. /\ mail[n].known => mail[n].count = 1
        /\ mail[n].count <= 1
        /\ mail[n].count = 1 /\ age[n] # "forgotten" => mail[n].known
    BY DEF IInv, MailSound
  <2>3. CASE mail'[n] = mail[n] /\ ~(age[n] # "forgotten" /\ age'[n] = "forgotten")
    BY <2>1, <2>2, <2>3 DEF AgeStep
  <2>4. CASE mail'[n].count = 1 /\ mail'[n].known /\ age[n] # "forgotten" /\ age'[n] = age[n]
    BY <2>4
  <2>5. CASE mail'[n].count = mail[n].count /\ ~mail'[n].known /\ age'[n] = "forgotten"
    BY <2>2, <2>5
  <2> QED
    BY <2>1, <2>3, <2>4, <2>5 DEF MailStep
<1> QED
  BY <1>1 DEF MailSound

LEMMA MailStays ==
  ASSUME IInv, MailFacts, NEW n \in Note, mail[n].count = 1
  PROVE  mail'[n].count = 1
  BY DEF MailFacts, MailStep

LEMMA WireKept == ASSUME IInv, RowFacts, AgeFacts, WireFacts, BodySound' PROVE WireSound'
<1>1. ASSUME NEW r \in wire'
      PROVE  r.body = 1 /\ row'[r.note].body = 1 /\ age'[r.note] # "forgotten"
  <2>1. CASE r \in wire
    <3>1. r.note \in Note /\ r.body = 1 /\ row[r.note].body = 1 /\ age[r.note] # "forgotten"
      BY <2>1, TypeParts DEF IInv, WireSound
    <3>2. AgeStep(r.note)
      BY <3>1 DEF AgeFacts
    <3>3. age'[r.note] # "forgotten"
      BY <2>1, <3>1, <3>2 DEF AgeStep
    <3> QED
      BY <3>1, <3>3, BodyStays
  <2>2. CASE Handed(r)
    <3>1. r.note \in Note /\ r.body = 1 /\ row[r.note].body = 1 /\ age[r.note] # "forgotten" /\ age' = age
      BY <2>2 DEF Handed
    <3> QED
      BY <3>1, BodyStays
  <2> QED
    BY <2>1, <2>2 DEF WireFacts
<1> QED
  BY <1>1 DEF WireSound

\* What TaskSound says of one batch x, one step later.
Sound(x) ==
  /\ x.pc \in {"idle", "ready"} => x.body = 0 /\ ~x.late
  /\ x.pc \notin {"idle", "ready"} =>
     /\ x.note \in Note
     /\ x.body <= row'[x.note].body
     /\ x.late => row'[x.note].body = 1
     /\ x.pc \in {"examined", "frozen", "waiting"} => x.activation # NoActivation
     /\ x.pc \in {"frozen", "waiting"} => x.body = 1 /\ ~x.late
     /\ x.pc \in InHand /\ ~x.late => age'[x.note] # "forgotten"
     /\ x.pc \in {"ending", "writing"} /\ x.verdict = "ACCEPTED" => mail'[x.note].count = 1

LEMMA TaskKept ==
  ASSUME IInv, RowFacts, TaskFacts, AgeFacts, MailFacts, BodySound'
  PROVE  TaskSound'
<1>1. ASSUME NEW t \in Task, NEW x, x = task'[t] PROVE Sound(x)
  <2>1. TaskStep(t)
    BY DEF TaskFacts
  <2>2. CASE Rested(t)
    BY <1>1, <2>2 DEF Rested, Sound
  <2>3. CASE Started(t)
    <3>1. PICK n \in Note : n = x.note
      BY <1>1, <2>3 DEF Started
    <3>2. x.pc = "started" /\ x.body = 0 /\ (x.late <=> age[n] # "new")
      BY <1>1, <2>3, <3>1 DEF Started, IInv, TaskSound
    <3>3. x.late => row'[n].body = 1
      BY <3>2, BodyStays DEF IInv, AgeSound
    <3>4. ~x.late => age'[n] # "forgotten"
      BY <3>2 DEF AgeFacts, AgeStep
    <3>5. row'[n].body \in Nat
      BY RowGrows
    <3> QED
      BY <3>1, <3>2, <3>3, <3>4, <3>5 DEF Sound, InHand
  <2>4. CASE task[t].pc \notin {"idle", "ready"}
    <3>1. PICK n \in Note : n = task[t].note
      BY <2>4, TaskNotes
    <3>2. /\ task[t].body <= row[n].body /\ task[t].body \in Nat
          /\ task[t].late => row[n].body = 1
          /\ task[t].pc \in {"examined", "frozen", "waiting"} => task[t].activation # NoActivation
          /\ task[t].pc \in {"frozen", "waiting"} => task[t].body = 1 /\ ~task[t].late
          /\ task[t].pc \in InHand /\ ~task[t].late => age[n] # "forgotten"
          /\ task[t].pc \in {"ending", "writing"} /\ task[t].verdict = "ACCEPTED" => mail[n].count = 1
      BY <2>4, <3>1, TaskNotes DEF IInv, TaskSound, TaskRow
    <3>3. row[n].body \in Nat /\ row'[n].body \in Nat /\ row'[n].body >= row[n].body
          /\ row'[n].body <= 1
      BY RowIs, RowGrows DEF BodySound
    <3>4. task[t].body <= row'[n].body /\ (task[t].late => row'[n].body = 1)
      BY <3>2, <3>3
    <3>5. task[t].pc \in InHand /\ ~task[t].late => age'[n] # "forgotten"
      <4>1. AgeStep(n)
        BY DEF AgeFacts
      <4> QED
        BY <3>1, <3>2, <4>1 DEF AgeStep, InHand
    <3>6. mail[n].count = 1 => mail'[n].count = 1
      BY MailStays
    <3>7. CASE task'[t] = task[t]
      BY <1>1, <2>4, <3>1, <3>2, <3>4, <3>5, <3>6, <3>7 DEF Sound
    <3>8. CASE Examined(t)
      <4>1. x.note = n /\ x.late = task[t].late /\ task[t].pc = "started" /\ x.activation # NoActivation
        BY <1>1, <3>1, <3>8 DEF Examined, Carried
      <4>2. CASE x.pc = "examined" /\ x.body = task[t].body
        BY <3>1, <3>4, <3>5, <4>1, <4>2 DEF Sound, InHand
      <4>3. CASE /\ x.pc = "frozen" /\ ~task[t].late
                 /\ task[t].seen[n].request = "kept" /\ x.body = task[t].seen[n].body
        <5>1. task[t].seen[n].body \in Nat
          BY TaskNotes DEF TaskRow
        <5>2. task[t].seen[n].body # 0 /\ task[t].seen[n].body <= row[n].body
          BY <4>3 DEF IInv, SeenSound
        <5>3. x.body = 1 /\ x.body <= row'[n].body
          BY <3>3, <4>3, <5>1, <5>2
        <5> QED
          BY <3>1, <3>5, <4>1, <4>3, <5>3 DEF Sound, InHand
      <4> QED
        BY <1>1, <3>1, <3>8, <4>2, <4>3 DEF Examined
    <3>9. CASE Froze(t)
      <4>1. /\ x.note = n /\ x.late = task[t].late /\ task[t].pc = "examined" /\ x.pc = "frozen"
            /\ x.activation = task[t].activation /\ x.body = 1 /\ row[n].body = 0 /\ row'[n].body = 1
        BY <1>1, <3>1, <3>9 DEF Froze, Carried
      <4>2. ~x.late
        BY <3>2, <4>1
      <4> QED
        BY <3>1, <3>2, <3>5, <4>1, <4>2 DEF Sound, InHand
    <3>10. CASE Waiting(t)
      <4>1. /\ x.note = n /\ x.late = task[t].late /\ task[t].pc = "frozen" /\ x.pc = "waiting"
            /\ x.activation = task[t].activation /\ x.body = task[t].body
        BY <1>1, <3>1, <3>10 DEF Waiting, Carried
      <4> QED
        BY <3>1, <3>2, <3>4, <3>5, <4>1 DEF Sound, InHand
    <3>11. CASE Ending(t)
      <4>1. /\ x.note = n /\ x.late = task[t].late /\ x.pc = "ending" /\ x.body = task[t].body
            /\ x.verdict = "ACCEPTED" => mail'[n].count = 1
        BY <1>1, <3>1, <3>11 DEF Ending, Carried
      <4> QED
        BY <3>1, <3>4, <4>1 DEF Sound, InHand
    <3>12. CASE Writing(t)
      <4>1. /\ x.note = n /\ x.late = task[t].late /\ x.pc = "writing" /\ x.body = task[t].body
            /\ task[t].pc = "ending" /\ task[t].verdict = "ACCEPTED"
        BY <1>1, <3>1, <3>12 DEF Writing, Carried
      <4> QED
        BY <3>1, <3>2, <3>4, <3>6, <4>1 DEF Sound, InHand
    <3> QED
      BY <2>1, <2>2, <2>3, <3>7, <3>8, <3>9, <3>10, <3>11, <3>12 DEF TaskStep
  <2>5. CASE task[t].pc \in {"idle", "ready"} /\ task'[t] = task[t]
    BY <1>1, <2>5 DEF Sound, IInv, TaskSound
  <2>6. CASE task[t].pc \in {"idle", "ready"} /\ task'[t] # task[t]
    BY <2>1, <2>2, <2>3, <2>6 DEF TaskStep, Examined, Froze, Waiting, Ending, Writing, InHand
  <2> QED
    BY <2>4, <2>5, <2>6
<1> QED
  BY <1>1 DEF TaskSound, Sound

\* While a batch writes, its row and its receipt stand still.
LEMMA WriterStill ==
  ASSUME IInv, RowFacts, TaskFacts, EventFacts, NEW t \in Task, NEW n \in Note, n = task[t].note,
         task[t].pc = "writing", task'[t].pc = "writing"
  PROVE  /\ row'[n].status = row[n].status /\ row'[n].owner = row[n].owner /\ log'[n] = log[n]
         /\ hook'[n] = "idle" /\ (event'[n] = "RECEIVED" => event[n] = "RECEIVED")
<1>1. Locked(n)
  BY DEF Locked
<1>2. hook[n] = "idle" /\ \A u \in Task : task[u].pc = "writing" /\ task[u].note = n => u = t
  BY DEF IInv, WriterSound
<1>3. RowStep(n)
  BY DEF RowFacts
<1>4. ~ReleasedBy(n, row[n], row'[n]) /\ ~ClosedBy(n, row[n], row'[n])
  BY <1>1 DEF ReleasedBy, ClosedBy, Open2, ReceiptFree
<1>5. ASSUME NEW u \in Task PROVE ~EndedBy(u, n, row[n], row'[n])
  <2>1. ASSUME EndedBy(u, n, row[n], row'[n]) PROVE FALSE
    <3>1. task[u].note = n /\ task[u].pc = "writing" /\ task'[u].pc \in {"idle", "ready"}
      BY <1>1, <2>1 DEF EndedBy
    <3> QED
      BY <1>2, <3>1
  <2> QED
    BY <2>1
<1>6. Brushed(row[n], row'[n]) /\ log'[n] = log[n]
  BY <1>1, <1>3, <1>4, <1>5 DEF RowStep
<1>7. EventStep(n)
  BY DEF EventFacts
<1>8. hook'[n] = "idle" /\ (event'[n] = "RECEIVED" => event[n] = "RECEIVED")
  BY <1>1, <1>2, <1>7 DEF EventStep, ReceiptFree
<1> QED
  BY <1>6, <1>8 DEF Brushed

LEMMA WriterKept ==
  ASSUME IInv, RowFacts, TaskFacts, EventFacts
  PROVE  WriterSound'
<1>1. ASSUME NEW t \in Task, task'[t].pc = "writing", NEW n, n = task'[t].note
      PROVE  /\ row'[n].status = "LEASED" /\ row'[n].owner = task'[t].owner
             /\ task'[t].seen[n].attempts + 1 = Len(log'[n]) + 1
             /\ task'[t].verdict = "ACCEPTED"
             /\ hook'[n] = "idle" /\ (event'[n] = "RECEIVED" => task'[t].sawEvent)
             /\ \A u \in Task : task'[u].pc = "writing" /\ task'[u].note = n => u = t
  <2>1. TaskStep(t)
    BY DEF TaskFacts
  <2>2. CASE task'[t] = task[t]
    <3>1. n \in Note /\ n = task[t].note /\ task[t].pc = "writing"
      BY <1>1, <2>2, TaskNotes
    <3>2. /\ row[n].status = "LEASED" /\ row[n].owner = task[t].owner
          /\ task[t].seen[n].attempts + 1 = Len(log[n]) + 1
          /\ task[t].verdict = "ACCEPTED" /\ (event[n] = "RECEIVED" => task[t].sawEvent)
          /\ \A u \in Task : task[u].pc = "writing" /\ task[u].note = n => u = t
      BY <3>1 DEF IInv, WriterSound, Recordable, Held, Number
    <3>3. /\ row'[n].status = row[n].status /\ row'[n].owner = row[n].owner /\ log'[n] = log[n]
          /\ hook'[n] = "idle" /\ (event'[n] = "RECEIVED" => event[n] = "RECEIVED")
      BY <1>1, <3>1, WriterStill
    <3>4. ASSUME NEW u \in Task, u # t, task'[u].pc = "writing", task'[u].note = n PROVE FALSE
      <4>1. task'[u] # task[u]
        BY <3>2, <3>4
      <4>2. Writing(u)
        BY <3>4, <4>1 DEF TaskFacts, TaskStep, Rested, Started, Examined, Froze, Waiting, Ending
      <4>3. ~Locked(n)
        BY <3>4, <4>2 DEF Writing, Carried, ReceiptFree
      <4> QED
        BY <3>1, <4>3 DEF Locked
    <3> QED
      BY <2>2, <3>2, <3>3, <3>4
  <2>3. CASE Writing(t)
    <3>1. /\ n = task[t].note /\ task[t].verdict = "ACCEPTED" /\ task'[t].verdict = "ACCEPTED"
          /\ task'[t].seen = task[t].seen /\ Recordable(t) /\ ReceiptFree(n)
          /\ (task'[t].sawEvent <=> event[n] = "RECEIVED") /\ UNCHANGED <<row, log, event, hook>>
      BY <1>1, <2>3 DEF Writing, Carried
    <3>2. task'[t].owner = task[t].owner /\ task'[t] # task[t]
      BY <1>1, <2>1, <2>3 DEF TaskStep, Writing
    <3>3. ASSUME NEW u \in Task, u # t, task'[u].pc = "writing", task'[u].note = n PROVE FALSE
      <4>1. task'[u] = task[u]
        BY <3>2, <3>3 DEF TaskFacts
      <4> QED
        BY <3>1, <3>3, <4>1 DEF ReceiptFree, Locked
    <3> QED
      BY <3>1, <3>2, <3>3 DEF Recordable, Held, Number, ReceiptFree
  <2> QED
    BY <1>1, <2>1, <2>2, <2>3 DEF TaskStep, Rested, Started, Examined, Froze, Waiting, Ending
<1> QED
  BY <1>1 DEF WriterSound, Recordable, Held, Number

\* A log ends in an accepted attempt only through a writer or the operator.
LEMMA AcceptedStep ==
  ASSUME IInv, RowFacts, NEW n \in Note, log'[n] # <<>>, log'[n][Len(log'[n])] = "ACCEPTED"
  PROVE  \/ Accepted(n) /\ log'[n] = log[n]
         \/ hook[n] = "idle" /\ event'[n] # "RECEIVED" /\ log'[n] # log[n]
<1>1. RowStep(n)
  BY DEF RowFacts
<1>2. CASE log'[n] = log[n]
  BY <1>2 DEF Accepted
<1>3. ASSUME NEW t \in Task, EndedBy(t, n, row[n], row'[n])
      PROVE  hook[n] = "idle" /\ event'[n] # "RECEIVED" /\ log'[n] # log[n]
  <2>1. log'[n] = Append(log[n], task[t].verdict) /\ task[t].verdict \in Outcome /\ log[n] \in Seq(Outcome)
    BY <1>3, RowIs DEF EndedBy
  <2>2. task[t].verdict = "ACCEPTED" /\ log'[n] # log[n]
    BY <2>1, Appended
  <2>3. task[t].pc = "writing" /\ task[t].note = n
    BY <1>3, <2>2 DEF EndedBy
  <2>4. hook[n] = "idle" /\ (event[n] = "RECEIVED" => task[t].sawEvent)
    BY <2>3 DEF IInv, WriterSound
  <2> QED
    BY <1>3, <2>2, <2>3, <2>4 DEF EndedBy
<1>4. CASE ClosedBy(n, row[n], row'[n])
  <2>1. log'[n] = Append(log[n], "ACCEPTED") /\ event'[n] # "RECEIVED" /\ hook[n] = "idle" /\ "ACCEPTED" \in Outcome
    BY <1>4, DecidedIs DEF ClosedBy, Outcome
  <2>2. log'[n] # log[n]
    BY <2>1, RowIs, Appended
  <2> QED
    BY <2>1, <2>2
<1> QED
  BY <1>1, <1>2, <1>3, <1>4 DEF RowStep

LEMMA HookKept == ASSUME IInv, RowFacts, EventFacts PROVE HookSound' /\ ReceiptsMeet'
<1>1. ASSUME NEW n \in Note, NEW k, k = log'[n], k # <<>>, k[Len(k)] = "ACCEPTED"
      PROVE  hook'[n] # "blind" /\ event'[n] # "RECEIVED"
  <2>1. EventStep(n)
    BY DEF EventFacts
  <2>2. CASE Accepted(n) /\ log'[n] = log[n]
    <3>1. hook[n] # "blind" /\ event[n] # "RECEIVED"
      BY <2>2 DEF IInv, HookSound, ReceiptsMeet
    <3>2. hook[n] \in {"idle", "blind", "sighted"}
      BY EventIs
    <3> QED
      BY <2>1, <2>2, <3>1, <3>2 DEF EventStep
  <2>3. CASE hook[n] = "idle" /\ event'[n] # "RECEIVED" /\ log'[n] # log[n]
    BY <2>1, <2>3 DEF EventStep
  <2> QED
    BY <1>1, <2>2, <2>3, AcceptedStep
<1> QED
  BY <1>1 DEF HookSound, ReceiptsMeet, Accepted

-----------------------------------------------------------------------------
(* Init, and the theorems *)

LEMMA InitSound == Init => IInv
<1> SUFFICES ASSUME Init PROVE IInv
  OBVIOUS
<1>1. /\ row = [n \in Note |-> NewRow(IF n \in Explicit THEN "kept" ELSE "user")]
      /\ log = [n \in Note |-> <<>>]
      /\ activation \in Activation
      /\ age = [n \in Note |-> "new"] /\ lapsed = {} /\ wire = {}
      /\ mail = [n \in Note |-> [count |-> 0, known |-> FALSE]]
      /\ event = [n \in Note |-> "none"] /\ hook = [n \in Note |-> "idle"] /\ faults = 0
  BY DEF Init
<1>2. PICK owner \in [Task -> Worker] : task = [t \in Task |-> Idle(owner[t])]
  BY DEF Init
<1>3. ASSUME NEW n \in Note, NEW r, r = row[n]
      PROVE  /\ r \in Row /\ RowOK(r) /\ r.attempts = 0 /\ r.max = MaxAttempts /\ r.status = "PENDING"
             /\ r.body = 0 /\ r.request = "none" /\ r.activation = NoActivation
  <2>1. PICK a \in {"user", "kept", "destroyed"} : r = NewRow(a)
    BY <1>1, <1>3
  <2>2. /\ r.attempts = 0 /\ r.max = MaxAttempts /\ r.status = "PENDING" /\ r.owner = NoWorker /\ ~r.live
        /\ r.body = 0 /\ r.request = "none" /\ r.activation = NoActivation
    BY <2>1 DEF NewRow
  <2>3. 0 \in Attempts /\ MaxAttempts \in Attempts \ {0}
    BY Naturals
  <2>4. "PENDING" \in Open \cup Closed /\ "other" \in Error /\ "none" \in Material /\ 0 \in 0..2
    BY DEF Open, Error, Material
  <2>5. r \in Row
    BY <2>1, <2>3, <2>4 DEF NewRow, Row
  <2> QED
    BY <2>2, <2>5, Naturals DEF RowOK
<1>4. ASSUME NEW t \in Task
      PROVE  /\ task[t] \in TaskRow /\ task[t].pc = "idle" /\ task[t].body = 0 /\ ~task[t].late
             /\ task[t].seen = [n \in Note |-> Unread]
  <2>1. owner[t] \in Worker
    OBVIOUS
  <2>2. task[t] = Idle(owner[t])
    BY <1>2
  <2> QED
    BY <2>1, <2>2, IdleIs
<1>5. TypeOK
  <2>1. row \in [Note -> Row] /\ \A n \in Note : RowOK(row[n])
    BY <1>1, <1>3
  <2>2. log \in [Note -> Seq(Outcome)]
    BY <1>1
  <2>3. task \in [Task -> TaskRow]
    BY <1>2, <1>4
  <2>4. mail \in [Note -> [count: 0..2, known: BOOLEAN]]
    <3>1. 0 \in 0..2 /\ FALSE \in BOOLEAN
      OBVIOUS
    <3> QED
      BY <1>1, <3>1
  <2>5. /\ activation \in Activation \cup {NoActivation}
        /\ age \in [Note -> {"new", "stale", "forgotten"}] /\ lapsed \subseteq Note
        /\ wire \subseteq [task: Task, note: Note, body: 0..2]
        /\ event \in [Note -> {"none", "RECEIVED", "PROJECTED", "IGNORED"}]
        /\ hook \in [Note -> {"idle", "blind", "sighted"}]
        /\ faults \in 0..MaxFaults
    BY <1>1, Naturals
  <2> QED
    BY <2>1, <2>2, <2>3, <2>4, <2>5, TypeParts
<1>6. ASSUME NEW n \in Note
      PROVE  log[n] = <<>> /\ Len(log[n]) = 0 /\ ~Accepted(n) /\ age[n] = "new" /\ hook[n] = "idle"
             /\ mail[n].count = 0 /\ ~mail[n].known
  BY <1>1 DEF Accepted
<1>7. AttemptLedger /\ Retried
  BY <1>3, <1>6, Naturals DEF AttemptLedger, Retried
<1>8. BodySound
  BY <1>3, Naturals DEF BodySound
<1>9. SeenSound
  <2>1. Unread.body = 0 /\ Unread.max = 1 /\ Unread.request = "none" /\ Unread.activation = NoActivation
    BY DEF Unread
  <2> QED
    BY <1>3, <1>4, <2>1, Naturals DEF SeenSound
<1>10. TaskSound /\ WriterSound
  BY <1>4 DEF TaskSound, WriterSound
<1>11. WireSound /\ AgeSound /\ MailSound /\ HookSound /\ ReceiptsMeet
  BY <1>1, <1>6 DEF WireSound, AgeSound, MailSound, HookSound, ReceiptsMeet
<1> QED
  BY <1>5, <1>7, <1>8, <1>9, <1>10, <1>11 DEF IInv

LEMMA StepSound == IInv /\ [Next]_vars => IInv'
<1> SUFFICES ASSUME IInv, [Next]_vars PROVE IInv'
  OBVIOUS
<1>1. RowFacts /\ TaskFacts /\ AgeFacts /\ MailFacts /\ WireFacts /\ EventFacts
  BY RowFollows, TaskFollows, AgeFollows, MailFollows, EventFollows
<1>2. TypeOK' /\ BodySound' /\ SeenSound'
  BY <1>1, TypeKept, BodyKept, SeenKept
<1>3. Retried' /\ AttemptLedger'
  BY <1>1, RetriedKept, LedgerKept
<1>4. AgeSound' /\ MailSound' /\ WireSound' /\ TaskSound'
  BY <1>1, <1>2, AgeKept, MailKept, WireKept, TaskKept
<1>5. WriterSound' /\ HookSound' /\ ReceiptsMeet'
  BY <1>1, WriterKept, HookKept
<1> QED
  BY <1>2, <1>3, <1>4, <1>5 DEF IInv

\* Every reachable state satisfies the inductive invariant: the parts above that a
\* dispatcher, the sweep, the operator and the webhook keep for one another.
THEOREM Invariance == Spec => []IInv
  BY InitSound, StepSound, PTL DEF Spec

\* Every row, log, batch and request keeps its type and the CHECK constraints on
\* leases and attempts.
THEOREM TypesHold == Spec => []TypeOK
<1>1. IInv => TypeOK
  BY DEF IInv
<1> QED
  BY <1>1, Invariance, PTL

\* Attempts are numbered without a gap, the last agrees with the row's status, and
\* only retryable outcomes lie before it, although finalizeAttempt numbers by a
\* snapshot taken when the batch began.
THEOREM AttemptsAreLedgered == Spec => []AttemptLedger
<1>1. IInv => AttemptLedger
  BY DEF IInv
<1> QED
  BY <1>1, Invariance, PTL

\* Every request under a row's idempotency key carries the same bytes, however many
\* batches of a process believe they hold the row.
THEOREM OneBodyPerKey == Spec => []OneBody
<1>1. IInv => OneBody
  BY DEF IInv, WireSound, OneBody
<1> QED
  BY <1>1, Invariance, PTL

\* A bounce and the accepted attempt it belongs to never miss each other.
THEOREM BouncesMeetReceipts == Spec => []ReceiptsMeet
<1>1. IInv => ReceiptsMeet
  BY DEF IInv
<1> QED
  BY <1>1, Invariance, PTL

-----------------------------------------------------------------------------
(* The dispatcher implements Mailing *)

LEMMA OutcomeIs ==
  ASSUME NEW s \in Open \cup Closed
  PROVE  /\ s \in {"PENDING", "LEASED", "RETRY"} => Outcomes[s] = "open"
         /\ s = "PAUSED" => Outcomes[s] = "held"
         /\ s = "DELIVERED" => Outcomes[s] = "delivered"
         /\ s = "SUPPRESSED" => Outcomes[s] = "suppressed"
         /\ s = "DEAD_LETTER" => Outcomes[s] = "dead"
  BY DEF Outcomes

LEMMA OutcomeFinal ==
  ASSUME NEW s \in Open \cup Closed
  PROVE  /\ Outcomes[s] \in M!Outcomes /\ (Outcomes[s] \in M!Final <=> s \in Closed)
         /\ Outcomes[s] = "delivered" => s = "DELIVERED"
         /\ s \in Open \cup {"SUPPRESSED"} => Outcomes[s] \in {"open", "held", "suppressed"}
  BY OutcomeIs DEF M!Outcomes, M!Final, Open, Closed

\* A step that adds no attempt to a row leaves it open, or holds or suppresses it.
LEMMA QuietRow ==
  ASSUME IInv, RowFacts, NEW n \in Note, log'[n] = log[n]
  PROVE  /\ row[n].status \in Closed => row'[n].status = row[n].status
         /\ row[n].status \notin Closed => row'[n].status \in Open \cup {"SUPPRESSED"}
<1>1. RowStep(n) /\ row[n].status \in Open \cup Closed
  BY RowIs DEF RowFacts, Row
<1>2. ASSUME NEW t \in Task PROVE ~EndedBy(t, n, row[n], row'[n])
  <2>1. ASSUME EndedBy(t, n, row[n], row'[n]) PROVE FALSE
    <3>1. log'[n] = Append(log[n], task[t].verdict) /\ task[t].verdict \in Outcome /\ log[n] \in Seq(Outcome)
      BY <2>1, RowIs DEF EndedBy
    <3> QED
      BY <3>1, Appended
  <2> QED
    BY <2>1
<1>3. ~ClosedBy(n, row[n], row'[n])
  <2>1. ASSUME ClosedBy(n, row[n], row'[n]) PROVE FALSE
    <3>1. log'[n] = Append(log[n], "ACCEPTED") /\ "ACCEPTED" \in Outcome /\ log[n] \in Seq(Outcome)
      BY <2>1, RowIs DEF ClosedBy, Outcome
    <3> QED
      BY <3>1, Appended
  <2> QED
    BY <2>1
<1>4. CASE Brushed(row[n], row'[n])
  BY <1>1, <1>4 DEF Brushed
<1>5. CASE ParkedFrom(row[n], row'[n])
  BY <1>5 DEF ParkedFrom, Open, Closed
<1>6. CASE Lively(n) /\ ClaimedFrom(row[n], row'[n])
  BY <1>6 DEF ClaimedFrom, Lively, Open, Closed
<1>7. CASE FrozenFrom(row[n], row'[n])
  BY <1>7 DEF FrozenFrom, Open, Closed
<1>8. CASE ReleasedBy(n, row[n], row'[n])
  BY <1>8 DEF ReleasedBy, Open2, Open, Closed
<1> QED
  BY <1>1, <1>2, <1>3, <1>4, <1>5, <1>6, <1>7, <1>8 DEF RowStep

\* A step that adds one closes or parks an open row, as delivered only after the mail.
LEMMA LoudRow ==
  ASSUME IInv, RowFacts, NEW n \in Note, log'[n] # log[n]
  PROVE  /\ row[n].status \in Open /\ row'[n].status \in Open \cup Closed
         /\ row'[n].status = "DELIVERED" => mail[n].count = 1
<1>1. RowStep(n) /\ row'[n].status \in Open \cup Closed
  BY RowGrows DEF RowFacts, Row
<1>2. ASSUME NEW t \in Task, EndedBy(t, n, row[n], row'[n])
      PROVE  row[n].status \in Open /\ (row'[n].status = "DELIVERED" => mail[n].count = 1)
  <2>1. row[n].status = "LEASED" /\ (row'[n].status = "DELIVERED" <=> task[t].verdict = "ACCEPTED")
    BY <1>2, EndIs
  <2>2. task[t].verdict = "ACCEPTED" => task[t].pc = "writing" /\ task[t].note = n
    BY <1>2 DEF EndedBy
  <2>3. task[t].verdict = "ACCEPTED" => mail[n].count = 1
    BY <2>2 DEF IInv, TaskSound
  <2> QED
    BY <2>1, <2>3 DEF Open
<1>3. CASE ClosedBy(n, row[n], row'[n])
  <2>1. row[n].status = "PAUSED" /\ mail[n].count > 0
    BY <1>3 DEF ClosedBy, Open2
  <2>2. mail[n].count \in 0..2 /\ mail[n].count <= 1
    BY TypeParts DEF IInv, MailSound
  <2> QED
    BY <1>1, <2>1, <2>2 DEF Open
<1> QED
  BY <1>1, <1>2, <1>3 DEF RowStep

\* Such a step touches one row and no mail.
LEMMA LoudStep ==
  ASSUME IInv, [Next]_vars, NEW n \in Note, log'[n] # log[n]
  PROVE  mail' = mail /\ \A m \in Note : m # n => row'[m] = row[m]
<1>1. row \in [Note -> Row] /\ log \in [Note -> Seq(Outcome)]
  BY TypeParts DEF IInv
<1>2. ASSUME NEW m \in Note, \E s : row' = [row EXCEPT ![m] = s], \E l : log' = [log EXCEPT ![m] = l]
      PROVE  \A k \in Note : k # n => row'[k] = row[k]
  BY <1>1, <1>2
<1>3. ASSUME NEW t \in Task, Finalize(t) \/ CommitAccepted(t)
      PROVE  mail' = mail /\ \A m \in Note : m # n => row'[m] = row[m]
  <2>1. PICK m \in Note : m = task[t].note
    BY <1>3, TaskNotes DEF Finalize, CommitAccepted
  <2>2. \E s : row' = [row EXCEPT ![m] = s]
    BY <1>1, <1>3, <2>1 DEF Finalize, CommitAccepted
  <2>3. \E l : log' = [log EXCEPT ![m] = l]
    BY <1>1, <1>3, <2>1 DEF Finalize, CommitAccepted
  <2>4. mail' = mail
    BY <1>3 DEF Finalize, CommitAccepted, providerVars
  <2> QED
    BY <1>2, <2>2, <2>3, <2>4
<1>4. ASSUME NEW m \in Note, TerminalizeAccepted(m)
      PROVE  mail' = mail /\ \A k \in Note : k # n => row'[k] = row[k]
  <2>1. \E s : row' = [row EXCEPT ![m] = s]
    BY <1>4 DEF TerminalizeAccepted
  <2>2. \E l : log' = [log EXCEPT ![m] = l]
    BY <1>4 DEF TerminalizeAccepted
  <2>3. mail' = mail
    BY <1>4 DEF TerminalizeAccepted, providerVars
  <2> QED
    BY <1>2, <2>1, <2>2, <2>3
<1>5. ASSUME NEW t \in Task,
             \/ BeginBatch(t) \/ HeartbeatRemaining(t) \/ StartDelivery(t) \/ FreezeRequest(t) \/ Send(t) \/ Pause(t)
      PROVE  log' = log
  BY <1>5 DEF BeginBatch, Sweeping, HeartbeatRemaining, StartDelivery, FreezeRequest, Send, Pause
<1>6. ASSUME NEW m \in Note, ReleaseNotAccepted(m) \/ ExpireLease(m) PROVE log' = log
  BY <1>6 DEF ReleaseNotAccepted, ExpireLease
<1>7. ASSUME MaintainRetention PROVE log' = log
  BY <1>7 DEF MaintainRetention, Sweeping
<1> QED
  BY <1>3, <1>4, <1>5, <1>6, <1>7, RowMovers

OutcomeBar == [n \in Note |-> Outcomes[row[n].status]]
MailsBar == [n \in Note |-> mail[n].count]

LEMMA QuietMailing ==
  ASSUME IInv, RowFacts, \A n \in Note : log'[n] = log[n], MailsBar' = MailsBar
  PROVE  \E S \in SUBSET Note : M!Sweep(S)
<1>1. PICK S \in SUBSET Note : S = {n \in Note : row[n].status \notin Closed}
  OBVIOUS
<1>2. ASSUME NEW n \in Note
      PROVE  row[n].status \in Open \cup Closed /\ row'[n].status \in Open \cup Closed
  BY RowIs, RowGrows DEF Row
<1>3. \A n \in S : Outcomes[row[n].status] \notin M!Final
  BY <1>1, <1>2, OutcomeFinal
<1>4. PICK to : to = [n \in S |-> Outcomes[row'[n].status]]
  OBVIOUS
<1>5. to \in [S -> {"open", "held", "suppressed"}]
  <2>1. ASSUME NEW n \in S PROVE Outcomes[row'[n].status] \in {"open", "held", "suppressed"}
    <3>1. row'[n].status \in Open \cup {"SUPPRESSED"}
      BY <1>1, QuietRow
    <3> QED
      BY <1>2, <3>1, OutcomeFinal
  <2> QED
    BY <1>4, <2>1
<1>6. ASSUME NEW n \in Note
      PROVE  Outcomes[row'[n].status] = IF n \in S THEN to[n] ELSE Outcomes[row[n].status]
  <2>1. CASE n \in S
    BY <1>4, <2>1
  <2>2. CASE n \notin S
    <3>1. row'[n].status = row[n].status
      BY <1>1, <2>2, QuietRow
    <3> QED
      BY <2>2, <3>1
  <2> QED
    BY <2>1, <2>2
<1>7. OutcomeBar' = [n \in Note |-> IF n \in S THEN to[n] ELSE OutcomeBar[n]]
  BY <1>6 DEF OutcomeBar
<1>8. \A n \in S : OutcomeBar[n] \notin M!Final
  BY <1>1, <1>3 DEF OutcomeBar
<1> QED
  BY <1>5, <1>7, <1>8 DEF M!Sweep, OutcomeBar, MailsBar

LEMMA LoudMailing ==
  ASSUME IInv, RowFacts, [Next]_vars, NEW n \in Note, log'[n] # log[n]
  PROVE  \E o \in M!Outcomes : M!Settle(n, o)
<1>1. mail' = mail /\ \A m \in Note : m # n => row'[m] = row[m]
  BY LoudStep
<1>2. /\ row[n].status \in Open /\ row'[n].status \in Open \cup Closed
      /\ row'[n].status = "DELIVERED" => mail[n].count = 1
  BY LoudRow
<1>3. PICK o \in M!Outcomes : o = Outcomes[row'[n].status]
  BY <1>2, OutcomeFinal
<1>4. o = "delivered" => MailsBar[n] = 1
  BY <1>2, <1>3, OutcomeFinal DEF MailsBar
<1>5. OutcomeBar[n] \notin M!Final
  <2>1. row[n].status \notin Closed
    BY <1>2 DEF Open, Closed
  <2> QED
    BY <1>2, <2>1, OutcomeFinal DEF OutcomeBar
<1>6. OutcomeBar' = [OutcomeBar EXCEPT ![n] = o]
  BY <1>1, <1>3 DEF OutcomeBar
<1>7. MailsBar' = MailsBar
  BY <1>1 DEF MailsBar
<1> QED
  BY <1>4, <1>5, <1>6, <1>7 DEF M!Settle, OutcomeBar, MailsBar

\* Only an accepted request makes a mail, and it moves no row.
LEMMA MailMoves ==
  ASSUME IInv, [Next]_vars
  PROVE  \/ MailsBar' = MailsBar
         \/ \E n \in Note : M!Leave(n)
<1>1. mail \in [Note -> [count: 0..2, known: BOOLEAN]]
  BY TypeParts DEF IInv
<1>2. CASE mail' = mail
  BY <1>2 DEF MailsBar
<1>3. ASSUME NEW r \in wire, Accept(r) PROVE MailsBar' = MailsBar \/ \E n \in Note : M!Leave(n)
  <2>1. PICK n \in Note : n = r.note /\ mail'[n] = [count |-> 1, known |-> TRUE]
                          /\ \A m \in Note : m # n => mail'[m] = mail[m]
    BY <1>3, AcceptMail
  <2>2. row' = row
    BY <1>3 DEF Accept
  <2>3. mail'[n].count = 1
    BY <2>1
  <2>4. MailsBar' = [MailsBar EXCEPT ![n] = 1]
    BY <2>1, <2>3 DEF MailsBar
  <2>5. CASE mail[n].count = 0
    <3>1. OutcomeBar' = OutcomeBar /\ MailsBar[n] = 0
      BY <2>2, <2>5 DEF OutcomeBar, MailsBar
    <3>2. M!Leave(n)
      BY <2>4, <3>1 DEF M!Leave, OutcomeBar, MailsBar
    <3> QED
      BY <3>2
  <2>6. CASE mail[n].count # 0
    <3>1. mail[n].count = 1
      <4>1. mail[n].count \in 0..2 /\ mail[n].count <= 1
        BY <1>1 DEF IInv, MailSound
      <4> QED
        BY <2>6, <4>1
    <3>2. \A m \in Note : mail'[m].count = mail[m].count
      BY <2>1, <2>3, <3>1
    <3> QED
      BY <3>2 DEF MailsBar
  <2> QED
    BY <2>5, <2>6
<1>4. ASSUME NEW n \in Note, ForgetKey(n) PROVE MailsBar' = MailsBar
  <2>1. ASSUME NEW m \in Note PROVE mail'[m].count = mail[m].count
    BY <1>1, <1>4 DEF ForgetKey
  <2> QED
    BY <2>1 DEF MailsBar
<1>5. ASSUME NEW t \in Task, Send(t) PROVE mail' = mail
  BY <1>5 DEF Send
<1>6. ASSUME NEW r \in wire, Refuse(r) PROVE mail' = mail
  BY <1>6 DEF Refuse
<1> QED
  BY <1>2, <1>3, <1>4, <1>5, <1>6, ProviderMovers

\* The dispatcher, the sweep, the operator and the provider together are a Mailing: at
\* most one mail of a notification, none reported as delivered that did not leave, and
\* final outcomes.
THEOREM ImplementsMailing == Spec => MailingSpec
<1>1. Init => M!Init
  <2> SUFFICES ASSUME Init PROVE M!Init
    OBVIOUS
  <2>1. ASSUME NEW n \in Note PROVE Outcomes[row[n].status] = "open" /\ mail[n].count = 0
    BY DEF Init, NewRow, Outcomes
  <2> QED
    BY <2>1 DEF M!Init
<1>2. IInv /\ [Next]_vars => [M!Next]_<<OutcomeBar, MailsBar>>
  <2> SUFFICES ASSUME IInv, [Next]_vars PROVE [M!Next]_<<OutcomeBar, MailsBar>>
    OBVIOUS
  <2>1. RowFacts
    BY RowFollows
  <2>2. CASE \E n \in Note : log'[n] # log[n]
    <3>1. PICK n \in Note : log'[n] # log[n]
      BY <2>2
    <3>2. \E o \in M!Outcomes : M!Settle(n, o)
      BY <2>1, <3>1, LoudMailing
    <3> QED
      BY <3>2 DEF M!Next
  <2>3. CASE \E n \in Note : M!Leave(n)
    BY <2>3 DEF M!Next
  <2>4. CASE MailsBar' = MailsBar /\ \A n \in Note : log'[n] = log[n]
    <3>1. \E S \in SUBSET Note : M!Sweep(S)
      BY <2>1, <2>4, QuietMailing
    <3> QED
      BY <3>1 DEF M!Next
  <2> QED
    BY <2>2, <2>3, <2>4, MailMoves
<1>3. <<OutcomeBar, MailsBar>> = <<[n \in Note |-> Outcomes[row[n].status]], [n \in Note |-> mail[n].count]>>
  BY DEF OutcomeBar, MailsBar
<1> QED
  BY <1>1, <1>2, <1>3, Invariance, PTL DEF Spec, MailingSpec, M!Spec, OutcomeBar, MailsBar
=============================================================================
