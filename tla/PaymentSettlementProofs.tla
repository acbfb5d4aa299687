---------------------- MODULE PaymentSettlementProofs ----------------------
(* The safety theorems of PaymentSettlement, for every value of its constants: what each step    *)
(* may change, for any number of orders, requests, webhooks, workers, events and changes of the  *)
(* provider's activation; the inductive invariant; and the properties that follow from it.       *)
EXTENDS PaymentSettlement, TLAPS

AttemptRow == [status: AttemptStatus, code: Code, at: 0..MaxTime, rank: {0, 10, 20, 30, 100}]
InboxRow == [status: InboxStatus, code: {"none", "revoked", "other"}]
CallRow == [pc: {"idle", "prepared", "reserved", "stale", "answered", "failed", "expiring",
                "undoing"},
            order: Order \cup {NoOrder}]
HookRow == [event: Event \cup {NoEvent}, replay: BOOLEAN, outbound: BOOLEAN]
TaskRow == [pc: {"idle", "read", "settled"}, event: Event \cup {NoEvent},
            renewal: BOOLEAN, verdict: {"PROJECTED", "HELD"}]

(***************************************************************************)
(* The inductive invariant.                                                *)
(***************************************************************************)
\* A request works for an order.
CallSound == \A c \in Caller : call[c].pc # "idle" => call[c].order \in Order

\* The news of a payment exist only when it was made, and nothing is newer
\* than they are but the completion of its session.
SentSound ==
  \A o \in Order :
    /\ \A k \in Paid : sent[<<o, k>>] > 0 => session[o] = "paid"
    /\ \A s \in Settling : sent[<<o, s>>] > 0
         => sent[<<o, "declined">>] <= sent[<<o, s>>] /\ sent[<<o, "closed">>] <= sent[<<o, s>>]

\* Nobody handles an event that was not sent.
HookSound == \A h \in Hook : hook[h].event # NoEvent => hook[h].event \in Emits /\ sent[hook[h].event] > 0
InboxSound == \A e \in Event : inbox[e].status # "none" => sent[e] > 0

\* What a worker has read stays true enough: a subscription once found is not
\* lost, a settlement once made is not undone.
TaskSound ==
  \A p \in Projector : task[p].pc # "idle" =>
    LET e == task[p].event IN
    /\ e \in Emits /\ sent[e] > 0
    /\ task[p].renewal => e[2] \in Settling /\ order[e[1]] = "PAID"
    /\ task[p].pc = "settled" => e[2] \in Settling /\ (task[p].verdict = "PROJECTED" => order[e[1]] = "PAID")

\* An attempt without a cursor is the only one nobody wrote to; money that met a held
\* attempt leaves its time there, and no failure is newer.
CursorSound ==
  \A o \in Order :
    /\ attempt[o].status = "CREATED" => attempt[o].at = 0
    /\ attempt[o].rank = 100 => /\ attempt[o].status \notin {"FAILED", "EXPIRED"}
                                /\ \E s \in Settling : sent[<<o, s>>] = attempt[o].at

\* The cursor has passed what was projected.
CursorPassed ==
  \A e \in Emits : inbox[e].status = "PROJECTED" =>
    \/ order[e[1]] = "PAID"
    \/ sent[e] <= attempt[e[1]].at
    \/ attempt[e[1]].rank = 100 /\ e[2] = "completed"

IInv ==
  /\ TypeOK /\ CallSound /\ SentSound /\ HookSound /\ InboxSound /\ TaskSound
  /\ SettledTogether /\ ProjectedIsPaid /\ CursorSound /\ CursorPassed

-----------------------------------------------------------------------------
(* Types *)

AttemptOK ==
  /\ attempt \in [Order -> AttemptRow]
  /\ \A o \in Order :
       /\ attempt[o].status \in {"FAILED", "HELD"} => attempt[o].code # "none"
       /\ attempt[o].at = 0 <=> attempt[o].rank = 0

LEMMA Ranks == /\ Rank("PENDING") = 10 /\ Rank("EXPIRED") = 20
               /\ Rank("FAILED") = 30 /\ Rank("SUCCEEDED") = 100
  BY DEF Rank

LEMMA Events ==
  ASSUME NEW e \in Emits
  PROVE  e \in Event /\ e[1] \in Order /\ e[2] \in Kind /\ e = <<e[1], e[2]>>
  BY Emissions DEF Event

(* Updates of an attempt's status, and of its cursor. *)
WithStatus(f, o, s, c) ==
  [u \in Order |-> IF u = o THEN [f[u] EXCEPT !.status = s, !.code = c] ELSE f[u]]
WithCursor(f, o, s, c, t, r) ==
  [u \in Order |-> IF u = o THEN [f[u] EXCEPT !.status = s, !.code = c, !.at = t, !.rank = r] ELSE f[u]]
WithTime(f, o, t, r) ==
  [u \in Order |-> IF u = o THEN [f[u] EXCEPT !.at = t, !.rank = r] ELSE f[u]]

LEMMA StatusIs ==
  ASSUME NEW f \in [Order -> AttemptRow], NEW o \in Order, NEW s, NEW c
  PROVE  [f EXCEPT ![o].status = s, ![o].code = c] = WithStatus(f, o, s, c)
  BY DEF WithStatus

LEMMA StatusFields ==
  ASSUME NEW f \in [Order -> AttemptRow], NEW o \in Order, NEW s, NEW c
  PROVE  /\ \A u \in Order : u # o => WithStatus(f, o, s, c)[u] = f[u]
         /\ WithStatus(f, o, s, c)[o].status = s /\ WithStatus(f, o, s, c)[o].code = c
         /\ WithStatus(f, o, s, c)[o].at = f[o].at /\ WithStatus(f, o, s, c)[o].rank = f[o].rank
<1>1. f[o] \in AttemptRow
  OBVIOUS
<1> QED
  BY <1>1 DEF WithStatus, AttemptRow

LEMMA StatusTyped ==
  ASSUME NEW f \in [Order -> AttemptRow], NEW o \in Order, NEW s \in AttemptStatus, NEW c \in Code
  PROVE  WithStatus(f, o, s, c) \in [Order -> AttemptRow]
<1>1. ASSUME NEW a \in AttemptRow PROVE [a EXCEPT !.status = s, !.code = c] \in AttemptRow
  BY DEF AttemptRow
<1> QED
  BY <1>1 DEF WithStatus

LEMMA CursorIs ==
  ASSUME NEW f \in [Order -> AttemptRow], NEW o \in Order, NEW s, NEW c, NEW t, NEW r
  PROVE  [f EXCEPT ![o].status = s, ![o].code = c, ![o].at = t, ![o].rank = r] = WithCursor(f, o, s, c, t, r)
  BY DEF WithCursor

LEMMA CursorFields ==
  ASSUME NEW f \in [Order -> AttemptRow], NEW o \in Order, NEW s, NEW c, NEW t, NEW r
  PROVE  /\ \A u \in Order : u # o => WithCursor(f, o, s, c, t, r)[u] = f[u]
         /\ WithCursor(f, o, s, c, t, r)[o].status = s /\ WithCursor(f, o, s, c, t, r)[o].code = c
         /\ WithCursor(f, o, s, c, t, r)[o].at = t /\ WithCursor(f, o, s, c, t, r)[o].rank = r
<1>1. f[o] \in AttemptRow
  OBVIOUS
<1> QED
  BY <1>1 DEF WithCursor, AttemptRow

LEMMA CursorTyped ==
  ASSUME NEW f \in [Order -> AttemptRow], NEW o \in Order, NEW s \in AttemptStatus, NEW c \in Code,
         NEW t \in 0..MaxTime, NEW r \in {0, 10, 20, 30, 100}
  PROVE  WithCursor(f, o, s, c, t, r) \in [Order -> AttemptRow]
<1>1. ASSUME NEW a \in AttemptRow PROVE [a EXCEPT !.status = s, !.code = c, !.at = t, !.rank = r] \in AttemptRow
  BY DEF AttemptRow
<1> QED
  BY <1>1 DEF WithCursor

LEMMA TimeIs ==
  ASSUME NEW f \in [Order -> AttemptRow], NEW o \in Order, NEW t, NEW r
  PROVE  [f EXCEPT ![o].at = t, ![o].rank = r] = WithTime(f, o, t, r)
  BY DEF WithTime

LEMMA TimeFields ==
  ASSUME NEW f \in [Order -> AttemptRow], NEW o \in Order, NEW t, NEW r
  PROVE  /\ \A u \in Order : u # o => WithTime(f, o, t, r)[u] = f[u]
         /\ WithTime(f, o, t, r)[o].status = f[o].status /\ WithTime(f, o, t, r)[o].code = f[o].code
         /\ WithTime(f, o, t, r)[o].at = t /\ WithTime(f, o, t, r)[o].rank = r
<1>1. f[o] \in AttemptRow
  OBVIOUS
<1> QED
  BY <1>1 DEF WithTime, AttemptRow

LEMMA TimeTyped ==
  ASSUME NEW f \in [Order -> AttemptRow], NEW o \in Order, NEW t \in 0..MaxTime, NEW r \in {0, 10, 20, 30, 100}
  PROVE  WithTime(f, o, t, r) \in [Order -> AttemptRow]
<1>1. ASSUME NEW a \in AttemptRow PROVE [a EXCEPT !.at = t, !.rank = r] \in AttemptRow
  BY DEF AttemptRow
<1> QED
  BY <1>1 DEF WithTime

(* Such an update keeps the checks, if its values do. *)
LEMMA ChecksKept ==
  ASSUME AttemptOK, NEW o \in Order, attempt' \in [Order -> AttemptRow],
         \A u \in Order : u # o => attempt'[u] = attempt[u],
         attempt'[o].status \in {"FAILED", "HELD"} => attempt'[o].code # "none",
         attempt'[o].at = 0 <=> attempt'[o].rank = 0
  PROVE  AttemptOK'
<1>1. ASSUME NEW u \in Order
      PROVE  /\ attempt'[u].status \in {"FAILED", "HELD"} => attempt'[u].code # "none"
             /\ attempt'[u].at = 0 <=> attempt'[u].rank = 0
  <2>1. CASE u = o
    BY <2>1
  <2>2. CASE u # o
    BY <2>2 DEF AttemptOK
  <2> QED
    BY <2>1, <2>2
<1> QED
  BY <1>1 DEF AttemptOK

LEMMA StatusKeepsOK ==
  ASSUME AttemptOK, NEW o \in Order, NEW s \in AttemptStatus, NEW c \in Code,
         s \in {"FAILED", "HELD"} => c # "none",
         attempt' = WithStatus(attempt, o, s, c)
  PROVE  AttemptOK'
<1>1. attempt \in [Order -> AttemptRow]
  BY DEF AttemptOK
<1>2. attempt' \in [Order -> AttemptRow]
  BY <1>1, StatusTyped
<1>3. /\ \A u \in Order : u # o => attempt'[u] = attempt[u]
      /\ attempt'[o].status = s /\ attempt'[o].code = c
      /\ attempt'[o].at = attempt[o].at /\ attempt'[o].rank = attempt[o].rank
  BY <1>1, StatusFields
<1>4. attempt'[o].at = 0 <=> attempt'[o].rank = 0
  BY <1>3 DEF AttemptOK
<1> QED
  BY <1>2, <1>3, <1>4, ChecksKept

LEMMA CursorKeepsOK ==
  ASSUME AttemptOK, NEW o \in Order, NEW s \in AttemptStatus, NEW c \in Code,
         s \in {"FAILED", "HELD"} => c # "none",
         NEW t \in 0..MaxTime, t # 0, NEW r \in {10, 20, 30, 100},
         attempt' = WithCursor(attempt, o, s, c, t, r)
  PROVE  AttemptOK'
<1>0. r \in {0, 10, 20, 30, 100} /\ r # 0
  OBVIOUS
<1>1. attempt \in [Order -> AttemptRow]
  BY DEF AttemptOK
<1>2. attempt' \in [Order -> AttemptRow]
  BY <1>0, <1>1, CursorTyped
<1>3. /\ \A u \in Order : u # o => attempt'[u] = attempt[u]
      /\ attempt'[o].status = s /\ attempt'[o].code = c /\ attempt'[o].at = t /\ attempt'[o].rank = r
  BY <1>1, CursorFields
<1> QED
  BY <1>0, <1>2, <1>3, ChecksKept

LEMMA TimeKeepsOK ==
  ASSUME AttemptOK, NEW o \in Order, NEW t \in 0..MaxTime, t # 0, NEW r \in {10, 20, 30, 100},
         attempt' = WithTime(attempt, o, t, r)
  PROVE  AttemptOK'
<1>0. r \in {0, 10, 20, 30, 100} /\ r # 0
  OBVIOUS
<1>1. attempt \in [Order -> AttemptRow]
  BY DEF AttemptOK
<1>2. attempt' \in [Order -> AttemptRow]
  BY <1>0, <1>1, TimeTyped
<1>3. /\ \A u \in Order : u # o => attempt'[u] = attempt[u]
      /\ attempt'[o].status = attempt[o].status /\ attempt'[o].code = attempt[o].code
      /\ attempt'[o].at = t /\ attempt'[o].rank = r
  BY <1>1, TimeFields
<1>4. attempt'[o].status \in {"FAILED", "HELD"} => attempt'[o].code # "none"
  BY <1>3 DEF AttemptOK
<1> QED
  BY <1>0, <1>2, <1>3, <1>4, ChecksKept

-----------------------------------------------------------------------------
(* Who changes what *)

LEMMA BillingMovers ==
  ASSUME [Next]_vars
  PROVE  \/ UNCHANGED <<order, attempt, invoices>>
         \/ \E c \in Caller, o \in Order : CreateOrder(c, o) \/ ReplayOrder(c, o)
         \/ \E c \in Caller : HoldStaleAuthority(c) \/ RecordFailure(c) \/ RecordSession(c)
         \/ \E h \in Hook : Ingest(h)
         \/ \E e \in Emits : Release(e)
         \/ \E p \in Projector, target \in {"FAILED", "EXPIRED"} : ProjectNonSuccess(p, target)
         \/ \E p \in Projector : BindCheckout(p) \/ Settle(p)
<1>1. ASSUME \E c \in Caller : Checkout(c)
      PROVE  \/ UNCHANGED <<order, attempt, invoices>>
             \/ \E c \in Caller, o \in Order : CreateOrder(c, o) \/ ReplayOrder(c, o)
             \/ \E c \in Caller : HoldStaleAuthority(c) \/ RecordFailure(c) \/ RecordSession(c)
  BY <1>1 DEF Checkout, Reserve, CallProvider, SessionUnrecorded, ExpireSession, billingVars
<1>2. ASSUME \E o \in Order : Decline(o) \/ Pay(o) \/ CloseSession(o) \/ Lapse(o)
      PROVE  \/ UNCHANGED <<order, attempt, invoices>>
  BY <1>2 DEF Decline, Pay, CloseSession, Lapse, billingVars
<1>3. ASSUME Withdraw \/ Reactivate \/ Resume \/ Die
      PROVE  UNCHANGED <<order, attempt, invoices>>
  BY <1>3 DEF Withdraw, Reactivate, Resume, Die, billingVars
<1>4. ASSUME \E h \in Hook : (\E e \in Emits : Receive(h, e)) \/ Repeat(h) \/ Ingest(h)
      PROVE  \/ UNCHANGED <<order, attempt, invoices>>
             \/ \E h \in Hook : Ingest(h)
  BY <1>4 DEF Receive, Repeat, billingVars
<1>5. ASSUME \E e \in Emits : Release(e) \/ PauseWork(e)
      PROVE  \/ UNCHANGED <<order, attempt, invoices>>
             \/ \E e \in Emits : Release(e)
  BY <1>5 DEF PauseWork, billingVars
<1>6. ASSUME \E p \in Projector : Project(p) \/ ProjectionFails(p)
      PROVE  \/ UNCHANGED <<order, attempt, invoices>>
             \/ \E p \in Projector, target \in {"FAILED", "EXPIRED"} : ProjectNonSuccess(p, target)
             \/ \E p \in Projector : BindCheckout(p) \/ Settle(p)
  BY <1>6 DEF Project, Begin, ProjectRenewal, Terminalize, ProjectionFails, billingVars
<1>7. UNCHANGED vars => UNCHANGED <<order, attempt, invoices>>
  BY DEF vars, billingVars
<1> QED
  BY <1>1, <1>2, <1>3, <1>4, <1>5, <1>6, <1>7 DEF Next

LEMMA InboxMovers ==
  ASSUME [Next]_vars
  PROVE  \/ inbox' = inbox
         \/ \E h \in Hook : Ingest(h)
         \/ \E e \in Emits : Release(e)
         \/ \E p \in Projector, target \in {"FAILED", "EXPIRED"} : ProjectNonSuccess(p, target)
         \/ \E p \in Projector : BindCheckout(p) \/ ProjectRenewal(p) \/ Terminalize(p) \/ ProjectionFails(p)
<1>1. ASSUME \E c \in Caller : Checkout(c)
      PROVE  inbox' = inbox
  BY <1>1 DEF Checkout, CreateOrder, ReplayOrder, Reserve, HoldStaleAuthority, CallProvider,
         RecordFailure, RecordSession, SessionUnrecorded, ExpireSession, inboxVars
<1>2. ASSUME \E o \in Order : Decline(o) \/ Pay(o) \/ CloseSession(o) \/ Lapse(o)
      PROVE  inbox' = inbox
  BY <1>2 DEF Decline, Pay, CloseSession, Lapse, inboxVars
<1>3. ASSUME Withdraw \/ Reactivate \/ Resume \/ Die
      PROVE  inbox' = inbox
  BY <1>3 DEF Withdraw, Reactivate, Resume, Die, inboxVars
<1>4. ASSUME \E h \in Hook : (\E e \in Emits : Receive(h, e)) \/ Repeat(h) \/ Ingest(h)
      PROVE  \/ inbox' = inbox
             \/ \E h \in Hook : Ingest(h)
  BY <1>4 DEF Receive, Repeat, inboxVars
<1>5. ASSUME \E e \in Emits : Release(e) \/ PauseWork(e)
      PROVE  \/ inbox' = inbox
             \/ \E e \in Emits : Release(e)
  BY <1>5 DEF PauseWork, inboxVars
<1>6. ASSUME \E p \in Projector : Project(p) \/ ProjectionFails(p)
      PROVE  \/ inbox' = inbox
             \/ \E p \in Projector, target \in {"FAILED", "EXPIRED"} : ProjectNonSuccess(p, target)
             \/ \E p \in Projector : BindCheckout(p) \/ ProjectRenewal(p) \/ Terminalize(p) \/ ProjectionFails(p)
  BY <1>6 DEF Project, Begin, Settle, inboxVars
<1>7. UNCHANGED vars => inbox' = inbox
  BY DEF vars, inboxVars
<1> QED
  BY <1>1, <1>2, <1>3, <1>4, <1>5, <1>6, <1>7 DEF Next

LEMMA WorkMovers ==
  ASSUME [Next]_vars
  PROVE  \/ work' = work
         \/ Resume
         \/ \E h \in Hook : Repeat(h) \/ Ingest(h)
         \/ \E e \in Emits : Release(e) \/ PauseWork(e)
<1>1. ASSUME \E c \in Caller : Checkout(c)
      PROVE  work' = work
  BY <1>1 DEF Checkout, CreateOrder, ReplayOrder, Reserve, HoldStaleAuthority, CallProvider,
         RecordFailure, RecordSession, SessionUnrecorded, ExpireSession, inboxVars
<1>2. ASSUME \E o \in Order : Decline(o) \/ Pay(o) \/ CloseSession(o) \/ Lapse(o)
      PROVE  work' = work
  BY <1>2 DEF Decline, Pay, CloseSession, Lapse, inboxVars
<1>3. ASSUME Withdraw \/ Reactivate \/ Resume \/ Die
      PROVE  \/ work' = work
             \/ Resume
  BY <1>3 DEF Withdraw, Reactivate, Die, inboxVars
<1>4. ASSUME \E h \in Hook : (\E e \in Emits : Receive(h, e)) \/ Repeat(h) \/ Ingest(h)
      PROVE  \/ work' = work
             \/ \E h \in Hook : Repeat(h) \/ Ingest(h)
  BY <1>4 DEF Receive, inboxVars
<1>5. ASSUME \E e \in Emits : Release(e) \/ PauseWork(e)
      PROVE  \/ work' = work
             \/ \E e \in Emits : Release(e) \/ PauseWork(e)
  BY <1>5 DEF inboxVars
<1>6. ASSUME \E p \in Projector : Project(p) \/ ProjectionFails(p)
      PROVE  work' = work
  <2>1. ASSUME NEW p \in Projector, Project(p) \/ ProjectionFails(p)
        PROVE  work' = work
    BY <2>1 DEF Project, Begin, ProjectNonSuccess, BindCheckout, ProjectRenewal, Settle, Terminalize,
         ProjectionFails, inboxVars
  <2> QED
    BY <1>6, <2>1
<1>7. UNCHANGED vars => work' = work
  BY DEF vars, inboxVars
<1> QED
  BY <1>1, <1>2, <1>3, <1>4, <1>5, <1>6, <1>7 DEF Next

LEMMA ProviderMovers ==
  ASSUME [Next]_vars
  PROVE  \/ UNCHANGED <<session, sent>>
         \/ \E c \in Caller : CallProvider(c) \/ RecordSession(c) \/ ExpireSession(c)
         \/ \E o \in Order : Decline(o) \/ Pay(o) \/ CloseSession(o)
<1>1. ASSUME \E c \in Caller : Checkout(c)
      PROVE  \/ UNCHANGED <<session, sent>>
             \/ \E c \in Caller : CallProvider(c) \/ RecordSession(c) \/ ExpireSession(c)
  BY <1>1 DEF Checkout, CreateOrder, ReplayOrder, Reserve, HoldStaleAuthority, RecordFailure,
         SessionUnrecorded, providerVars
<1>2. ASSUME \E o \in Order : Decline(o) \/ Pay(o) \/ CloseSession(o) \/ Lapse(o)
      PROVE  \/ UNCHANGED <<session, sent>>
             \/ \E o \in Order : Decline(o) \/ Pay(o) \/ CloseSession(o)
  BY <1>2 DEF Lapse, providerVars
<1>3. ASSUME Withdraw \/ Reactivate \/ Resume \/ Die
      PROVE  UNCHANGED <<session, sent>>
  BY <1>3 DEF Withdraw, Reactivate, Resume, Die, providerVars
<1>4. ASSUME \E h \in Hook : (\E e \in Emits : Receive(h, e)) \/ Repeat(h) \/ Ingest(h)
      PROVE  UNCHANGED <<session, sent>>
  BY <1>4 DEF Receive, Repeat, Ingest, providerVars
<1>5. ASSUME \E e \in Emits : Release(e) \/ PauseWork(e)
      PROVE  UNCHANGED <<session, sent>>
  BY <1>5 DEF Release, PauseWork, providerVars
<1>6. ASSUME \E p \in Projector : Project(p) \/ ProjectionFails(p)
      PROVE  UNCHANGED <<session, sent>>
  <2>1. ASSUME NEW p \in Projector, Project(p) \/ ProjectionFails(p)
        PROVE  UNCHANGED <<session, sent>>
    BY <2>1 DEF Project, Begin, ProjectNonSuccess, BindCheckout, ProjectRenewal, Settle, Terminalize,
         ProjectionFails, providerVars
  <2> QED
    BY <1>6, <2>1
<1>7. UNCHANGED vars => UNCHANGED <<session, sent>>
  BY DEF vars, providerVars
<1> QED
  BY <1>1, <1>2, <1>3, <1>4, <1>5, <1>6, <1>7 DEF Next

LEMMA WorldMovers ==
  ASSUME [Next]_vars
  PROVE  \/ UNCHANGED <<changes, bound, overdue, faults>>
         \/ \E c \in Caller, o \in Order : CreateOrder(c, o)
         \/ \E o \in Order : Lapse(o)
         \/ Withdraw \/ Reactivate \/ Die
         \/ \E p \in Projector : ProjectionFails(p)
<1>1. ASSUME \E c \in Caller : Checkout(c)
      PROVE  \/ UNCHANGED <<changes, bound, overdue, faults>>
             \/ \E c \in Caller, o \in Order : CreateOrder(c, o)
  BY <1>1 DEF Checkout, ReplayOrder, Reserve, HoldStaleAuthority, CallProvider, RecordFailure,
         RecordSession, SessionUnrecorded, ExpireSession, worldVars
<1>2. ASSUME \E o \in Order : Decline(o) \/ Pay(o) \/ CloseSession(o) \/ Lapse(o)
      PROVE  \/ UNCHANGED <<changes, bound, overdue, faults>>
             \/ \E o \in Order : Lapse(o)
  BY <1>2 DEF Decline, Pay, CloseSession, worldVars
<1>3. ASSUME Withdraw \/ Reactivate \/ Resume \/ Die
      PROVE  \/ UNCHANGED <<changes, bound, overdue, faults>>
             \/ Withdraw \/ Reactivate \/ Die
  BY <1>3 DEF Resume, worldVars
<1>4. ASSUME \E h \in Hook : (\E e \in Emits : Receive(h, e)) \/ Repeat(h) \/ Ingest(h)
      PROVE  UNCHANGED <<changes, bound, overdue, faults>>
  BY <1>4 DEF Receive, Repeat, Ingest, worldVars
<1>5. ASSUME \E e \in Emits : Release(e) \/ PauseWork(e)
      PROVE  UNCHANGED <<changes, bound, overdue, faults>>
  BY <1>5 DEF Release, PauseWork, worldVars
<1>6. ASSUME \E p \in Projector : Project(p) \/ ProjectionFails(p)
      PROVE  \/ UNCHANGED <<changes, bound, overdue, faults>>
             \/ \E p \in Projector : ProjectionFails(p)
  <2>1. ASSUME NEW p \in Projector, Project(p) PROVE UNCHANGED <<changes, bound, overdue, faults>>
    BY <2>1 DEF Project, Begin, ProjectNonSuccess, BindCheckout, ProjectRenewal, Settle, Terminalize, worldVars
  <2> QED
    BY <1>6, <2>1
<1>7. UNCHANGED vars => UNCHANGED <<changes, bound, overdue, faults>>
  BY DEF vars, worldVars
<1> QED
  BY <1>1, <1>2, <1>3, <1>4, <1>5, <1>6, <1>7 DEF Next

LEMMA CallMovers ==
  ASSUME [Next]_vars
  PROVE  \/ call' = call
         \/ \E c \in Caller, o \in Order : CreateOrder(c, o) \/ ReplayOrder(c, o)
         \/ \E c \in Caller : Reserve(c) \/ HoldStaleAuthority(c) \/ CallProvider(c) \/ RecordFailure(c)
              \/ RecordSession(c) \/ SessionUnrecorded(c) \/ ExpireSession(c)
         \/ Die
<1>1. ASSUME \E c \in Caller : Checkout(c)
      PROVE  \/ call' = call
             \/ \E c \in Caller, o \in Order : CreateOrder(c, o) \/ ReplayOrder(c, o)
             \/ \E c \in Caller : Reserve(c) \/ HoldStaleAuthority(c) \/ CallProvider(c) \/ RecordFailure(c)
              \/ RecordSession(c) \/ SessionUnrecorded(c) \/ ExpireSession(c)
  BY <1>1 DEF Checkout
<1>2. ASSUME \E o \in Order : Decline(o) \/ Pay(o) \/ CloseSession(o) \/ Lapse(o)
      PROVE  call' = call
  BY <1>2 DEF Decline, Pay, CloseSession, Lapse
<1>3. ASSUME Withdraw \/ Reactivate \/ Resume \/ Die
      PROVE  \/ call' = call
             \/ Die
  BY <1>3 DEF Withdraw, Reactivate, Resume
<1>4. ASSUME \E h \in Hook : (\E e \in Emits : Receive(h, e)) \/ Repeat(h) \/ Ingest(h)
      PROVE  call' = call
  BY <1>4 DEF Receive, Repeat, Ingest
<1>5. ASSUME \E e \in Emits : Release(e) \/ PauseWork(e)
      PROVE  call' = call
  BY <1>5 DEF Release, PauseWork
<1>6. ASSUME \E p \in Projector : Project(p) \/ ProjectionFails(p)
      PROVE  call' = call
  <2>1. ASSUME NEW p \in Projector, Project(p) \/ ProjectionFails(p)
        PROVE  call' = call
    BY <2>1 DEF Project, Begin, ProjectNonSuccess, BindCheckout, ProjectRenewal, Settle, Terminalize,
         ProjectionFails
  <2> QED
    BY <1>6, <2>1
<1>7. UNCHANGED vars => call' = call
  BY DEF vars
<1> QED
  BY <1>1, <1>2, <1>3, <1>4, <1>5, <1>6, <1>7 DEF Next

LEMMA HookMovers ==
  ASSUME [Next]_vars
  PROVE  \/ hook' = hook
         \/ Die
         \/ \E h \in Hook, e \in Emits : Receive(h, e)
         \/ \E h \in Hook : Repeat(h) \/ Ingest(h)
<1>1. ASSUME \E c \in Caller : Checkout(c)
      PROVE  hook' = hook
  BY <1>1 DEF Checkout, CreateOrder, ReplayOrder, Reserve, HoldStaleAuthority, CallProvider,
         RecordFailure, RecordSession, SessionUnrecorded, ExpireSession
<1>2. ASSUME \E o \in Order : Decline(o) \/ Pay(o) \/ CloseSession(o) \/ Lapse(o)
      PROVE  hook' = hook
  BY <1>2 DEF Decline, Pay, CloseSession, Lapse
<1>3. ASSUME Withdraw \/ Reactivate \/ Resume \/ Die
      PROVE  \/ hook' = hook
             \/ Die
  BY <1>3 DEF Withdraw, Reactivate, Resume
<1>4. ASSUME \E h \in Hook : (\E e \in Emits : Receive(h, e)) \/ Repeat(h) \/ Ingest(h)
      PROVE  \/ hook' = hook
             \/ \E h \in Hook, e \in Emits : Receive(h, e)
             \/ \E h \in Hook : Repeat(h) \/ Ingest(h)
  BY <1>4
<1>5. ASSUME \E e \in Emits : Release(e) \/ PauseWork(e)
      PROVE  hook' = hook
  BY <1>5 DEF Release, PauseWork
<1>6. ASSUME \E p \in Projector : Project(p) \/ ProjectionFails(p)
      PROVE  hook' = hook
  <2>1. ASSUME NEW p \in Projector, Project(p) \/ ProjectionFails(p)
        PROVE  hook' = hook
    BY <2>1 DEF Project, Begin, ProjectNonSuccess, BindCheckout, ProjectRenewal, Settle, Terminalize,
         ProjectionFails
  <2> QED
    BY <1>6, <2>1
<1>7. UNCHANGED vars => hook' = hook
  BY DEF vars
<1> QED
  BY <1>1, <1>2, <1>3, <1>4, <1>5, <1>6, <1>7 DEF Next

LEMMA TaskMovers ==
  ASSUME [Next]_vars
  PROVE  \/ task' = task
         \/ Die
         \/ \E p \in Projector, e \in Emits : Begin(p, e)
         \/ \E p \in Projector, target \in {"FAILED", "EXPIRED"} : ProjectNonSuccess(p, target)
         \/ \E p \in Projector : BindCheckout(p) \/ ProjectRenewal(p) \/ Settle(p) \/ Terminalize(p) \/ ProjectionFails(p)
<1>1. ASSUME \E c \in Caller : Checkout(c)
      PROVE  task' = task
  BY <1>1 DEF Checkout, CreateOrder, ReplayOrder, Reserve, HoldStaleAuthority, CallProvider,
         RecordFailure, RecordSession, SessionUnrecorded, ExpireSession
<1>2. ASSUME \E o \in Order : Decline(o) \/ Pay(o) \/ CloseSession(o) \/ Lapse(o)
      PROVE  task' = task
  BY <1>2 DEF Decline, Pay, CloseSession, Lapse
<1>3. ASSUME Withdraw \/ Reactivate \/ Resume \/ Die
      PROVE  \/ task' = task
             \/ Die
  BY <1>3 DEF Withdraw, Reactivate, Resume
<1>4. ASSUME \E h \in Hook : (\E e \in Emits : Receive(h, e)) \/ Repeat(h) \/ Ingest(h)
      PROVE  task' = task
  BY <1>4 DEF Receive, Repeat, Ingest
<1>5. ASSUME \E e \in Emits : Release(e) \/ PauseWork(e)
      PROVE  task' = task
  BY <1>5 DEF Release, PauseWork
<1>6. ASSUME \E p \in Projector : Project(p) \/ ProjectionFails(p)
      PROVE  \/ task' = task
             \/ \E p \in Projector, e \in Emits : Begin(p, e)
             \/ \E p \in Projector, target \in {"FAILED", "EXPIRED"} : ProjectNonSuccess(p, target)
             \/ \E p \in Projector : BindCheckout(p) \/ ProjectRenewal(p) \/ Settle(p) \/ Terminalize(p) \/ ProjectionFails(p)
  BY <1>6 DEF Project
<1>7. UNCHANGED vars => task' = task
  BY DEF vars
<1> QED
  BY <1>1, <1>2, <1>3, <1>4, <1>5, <1>6, <1>7 DEF Next

-----------------------------------------------------------------------------
(* What one step does to orders, attempts and invoices *)

StatusMove(o, s, c) ==
  /\ attempt[o].status # "SUCCEEDED"
  /\ s = "HELD" => c # "none"
  /\ attempt' = WithStatus(attempt, o, s, c)

NewsMove(e, target) ==
  /\ e[2] \in {"declined", "closed"} /\ sent[e] > 0
  /\ attempt[e[1]].status # "SUCCEEDED" /\ ~Older(e, target)
  /\ attempt' = WithCursor(attempt, e[1], target, "other", sent[e], Rank(target))

BindMove(e) ==
  /\ e[2] = "completed" /\ sent[e] > 0
  /\ attempt[e[1]].status # "SUCCEEDED" /\ ~Older(e, "PENDING")
  /\ attempt' = WithCursor(attempt, e[1], "PENDING", "none", sent[e], Rank("PENDING"))

MoneyMove(e) ==
  /\ e[2] \in Settling /\ sent[e] > 0
  /\ attempt[e[1]].status = "HELD"
  /\ attempt' = WithTime(attempt, e[1], sent[e], Rank("SUCCEEDED"))

SettledRow(e) == [status |-> "SUCCEEDED", code |-> "none", at |-> sent[e], rank |-> Rank("SUCCEEDED")]
SettleMove(e) ==
  /\ e[2] \in Settling /\ sent[e] > 0 /\ ~Overlaps
  /\ attempt' = [attempt EXCEPT ![e[1]] = SettledRow(e)]
  /\ order' = [order EXCEPT ![e[1]] = "PAID"]
  /\ invoices' = [invoices EXCEPT ![e[1]] = @ + 1]

LEMMA TypeParts ==
  TypeOK <=>
    /\ order \in [Order -> OrderStatus] /\ AttemptOK /\ invoices \in [Order -> 0..1]
    /\ inbox \in [Event -> InboxRow] /\ work \in [Event -> {"none", "queued", "paused"}]
    /\ changes \in 0..MaxChanges /\ bound \subseteq Order /\ overdue \subseteq Order
    /\ session \in [Order -> {"none", "open", "offered", "paid", "expired"}]
    /\ sent \in [Event -> 0..MaxTime]
    /\ call \in [Caller -> CallRow] /\ hook \in [Hook -> HookRow] /\ task \in [Projector -> TaskRow]
    /\ faults \in 0..MaxFaults
  BY DEF TypeOK, AttemptOK, AttemptRow, InboxRow, CallRow, HookRow, TaskRow

LEMMA Holds ==
  ASSUME AttemptOK, NEW o \in Order, NEW code
  PROVE  Hold(o, code) = WithStatus(attempt, o, "HELD", code)
  BY StatusIs DEF Hold, AttemptOK

\* Where a worker that is not idle stands.
LEMMA AtWork ==
  ASSUME IInv, NEW p \in Projector, task[p].pc # "idle"
  PROVE  /\ task[p].event \in Emits /\ task[p].event \in Event /\ task[p].event[1] \in Order
         /\ sent[task[p].event] \in 0..MaxTime /\ sent[task[p].event] > 0
<1>1. task[p].event \in Emits /\ sent[task[p].event] > 0
  BY DEF IInv, TaskSound
<1>2. task[p].event \in Event /\ task[p].event[1] \in Order
  BY <1>1, Events
<1> QED
  BY <1>1, <1>2, TypeParts DEF IInv

AttemptMoves ==
  \/ attempt' = attempt
  \/ \E o \in Order, s \in {"HELD", "CHECKOUT_CREATED", "PENDING"}, c \in Code : StatusMove(o, s, c)
  \/ \E e \in Emits, target \in {"FAILED", "EXPIRED"} : NewsMove(e, target)
  \/ \E e \in Emits : BindMove(e) \/ MoneyMove(e) \/ SettleMove(e)

LEMMA CheckoutMoves ==
  ASSUME IInv, NEW c \in Caller
  PROVE  /\ \A o \in Order : CreateOrder(c, o) \/ ReplayOrder(c, o) => AttemptMoves
         /\ HoldStaleAuthority(c) \/ RecordFailure(c) \/ RecordSession(c) => AttemptMoves
<1>0. AttemptOK /\ attempt \in [Order -> AttemptRow] /\ {"other", "uncertain", "none"} \subseteq Code
  BY TypeParts DEF IInv, AttemptOK, Code
<1>1. ASSUME NEW o \in Order, CreateOrder(c, o) PROVE AttemptMoves
  <2>1. attempt' = attempt \/ attempt' = WithStatus(attempt, o, "HELD", "other")
    BY <1>0, <1>1, Holds DEF CreateOrder
  <2>2. attempt[o].status # "SUCCEEDED"
    BY <1>1 DEF CreateOrder, IInv, SettledTogether
  <2> QED
    BY <1>0, <2>1, <2>2 DEF AttemptMoves, StatusMove
<1>2. ASSUME NEW o \in Order, ReplayOrder(c, o) PROVE AttemptMoves
  BY <1>2 DEF ReplayOrder, AttemptMoves
<1>3. call[c].pc # "idle" => call[c].order \in Order
  BY DEF IInv, CallSound
<1>4. CASE HoldStaleAuthority(c)
  <2>1. PICK o \in Order : o = call[c].order
    BY <1>3, <1>4 DEF HoldStaleAuthority
  <2>2. attempt' = attempt \/ (Callable(o) /\ attempt' = WithStatus(attempt, o, "HELD", "other"))
    BY <1>0, <1>4, <2>1, Holds DEF HoldStaleAuthority
  <2> QED
    BY <1>0, <2>2 DEF AttemptMoves, StatusMove, Callable, Uncertain
<1>5. CASE RecordFailure(c)
  <2>1. PICK o \in Order : o = call[c].order
    BY <1>3, <1>5 DEF RecordFailure
  <2>2. \/ attempt' = attempt
        \/ attempt[o].status # "SUCCEEDED" /\ attempt' = WithStatus(attempt, o, "HELD", "uncertain")
    BY <1>0, <1>5, <2>1, Holds DEF RecordFailure
  <2> QED
    BY <1>0, <2>2 DEF AttemptMoves, StatusMove
<1>6. CASE RecordSession(c)
  <2>1. PICK o \in Order : o = call[c].order
    BY <1>3, <1>6 DEF RecordSession
  <2>2. WithStatus(attempt, o, "CHECKOUT_CREATED", "none")
          = [attempt EXCEPT ![o].status = "CHECKOUT_CREATED", ![o].code = "none"]
    BY <1>0, StatusIs
  <2>3. \/ attempt' = attempt
        \/ /\ attempt[o].status # "SUCCEEDED"
           /\ \/ attempt' = WithStatus(attempt, o, "CHECKOUT_CREATED", "none")
              \/ attempt' = WithStatus(attempt, o, "HELD", "other")
    BY <1>0, <1>6, <2>1, <2>2, Holds DEF RecordSession
  <2> QED
    BY <1>0, <2>3 DEF AttemptMoves, StatusMove
<1> QED
  BY <1>1, <1>2, <1>4, <1>5, <1>6

LEMMA InboxMoves ==
  ASSUME IInv
  PROVE  /\ \A h \in Hook : Ingest(h) => AttemptMoves
         /\ \A e \in Emits : Release(e) => AttemptMoves
<1>0. AttemptOK /\ attempt \in [Order -> AttemptRow] /\ {"revoked", "none"} \subseteq Code
  BY TypeParts DEF IInv, AttemptOK, Code
<1>1. ASSUME NEW h \in Hook, Ingest(h) PROVE AttemptMoves
  <2>1. PICK e \in Emits : e = hook[h].event
    BY <1>1 DEF Ingest, IInv, HookSound
  <2>2. e[1] \in Order
    BY Events
  <2>3. \/ attempt' = attempt
        \/ attempt[e[1]].status # "SUCCEEDED" /\ attempt' = WithStatus(attempt, e[1], "HELD", "revoked")
    BY <1>0, <1>1, <2>1, <2>2, Holds DEF Ingest
  <2> QED
    BY <1>0, <2>2, <2>3 DEF AttemptMoves, StatusMove
<1>2. ASSUME NEW e \in Emits, Release(e) PROVE AttemptMoves
  <2>1. e[1] \in Order
    BY Events
  <2>2. attempt' = WithStatus(attempt, e[1], "PENDING", "none") /\ attempt[e[1]].status = "HELD"
    BY <1>0, <1>2, <2>1, StatusIs DEF Release
  <2> QED
    BY <1>0, <2>1, <2>2 DEF AttemptMoves, StatusMove
<1> QED
  BY <1>1, <1>2

\* What a projection did to its attempt shows in the row it marks.
NewsStep(p, e, target) ==
  /\ e = task[p].event /\ e[2] \in {"declined", "closed"}
  /\ UNCHANGED invoices
  /\ \/ inbox' = Marked(e, "IGNORED") /\ UNCHANGED <<order, attempt>>
     \/ /\ inbox' = Marked(e, "PROJECTED") /\ NewsMove(e, target)
        /\ order' = [order EXCEPT ![e[1]] = IF @ = "PENDING" THEN target ELSE @]

LEMMA NewsCases ==
  ASSUME IInv, NEW p \in Projector, NEW target \in {"FAILED", "EXPIRED"}, ProjectNonSuccess(p, target)
  PROVE  \E e \in Emits : NewsStep(p, e, target)
<1>1. PICK e \in Emits : e = task[p].event /\ e[1] \in Order /\ sent[e] > 0
  BY AtWork DEF ProjectNonSuccess
<1>2. attempt \in [Order -> AttemptRow]
  BY TypeParts DEF IInv, AttemptOK
<1>3. ASSUME NEW o \in Order
      PROVE  [attempt EXCEPT ![o].status = target, ![o].code = "other",
                             ![o].at = sent[e], ![o].rank = Rank(target)]
               = WithCursor(attempt, o, target, "other", sent[e], Rank(target))
  BY <1>2 DEF WithCursor
<1>4. e[2] \in {"declined", "closed"} /\ UNCHANGED invoices
  BY <1>1 DEF ProjectNonSuccess
<1>5. CASE attempt[e[1]].status = "SUCCEEDED" \/ Older(e, target)
  <2>1. inbox' = Marked(e, "IGNORED") /\ UNCHANGED <<order, attempt>>
    BY <1>1, <1>5 DEF ProjectNonSuccess
  <2> QED
    BY <1>1, <1>4, <2>1 DEF NewsStep
<1>6. CASE ~(attempt[e[1]].status = "SUCCEEDED" \/ Older(e, target))
  <2>1. /\ inbox' = Marked(e, "PROJECTED")
        /\ order' = [order EXCEPT ![e[1]] = IF @ = "PENDING" THEN target ELSE @]
        /\ attempt' = [attempt EXCEPT ![e[1]].status = target, ![e[1]].code = "other",
                                      ![e[1]].at = sent[e], ![e[1]].rank = Rank(target)]
    BY <1>1, <1>6 DEF ProjectNonSuccess
  <2>2. NewsMove(e, target)
    BY <1>1, <1>3, <1>4, <1>6, <2>1 DEF NewsMove
  <2> QED
    BY <1>1, <1>4, <2>1, <2>2 DEF NewsStep
<1> QED
  BY <1>5, <1>6

BindStep(p, e) ==
  /\ e = task[p].event /\ e[2] = "completed"
  /\ UNCHANGED <<order, invoices>>
  /\ \/ inbox' \in {Marked(e, "IGNORED"), Marked(e, "HELD")} /\ UNCHANGED attempt
     \/ inbox' = Marked(e, "HELD") /\ StatusMove(e[1], "HELD", "other")
     \/ inbox' = Marked(e, "PROJECTED") /\ BindMove(e)

LEMMA BindCases ==
  ASSUME IInv, NEW p \in Projector, BindCheckout(p)
  PROVE  \E e \in Emits : BindStep(p, e)
<1>1. PICK e \in Emits : e = task[p].event /\ e[1] \in Order /\ sent[e] > 0
  BY AtWork DEF BindCheckout
<1>2. AttemptOK /\ attempt \in [Order -> AttemptRow]
  BY TypeParts DEF IInv, AttemptOK
<1> DEFINE o == e[1]
           advances == attempt[o].at = 0 \/ ~Older(e, "PENDING")
           still == inbox' \in {Marked(e, "IGNORED"), Marked(e, "HELD")} /\ UNCHANGED attempt
           held == /\ inbox' = Marked(e, "HELD") /\ attempt[o].status # "SUCCEEDED"
                   /\ attempt' = Hold(o, "other")
<1>3. e[2] = "completed" /\ UNCHANGED <<order, invoices>>
  BY <1>1 DEF BindCheckout
<1>4. \/ still
      \/ held
      \/ /\ attempt[o].status # "SUCCEEDED" /\ (advances \/ attempt[o].status = "CREATED")
         /\ inbox' = Marked(e, "PROJECTED")
         /\ attempt' = [attempt EXCEPT ![o].status = "PENDING", ![o].code = "none",
              ![o].at = IF advances THEN sent[e] ELSE @,
              ![o].rank = IF advances THEN Rank("PENDING") ELSE @]
  BY <1>1 DEF BindCheckout
<1>5. attempt[o].status = "CREATED" => attempt[o].at = 0
  BY <1>1 DEF IInv, CursorSound
<1>6. advances => ~Older(e, "PENDING")
  BY DEF Older
<1>7. ASSUME NEW u \in Order
      PROVE  [attempt EXCEPT ![u].status = "PENDING", ![u].code = "none",
                             ![u].at = sent[e], ![u].rank = Rank("PENDING")]
               = WithCursor(attempt, u, "PENDING", "none", sent[e], Rank("PENDING"))
  BY <1>2 DEF WithCursor
<1>8. CASE still
  BY <1>1, <1>3, <1>8 DEF BindStep
<1>9. CASE held
  <2>1. attempt' = WithStatus(attempt, o, "HELD", "other")
    BY <1>1, <1>2, <1>9, Holds
  <2> QED
    BY <1>1, <1>3, <1>9, <2>1 DEF BindStep, StatusMove
<1>10. CASE ~still /\ ~held
  <2>1. advances
    BY <1>4, <1>5, <1>10
  <2>2. attempt' = [attempt EXCEPT ![o].status = "PENDING", ![o].code = "none",
                                   ![o].at = sent[e], ![o].rank = Rank("PENDING")]
    BY <1>4, <1>10, <2>1
  <2>3. attempt' = WithCursor(attempt, o, "PENDING", "none", sent[e], Rank("PENDING"))
    BY <1>1, <1>7, <2>2
  <2>4. BindMove(e)
    BY <1>1, <1>3, <1>4, <1>6, <1>10, <2>1, <2>3 DEF BindMove
  <2> QED
    BY <1>1, <1>3, <1>4, <1>10, <2>4 DEF BindStep
<1> QED
  BY <1>8, <1>9, <1>10

SettleStep(p, e) ==
  /\ e = task[p].event /\ e[2] \in Settling /\ task[p].pc = "read"
  /\ UNCHANGED inbox
  /\ \/ UNCHANGED <<order, invoices>> /\ MoneyMove(e) /\ Conclude(p, "HELD")
     \/ UNCHANGED billingVars /\ order[e[1]] = "PAID" /\ Conclude(p, "PROJECTED")
     \/ UNCHANGED billingVars /\ Conclude(p, "HELD")
     \/ SettleMove(e) /\ Conclude(p, "PROJECTED")

LEMMA SettleCases ==
  ASSUME IInv, NEW p \in Projector, Settle(p)
  PROVE  \E e \in Emits : SettleStep(p, e)
<1>1. PICK e \in Emits : e = task[p].event /\ e[1] \in Order /\ sent[e] > 0
  BY AtWork DEF Settle
<1>2. attempt \in [Order -> AttemptRow]
  BY TypeParts DEF IInv, AttemptOK
<1>3. e[2] \in Settling /\ task[p].pc = "read" /\ UNCHANGED inbox
  BY <1>1 DEF Settle, inboxVars
<1>4. ASSUME NEW u \in Order
      PROVE  [attempt EXCEPT ![u].at = sent[e], ![u].rank = Rank("SUCCEEDED")]
               = WithTime(attempt, u, sent[e], Rank("SUCCEEDED"))
  BY <1>2, TimeIs
<1>5. CASE HeldForGood(e[1])
  <2>1. /\ attempt' = [attempt EXCEPT ![e[1]].at = sent[e], ![e[1]].rank = Rank("SUCCEEDED")]
        /\ Conclude(p, "HELD") /\ UNCHANGED <<order, invoices>>
    BY <1>1, <1>5 DEF Settle
  <2>2. MoneyMove(e)
    BY <1>1, <1>3, <1>4, <1>5, <2>1 DEF MoneyMove, HeldForGood
  <2> QED
    BY <1>1, <1>3, <2>1, <2>2 DEF SettleStep
<1>6. CASE ~HeldForGood(e[1])
  <2> DEFINE settles == /\ ~Overlaps
                        /\ order' = [order EXCEPT ![e[1]] = "PAID"]
                        /\ attempt' = [attempt EXCEPT ![e[1]] = SettledRow(e)]
                        /\ invoices' = [invoices EXCEPT ![e[1]] = @ + 1]
                        /\ Conclude(p, "PROJECTED")
  <2>1. \/ UNCHANGED billingVars /\ order[e[1]] = "PAID" /\ Conclude(p, "PROJECTED")
        \/ UNCHANGED billingVars /\ Conclude(p, "HELD")
        \/ settles
    BY <1>1, <1>6 DEF Settle, SettledRow
  <2>2. CASE settles
    <3>1. SettleMove(e)
      BY <1>1, <1>3, <2>2 DEF SettleMove
    <3> QED
      BY <1>1, <1>3, <2>2, <3>1 DEF SettleStep
  <2>3. CASE ~settles
    BY <1>1, <1>3, <2>1, <2>3 DEF SettleStep
  <2> QED
    BY <2>2, <2>3
<1> QED
  BY <1>5, <1>6

LEMMA ProjectionMoves ==
  ASSUME IInv, NEW p \in Projector
  PROVE  /\ \A target \in {"FAILED", "EXPIRED"} : ProjectNonSuccess(p, target) => AttemptMoves
         /\ BindCheckout(p) \/ Settle(p) => AttemptMoves
<1>1. ASSUME NEW target \in {"FAILED", "EXPIRED"}, ProjectNonSuccess(p, target) PROVE AttemptMoves
  BY <1>1, NewsCases DEF NewsStep, AttemptMoves
<1>2. CASE BindCheckout(p)
  <2>1. PICK e \in Emits : BindStep(p, e)
    BY <1>2, BindCases
  <2>2. e[1] \in Order /\ "other" \in Code
    BY Events DEF Code
  <2> QED
    BY <2>1, <2>2 DEF BindStep, AttemptMoves
<1>3. CASE Settle(p)
  BY <1>3, SettleCases DEF SettleStep, AttemptMoves, billingVars
<1> QED
  BY <1>1, <1>2, <1>3

LEMMA AttemptSteps == ASSUME IInv, [Next]_vars PROVE AttemptMoves
<1>1. CASE UNCHANGED <<order, attempt, invoices>>
  BY <1>1 DEF AttemptMoves
<1>2. ASSUME NEW c \in Caller, NEW o \in Order, CreateOrder(c, o) \/ ReplayOrder(c, o) PROVE AttemptMoves
  BY <1>2, CheckoutMoves
<1>3. ASSUME NEW c \in Caller, HoldStaleAuthority(c) \/ RecordFailure(c) \/ RecordSession(c) PROVE AttemptMoves
  BY <1>3, CheckoutMoves
<1>5. ASSUME NEW h \in Hook, Ingest(h) PROVE AttemptMoves
  BY <1>5, InboxMoves
<1>6. ASSUME NEW e \in Emits, Release(e) PROVE AttemptMoves
  BY <1>6, InboxMoves
<1>7. ASSUME NEW p \in Projector, NEW target \in {"FAILED", "EXPIRED"}, ProjectNonSuccess(p, target)
      PROVE  AttemptMoves
  BY <1>7, ProjectionMoves
<1>8. ASSUME NEW p \in Projector, BindCheckout(p) \/ Settle(p) PROVE AttemptMoves
  BY <1>8, ProjectionMoves
<1> QED
  BY <1>1, <1>2, <1>3, <1>5, <1>6, <1>7, <1>8, BillingMovers

LEMMA AttemptTypes == ASSUME IInv, [Next]_vars PROVE AttemptOK'
<1>0. /\ AttemptOK /\ attempt \in [Order -> AttemptRow]
      /\ \A e \in Emits : e[1] \in Order /\ sent[e] \in 0..MaxTime
  BY TypeParts, Events DEF IInv, AttemptOK
<1>1. CASE attempt' = attempt
  BY <1>0, <1>1 DEF AttemptOK
<1>2. ASSUME NEW o \in Order, NEW s \in {"HELD", "CHECKOUT_CREATED", "PENDING"}, NEW c \in Code, StatusMove(o, s, c)
      PROVE  AttemptOK'
  <2>1. s \in AttemptStatus /\ (s \in {"FAILED", "HELD"} => c # "none") /\ attempt' = WithStatus(attempt, o, s, c)
    BY <1>2 DEF StatusMove, AttemptStatus
  <2> QED
    BY <1>0, <2>1, StatusKeepsOK
<1>3. ASSUME NEW e \in Emits, NEW target \in {"FAILED", "EXPIRED"}, NewsMove(e, target) PROVE AttemptOK'
  <2>1. /\ target \in AttemptStatus /\ "other" \in Code /\ "other" # "none" /\ Rank(target) \in {10, 20, 30, 100}
        /\ attempt' = WithCursor(attempt, e[1], target, "other", sent[e], Rank(target))
        /\ sent[e] # 0
    BY <1>0, <1>3, Ranks DEF NewsMove, AttemptStatus, Code
  <2> QED
    BY <1>0, <2>1, CursorKeepsOK
<1>4. ASSUME NEW e \in Emits, BindMove(e) PROVE AttemptOK'
  <2>1. /\ "PENDING" \in AttemptStatus /\ "none" \in Code /\ Rank("PENDING") \in {10, 20, 30, 100}
        /\ attempt' = WithCursor(attempt, e[1], "PENDING", "none", sent[e], Rank("PENDING"))
        /\ sent[e] # 0 /\ "PENDING" \notin {"FAILED", "HELD"}
    BY <1>0, <1>4, Ranks DEF BindMove, AttemptStatus, Code
  <2> QED
    BY <1>0, <2>1, CursorKeepsOK
<1>5. ASSUME NEW e \in Emits, MoneyMove(e) PROVE AttemptOK'
  <2>1. /\ Rank("SUCCEEDED") \in {10, 20, 30, 100} /\ sent[e] # 0
        /\ attempt' = WithTime(attempt, e[1], sent[e], Rank("SUCCEEDED"))
    BY <1>0, <1>5, Ranks DEF MoneyMove
  <2> QED
    BY <1>0, <2>1, TimeKeepsOK
<1>6. ASSUME NEW e \in Emits, SettleMove(e) PROVE AttemptOK'
  <2>1. SettledRow(e) \in AttemptRow /\ sent[e] # 0
    BY <1>0, <1>6, Ranks DEF SettleMove, SettledRow, AttemptRow, AttemptStatus, Code
  <2>2. attempt' \in [Order -> AttemptRow] /\ \A u \in Order : u # e[1] => attempt'[u] = attempt[u]
    BY <1>0, <1>6, <2>1 DEF SettleMove
  <2>3. /\ attempt'[e[1]].status \in {"FAILED", "HELD"} => attempt'[e[1]].code # "none"
        /\ attempt'[e[1]].at = 0 <=> attempt'[e[1]].rank = 0
    BY <1>0, <1>6, <2>1, Ranks DEF SettleMove, SettledRow
  <2> QED
    BY <1>0, <2>2, <2>3, ChecksKept
<1> QED
  BY <1>1, <1>2, <1>3, <1>4, <1>5, <1>6, AttemptSteps DEF AttemptMoves

Cursored(u, e, s, r) == attempt'[u].status = s /\ attempt'[u].at = sent[e] /\ attempt'[u].rank = r

AttemptStep(u) ==
  \/ attempt'[u] = attempt[u]
  \/ /\ attempt[u].status # "SUCCEEDED" /\ attempt'[u].status \in {"HELD", "CHECKOUT_CREATED", "PENDING"}
     /\ attempt'[u].at = attempt[u].at /\ attempt'[u].rank = attempt[u].rank
  \/ \E e \in Emits :
       /\ e[1] = u
       /\ \/ \E s \in {"FAILED", "EXPIRED"} : NewsMove(e, s) /\ Cursored(u, e, s, Rank(s))
          \/ BindMove(e) /\ Cursored(u, e, "PENDING", 10)
          \/ MoneyMove(e) /\ Cursored(u, e, "HELD", 100)
          \/ SettleMove(e) /\ Cursored(u, e, "SUCCEEDED", 100)

LEMMA AttemptFollows == ASSUME IInv, [Next]_vars, NEW u \in Order PROVE AttemptStep(u)
<1>0. /\ attempt \in [Order -> AttemptRow]
      /\ \A e \in Emits : e[1] \in Order
  BY TypeParts, Events DEF IInv, AttemptOK
<1>1. CASE attempt' = attempt
  BY <1>1 DEF AttemptStep
<1>2. ASSUME NEW o \in Order, NEW s \in {"HELD", "CHECKOUT_CREATED", "PENDING"}, NEW c \in Code, StatusMove(o, s, c)
      PROVE  AttemptStep(u)
  <2>1. attempt' = WithStatus(attempt, o, s, c) /\ attempt[o].status # "SUCCEEDED"
    BY <1>2 DEF StatusMove
  <2>2. CASE u = o
    BY <1>0, <2>1, <2>2, StatusFields DEF AttemptStep
  <2>3. CASE u # o
    BY <1>0, <2>1, <2>3, StatusFields DEF AttemptStep
  <2> QED
    BY <2>2, <2>3
<1>3. ASSUME NEW e \in Emits, NEW s \in {"FAILED", "EXPIRED"}, NewsMove(e, s) PROVE AttemptStep(u)
  <2>1. PICK o \in Order : o = e[1] /\ attempt' = WithCursor(attempt, o, s, "other", sent[e], Rank(s))
    BY <1>0, <1>3 DEF NewsMove
  <2>2. CASE u = o
    <3>1. Cursored(u, e, s, Rank(s))
      BY <1>0, <2>1, <2>2, CursorFields DEF Cursored
    <3> QED
      BY <1>3, <2>1, <2>2, <3>1 DEF AttemptStep
  <2>3. CASE u # o
    BY <1>0, <2>1, <2>3, CursorFields DEF AttemptStep
  <2> QED
    BY <2>2, <2>3
<1>4. ASSUME NEW e \in Emits, BindMove(e) PROVE AttemptStep(u)
  <2>1. PICK o \in Order : o = e[1] /\ attempt' = WithCursor(attempt, o, "PENDING", "none", sent[e], Rank("PENDING"))
    BY <1>0, <1>4 DEF BindMove
  <2>2. CASE u = o
    <3>1. Cursored(u, e, "PENDING", 10)
      BY <1>0, <2>1, <2>2, CursorFields, Ranks DEF Cursored
    <3> QED
      BY <1>4, <2>1, <2>2, <3>1 DEF AttemptStep
  <2>3. CASE u # o
    BY <1>0, <2>1, <2>3, CursorFields DEF AttemptStep
  <2> QED
    BY <2>2, <2>3
<1>5. ASSUME NEW e \in Emits, MoneyMove(e) PROVE AttemptStep(u)
  <2>1. PICK o \in Order :
          o = e[1] /\ attempt[o].status = "HELD" /\ attempt' = WithTime(attempt, o, sent[e], Rank("SUCCEEDED"))
    BY <1>0, <1>5 DEF MoneyMove
  <2>2. CASE u = o
    <3>1. Cursored(u, e, "HELD", 100)
      BY <1>0, <2>1, <2>2, TimeFields, Ranks DEF Cursored
    <3> QED
      BY <1>5, <2>1, <2>2, <3>1 DEF AttemptStep
  <2>3. CASE u # o
    BY <1>0, <2>1, <2>3, TimeFields DEF AttemptStep
  <2> QED
    BY <2>2, <2>3
<1>6. ASSUME NEW e \in Emits, SettleMove(e) PROVE AttemptStep(u)
  <2>1. PICK o \in Order : o = e[1] /\ attempt' = [attempt EXCEPT ![o] = SettledRow(e)]
    BY <1>0, <1>6 DEF SettleMove
  <2>2. CASE u = o
    <3>1. Cursored(u, e, "SUCCEEDED", 100)
      BY <1>0, <2>1, <2>2, Ranks DEF Cursored, SettledRow
    <3> QED
      BY <1>6, <2>1, <2>2, <3>1 DEF AttemptStep
  <2>3. CASE u # o
    BY <1>0, <2>1, <2>3 DEF AttemptStep
  <2> QED
    BY <2>2, <2>3
<1> QED
  BY <1>1, <1>2, <1>3, <1>4, <1>5, <1>6, AttemptSteps DEF AttemptMoves

\* Orders and invoices: an order is opened, closed unpaid, or settled.
OrderFollows ==
  \/ UNCHANGED <<order, invoices>>
  \/ /\ \E o \in Order, s \in {"PENDING", "EXPIRED", "FAILED"} :
          order[o] \in {"none", "PENDING"} /\ order' = [order EXCEPT ![o] = s]
     /\ UNCHANGED invoices
  \/ \E e \in Emits : SettleMove(e)

LEMMA OrderSteps == ASSUME IInv, [Next]_vars PROVE OrderFollows
<1>1. CASE UNCHANGED <<order, attempt, invoices>>
  BY <1>1 DEF OrderFollows
<1>2. ASSUME NEW c \in Caller, NEW o \in Order, CreateOrder(c, o) \/ ReplayOrder(c, o) PROVE OrderFollows
  BY <1>2 DEF CreateOrder, ReplayOrder, OrderFollows
<1>3. ASSUME NEW c \in Caller, HoldStaleAuthority(c) \/ RecordFailure(c) \/ RecordSession(c) PROVE OrderFollows
  BY <1>3 DEF HoldStaleAuthority, RecordFailure, RecordSession, OrderFollows
<1>5. ASSUME NEW h \in Hook, Ingest(h) PROVE OrderFollows
  BY <1>5 DEF Ingest, OrderFollows
<1>6. ASSUME NEW e \in Emits, Release(e) PROVE OrderFollows
  BY <1>6 DEF Release, OrderFollows
<1>7. ASSUME NEW p \in Projector, NEW target \in {"FAILED", "EXPIRED"}, ProjectNonSuccess(p, target)
      PROVE  OrderFollows
  <2>1. PICK e \in Emits : NewsStep(p, e, target)
    BY <1>7, NewsCases
  <2>2. PICK o \in Order : o = e[1]
    BY Events
  <2>3. UNCHANGED invoices
    BY <2>1 DEF NewsStep
  <2>4. \/ order' = order
        \/ order' = [order EXCEPT ![o] = IF @ = "PENDING" THEN target ELSE @]
    BY <2>1, <2>2 DEF NewsStep
  <2>5. CASE order[o] = "PENDING"
    BY <2>3, <2>4, <2>5 DEF OrderFollows
  <2>6. CASE order[o] # "PENDING"
    <3>1. order \in [Order -> OrderStatus]
      BY TypeParts DEF IInv
    <3>2. order' = order
      BY <2>4, <2>6, <3>1
    <3> QED
      BY <2>3, <3>2 DEF OrderFollows
  <2> QED
    BY <2>5, <2>6
<1>8. ASSUME NEW p \in Projector, BindCheckout(p) PROVE OrderFollows
  BY <1>8 DEF BindCheckout, OrderFollows
<1>9. ASSUME NEW p \in Projector, Settle(p) PROVE OrderFollows
  BY <1>9, SettleCases DEF SettleStep, OrderFollows, billingVars
<1> QED
  BY <1>1, <1>2, <1>3, <1>5, <1>6, <1>7, <1>8, <1>9, BillingMovers

LEMMA OrderTypes ==
  ASSUME IInv, [Next]_vars
  PROVE  order' \in [Order -> OrderStatus] /\ invoices' \in [Order -> 0..1]
<1>0. order \in [Order -> OrderStatus] /\ invoices \in [Order -> 0..1]
  BY TypeParts DEF IInv
<1>1. ASSUME NEW e \in Emits, SettleMove(e) PROVE order' \in [Order -> OrderStatus] /\ invoices' \in [Order -> 0..1]
  <2>1. e[1] \in Order
    BY Events
  <2>2. invoices[e[1]] = 0
    BY <1>0, <1>1, <2>1 DEF SettleMove, Overlaps
  <2> QED
    BY <1>0, <1>1, <2>1, <2>2 DEF SettleMove, OrderStatus
<1> QED
  BY <1>0, <1>1, OrderSteps DEF OrderFollows, OrderStatus

\* Order, attempt and invoice are settled by the same steps.
LEMMA SettledSteps ==
  ASSUME IInv, [Next]_vars, NEW u \in Order
  PROVE  LET settled == \E e \in Emits : e[1] = u /\ SettleMove(e) IN
         /\ order'[u] = "PAID" <=> order[u] = "PAID" \/ settled
         /\ attempt'[u].status = "SUCCEEDED" <=> attempt[u].status = "SUCCEEDED" \/ settled
         /\ invoices'[u] = 1 <=> invoices[u] = 1 \/ settled
<1> DEFINE settled == \E e \in Emits : e[1] = u /\ SettleMove(e)
<1>0. /\ order \in [Order -> OrderStatus] /\ invoices \in [Order -> 0..1]
      /\ attempt \in [Order -> AttemptRow] /\ \A e \in Emits : e[1] \in Order
  BY TypeParts, Events DEF IInv, AttemptOK
<1>1. CASE settled
  <2>1. PICK e \in Emits : e[1] = u /\ SettleMove(e)
    BY <1>1
  <2>2. order'[u] = "PAID" /\ invoices'[u] = invoices[u] + 1 /\ attempt'[u].status = "SUCCEEDED"
    BY <1>0, <2>1 DEF SettleMove, SettledRow
  <2>3. invoices[u] = 0
    BY <1>0, <2>1 DEF SettleMove, Overlaps
  <2> QED
    BY <1>1, <2>2, <2>3
<1>2. CASE ~settled
  <2>1. order'[u] = "PAID" <=> order[u] = "PAID"
    BY <1>0, <1>2, OrderSteps DEF OrderFollows, SettleMove
  <2>2. invoices'[u] = invoices[u]
    BY <1>0, <1>2, OrderSteps DEF OrderFollows, SettleMove
  <2>3. attempt'[u].status = "SUCCEEDED" <=> attempt[u].status = "SUCCEEDED"
    BY <1>2, AttemptFollows DEF AttemptStep, Cursored, NewsMove, BindMove, MoneyMove
  <2> QED
    BY <1>2, <2>1, <2>2, <2>3
<1> QED
  BY <1>1, <1>2

LEMMA PaidStays ==
  ASSUME IInv, [Next]_vars, NEW u \in Order, order[u] = "PAID"
  PROVE  order'[u] = "PAID"
  BY SettledSteps


(* The inbox *)

\* A row is opened once, released from hold, tried again, and closed; it is closed
\* as done only for money of a paid order, or with the news the attempt takes over.
RowStep(e) ==
  \/ inbox'[e] = inbox[e]
  \/ /\ inbox[e].status = "none" /\ sent[e] > 0
     /\ inbox'[e].status \in {"RECEIVED", "HELD"}
  \/ inbox[e] = Revoked /\ work[e] = "none" /\ inbox'[e].status = "RECEIVED"
  \/ Waiting(e) /\ inbox'[e].status \in {"FAILED", "HELD", "IGNORED"}
       /\ (e[2] \in Settling /\ inbox'[e].status = "IGNORED" => order[e[1]] = "PAID")
  \/ Waiting(e) /\ inbox'[e].status = "PROJECTED"
       /\ \/ e[2] \in Settling /\ order[e[1]] = "PAID"
          \/ BindMove(e)
          \/ \E target \in {"FAILED", "EXPIRED"} : NewsMove(e, target)

OneRow(e) ==
  /\ inbox' \in [Event -> InboxRow]
  /\ \A u \in Event : u # e => inbox'[u] = inbox[u]
  /\ RowStep(e)

LEMMA MarkedIs ==
  ASSUME inbox \in [Event -> InboxRow], NEW e \in Event, NEW s \in {"PROJECTED", "IGNORED", "HELD"}
  PROVE  /\ Marked(e, s) \in [Event -> InboxRow]
         /\ \A u \in Event : u # e => Marked(e, s)[u] = inbox[u]
         /\ Marked(e, s)[e] = inbox[e] \/ (Waiting(e) /\ Marked(e, s)[e].status = s)
<1>1. [status |-> s, code |-> IF s = "PROJECTED" THEN "none" ELSE "other"] \in InboxRow
  BY DEF InboxRow, InboxStatus
<1> QED
  BY <1>1 DEF Marked

LEMMA StatusRow ==
  ASSUME inbox \in [Event -> InboxRow], NEW e \in Event, NEW s \in InboxStatus
  PROVE  /\ [inbox EXCEPT ![e].status = s] \in [Event -> InboxRow]
         /\ \A u \in Event : u # e => [inbox EXCEPT ![e].status = s][u] = inbox[u]
         /\ [inbox EXCEPT ![e].status = s][e].status = s
<1>1. ASSUME NEW r \in InboxRow PROVE [r EXCEPT !.status = s] \in InboxRow /\ [r EXCEPT !.status = s].status = s
  BY DEF InboxRow
<1> QED
  BY <1>1

LEMMA RowMoves ==
  ASSUME IInv, [Next]_vars
  PROVE  inbox' = inbox \/ \E e \in Event : OneRow(e)
<1>0. /\ inbox \in [Event -> InboxRow]
      /\ {"RECEIVED", "FAILED"} \subseteq InboxStatus
  BY TypeParts DEF IInv, InboxStatus
<1>1. ASSUME NEW h \in Hook, Ingest(h) PROVE inbox' = inbox \/ \E e \in Event : OneRow(e)
  <2>1. PICK e \in Event : e = hook[h].event /\ sent[e] > 0
    BY <1>1, Events DEF Ingest, IInv, HookSound
  <2>2. \/ inbox' = inbox
        \/ inbox[e].status = "none" /\ inbox' = [inbox EXCEPT ![e] = Revoked]
        \/ inbox[e].status = "none" /\ inbox' = [inbox EXCEPT ![e].status = "RECEIVED"]
    BY <1>1, <2>1 DEF Ingest
  <2>3. CASE inbox[e].status = "none" /\ inbox' = [inbox EXCEPT ![e] = Revoked]
    <3>1. Revoked \in InboxRow /\ Revoked.status = "HELD"
      BY DEF Revoked, InboxRow, InboxStatus
    <3>2. OneRow(e)
      BY <1>0, <2>1, <2>3, <3>1 DEF OneRow, RowStep
    <3> QED
      BY <3>2
  <2>4. CASE inbox[e].status = "none" /\ inbox' = [inbox EXCEPT ![e].status = "RECEIVED"]
    <3>1. OneRow(e)
      BY <1>0, <2>1, <2>4, StatusRow DEF OneRow, RowStep
    <3> QED
      BY <3>1
  <2> QED
    BY <2>2, <2>3, <2>4
<1>2. ASSUME NEW e \in Emits, Release(e) PROVE \E u \in Event : OneRow(u)
  <2>1. e \in Event
    BY Events
  <2>2. [status |-> "RECEIVED", code |-> "none"] \in InboxRow
    BY DEF InboxRow, InboxStatus
  <2>3. OneRow(e)
    BY <1>0, <1>2, <2>1, <2>2 DEF Release, OneRow, RowStep
  <2> QED
    BY <2>1, <2>3
<1>3. ASSUME NEW p \in Projector, NEW target \in {"FAILED", "EXPIRED"}, ProjectNonSuccess(p, target)
      PROVE  \E e \in Event : OneRow(e)
  <2>1. PICK e \in Emits : NewsStep(p, e, target)
    BY <1>3, NewsCases
  <2>2. e \in Event /\ e[2] \notin Settling
    BY <2>1, Events DEF NewsStep, Settling
  <2>3. OneRow(e)
    BY <1>0, <2>1, <2>2, MarkedIs DEF NewsStep, OneRow, RowStep
  <2> QED
    BY <2>2, <2>3
<1>4. ASSUME NEW p \in Projector, BindCheckout(p) PROVE \E e \in Event : OneRow(e)
  <2>1. PICK e \in Emits : BindStep(p, e)
    BY <1>4, BindCases
  <2>2. e \in Event /\ e[2] \notin Settling
    BY <2>1, Events DEF BindStep, Settling
  <2>3. OneRow(e)
    BY <1>0, <2>1, <2>2, MarkedIs DEF BindStep, OneRow, RowStep
  <2> QED
    BY <2>2, <2>3
<1>5. ASSUME NEW p \in Projector, ProjectRenewal(p) PROVE \E e \in Event : OneRow(e)
  <2>1. PICK e \in Event : e = task[p].event /\ order[e[1]] = "PAID" /\ inbox' = Marked(e, "IGNORED")
    BY <1>5, AtWork DEF ProjectRenewal, IInv, TaskSound
  <2>2. OneRow(e)
    BY <1>0, <2>1, MarkedIs DEF OneRow, RowStep
  <2> QED
    BY <2>2
<1>6. ASSUME NEW p \in Projector, Terminalize(p) PROVE \E e \in Event : OneRow(e)
  <2>1. PICK e \in Event :
          /\ e = task[p].event /\ e[2] \in Settling /\ inbox' = Marked(e, task[p].verdict)
          /\ task[p].verdict = "PROJECTED" => order[e[1]] = "PAID"
    BY <1>6, AtWork DEF Terminalize, IInv, TaskSound
  <2>2. task[p].verdict \in {"PROJECTED", "HELD"}
    BY TypeParts DEF IInv, TaskRow
  <2>3. OneRow(e)
    BY <1>0, <2>1, <2>2, MarkedIs DEF OneRow, RowStep
  <2> QED
    BY <2>3
<1>7. ASSUME NEW p \in Projector, ProjectionFails(p) PROVE inbox' = inbox \/ \E e \in Event : OneRow(e)
  <2>1. PICK e \in Event :
          e = task[p].event /\ inbox' = IF Waiting(e) THEN [inbox EXCEPT ![e].status = "FAILED"] ELSE inbox
    BY <1>7, AtWork DEF ProjectionFails
  <2>2. CASE Waiting(e)
    <3>1. OneRow(e)
      BY <1>0, <2>1, <2>2, StatusRow DEF OneRow, RowStep
    <3> QED
      BY <3>1
  <2> QED
    BY <2>1, <2>2
<1> QED
  BY <1>1, <1>2, <1>3, <1>4, <1>5, <1>6, <1>7, InboxMovers

LEMMA RowFollows ==
  ASSUME IInv, [Next]_vars
  PROVE  inbox' \in [Event -> InboxRow] /\ \A e \in Event : RowStep(e)
<1>1. inbox \in [Event -> InboxRow]
  BY TypeParts DEF IInv
<1>2. ASSUME NEW e \in Event, OneRow(e), NEW u \in Event PROVE RowStep(u)
  BY <1>2 DEF OneRow, RowStep
<1> QED
  BY <1>1, <1>2, RowMoves DEF OneRow, RowStep

-----------------------------------------------------------------------------
(* The provider *)

\* What one step may do to the session and the news of an order.
ProviderStep(u) ==
  \/ /\ \A k \in Kind : sent'[<<u, k>>] = sent[<<u, k>>]
     /\ session'[u] = "paid" <=> session[u] = "paid"
  \/ /\ session[u] # "paid" /\ session'[u] # "paid"
     /\ \E n \in {"declined", "closed"} :
          sent[<<u, n>>] = 0 /\ \A k \in Kind : k # n => sent'[<<u, k>>] = sent[<<u, k>>]
  \/ /\ session[u] = "offered" /\ session'[u] = "paid"
     /\ \A k \in Kind : IF k \in Paid THEN sent'[<<u, k>>] \in Times(u) \cup {sent[<<u, k>>]}
                                      ELSE sent'[<<u, k>>] = sent[<<u, k>>]

ProviderTyped ==
  /\ session \in [Order -> {"none", "open", "offered", "paid", "expired"}]
  /\ sent \in [Event -> 0..MaxTime]

LEMMA ProviderFollows ==
  ASSUME IInv, [Next]_vars
  PROVE  ProviderTyped' /\ \A u \in Order : ProviderStep(u)
<1>0. /\ ProviderTyped
      /\ \A o \in Order, k \in Kind : <<o, k>> \in Event
      /\ \A o \in Order : Times(o) \subseteq 0..MaxTime
  BY TypeParts DEF IInv, ProviderTyped, Event, Times
<1>1. CASE UNCHANGED <<session, sent>>
  BY <1>0, <1>1 DEF ProviderTyped, ProviderStep
<1>2. ASSUME NEW c \in Caller, CallProvider(c) \/ RecordSession(c) \/ ExpireSession(c)
      PROVE  ProviderTyped' /\ \A u \in Order : ProviderStep(u)
  <2>1. PICK o \in Order : o = call[c].order
    BY <1>2 DEF CallProvider, RecordSession, ExpireSession, IInv, CallSound
  <2>2. sent' = sent /\ \E s \in {"none", "open", "offered", "expired"} :
          session' = session \/ (session[o] # "paid" /\ session' = [session EXCEPT ![o] = s])
    <3>1. session[o] \in {"none", "open", "offered", "paid", "expired"}
      BY <1>0 DEF ProviderTyped
    <3>2. CASE CallProvider(c)
      BY <1>0, <2>1, <3>1, <3>2 DEF CallProvider, ProviderTyped
    <3>3. CASE RecordSession(c)
      BY <1>0, <2>1, <3>1, <3>3 DEF RecordSession, Offer, ProviderTyped
    <3>4. CASE ExpireSession(c)
      BY <1>0, <2>1, <3>1, <3>4 DEF ExpireSession, ProviderTyped
    <3> QED
      BY <1>2, <3>2, <3>3, <3>4
  <2> QED
    BY <1>0, <2>2 DEF ProviderTyped, ProviderStep
<1>3. ASSUME NEW o \in Order, Decline(o)
      PROVE  ProviderTyped' /\ \A u \in Order : ProviderStep(u)
  <2>1. PICK t \in Times(o) : sent' = [sent EXCEPT ![<<o, "declined">>] = t]
    BY <1>3 DEF Decline
  <2>2. session' = session /\ session[o] = "offered" /\ sent[<<o, "declined">>] = 0 /\ "declined" \in Kind
    BY <1>3 DEF Decline, Payable, Kind
  <2>3. ProviderTyped'
    BY <1>0, <2>1, <2>2 DEF ProviderTyped
  <2>4. ASSUME NEW u \in Order PROVE ProviderStep(u)
    BY <1>0, <2>1, <2>2 DEF ProviderTyped, ProviderStep
  <2> QED
    BY <2>3, <2>4
<1>4. ASSUME NEW o \in Order, CloseSession(o)
      PROVE  ProviderTyped' /\ \A u \in Order : ProviderStep(u)
  <2>1. PICK t \in Times(o) : sent' = [sent EXCEPT ![<<o, "closed">>] = t]
    BY <1>4 DEF CloseSession
  <2>2. /\ session' = [session EXCEPT ![o] = "expired"] /\ session[o] # "paid"
        /\ sent[<<o, "closed">>] = 0 /\ "closed" \in Kind
    BY <1>4 DEF CloseSession, Kind
  <2>3. ProviderTyped'
    BY <1>0, <2>1, <2>2 DEF ProviderTyped
  <2>4. ASSUME NEW u \in Order PROVE ProviderStep(u)
    BY <1>0, <2>1, <2>2 DEF ProviderTyped, ProviderStep
  <2> QED
    BY <2>3, <2>4
<1>5. ASSUME NEW o \in Order, Pay(o)
      PROVE  ProviderTyped' /\ \A u \in Order : ProviderStep(u)
  <2>1. PICK at \in [{"completed", "invoice", "twin"} -> Times(o)] :
          sent' = [e \in Event |-> IF e \in Emits /\ e[1] = o /\ e[2] \in DOMAIN at
                                   THEN at[e[2]] ELSE sent[e]]
    BY <1>5 DEF Pay
  <2>2. session' = [session EXCEPT ![o] = "paid"] /\ session[o] = "offered"
    BY <1>5 DEF Pay, Payable
  <2>3. DOMAIN at = Paid
    BY DEF Paid, Settling
  <2>4. ProviderTyped'
    BY <1>0, <2>1, <2>2 DEF ProviderTyped
  <2>5. ASSUME NEW u \in Order, NEW k \in Kind
        PROVE  sent'[<<u, k>>] \in (IF u = o /\ k \in Paid THEN Times(u) \cup {sent[<<u, k>>]}
                                    ELSE {sent[<<u, k>>]})
    BY <1>0, <2>1, <2>3
  <2>6. ASSUME NEW u \in Order PROVE ProviderStep(u)
    <3>1. CASE u = o
      BY <1>0, <2>2, <2>5, <3>1 DEF ProviderTyped, ProviderStep
    <3>2. CASE u # o
      BY <1>0, <2>2, <2>5, <3>2 DEF ProviderTyped, ProviderStep
    <3> QED
      BY <3>1, <3>2
  <2> QED
    BY <2>4, <2>6
<1> QED
  BY <1>1, <1>2, <1>3, <1>4, <1>5, ProviderMovers

\* News have one time for good.
LEMMA SentStays ==
  ASSUME IInv, [Next]_vars, NEW e \in Event, sent[e] > 0
  PROVE  sent'[e] = sent[e]
<1>1. PICK o \in Order, k \in Kind : e = <<o, k>>
  BY DEF Event
<1>2. ProviderStep(o)
  BY ProviderFollows
<1>3. session[o] # "paid" => \A j \in Paid : ~(sent[<<o, j>>] > 0)
  BY DEF IInv, SentSound
<1> QED
  BY <1>1, <1>2, <1>3 DEF ProviderStep

LEMMA SentSoundStep == ASSUME IInv, [Next]_vars PROVE SentSound'
<1>0. /\ Paid \subseteq Kind /\ Settling \subseteq Paid
      /\ {"declined", "closed"} \subseteq Kind /\ {"declined", "closed"} \cap Paid = {}
  BY DEF Paid, Settling, Kind
<1>1. \A o \in Order, k \in Kind : sent[<<o, k>>] \in Nat
  BY TypeParts DEF IInv, Event
<1>2. ASSUME NEW o \in Order
      PROVE  /\ \A k \in Paid : sent'[<<o, k>>] > 0 => session'[o] = "paid"
             /\ \A s \in Settling : sent'[<<o, s>>] > 0
                  => \A n \in {"declined", "closed"} : sent'[<<o, n>>] <= sent'[<<o, s>>]
  <2>1. /\ \A k \in Paid : sent[<<o, k>>] > 0 => session[o] = "paid"
        /\ \A s \in Settling : sent[<<o, s>>] > 0
             => \A n \in {"declined", "closed"} : sent[<<o, n>>] <= sent[<<o, s>>]
    BY DEF IInv, SentSound
  <2>2. CASE /\ \A k \in Kind : sent'[<<o, k>>] = sent[<<o, k>>]
             /\ session'[o] = "paid" <=> session[o] = "paid"
    BY <1>0, <2>1, <2>2
  <2>3. CASE /\ session[o] # "paid" /\ session'[o] # "paid"
             /\ \E n \in {"declined", "closed"} :
                  sent[<<o, n>>] = 0 /\ \A k \in Kind : k # n => sent'[<<o, k>>] = sent[<<o, k>>]
    BY <1>0, <2>1, <2>3
  <2>4. CASE /\ session[o] = "offered" /\ session'[o] = "paid"
             /\ \A k \in Kind : IF k \in Paid THEN sent'[<<o, k>>] \in Times(o) \cup {sent[<<o, k>>]}
                                              ELSE sent'[<<o, k>>] = sent[<<o, k>>]
    <3>1. ASSUME NEW s \in Settling, sent'[<<o, s>>] > 0, NEW n \in {"declined", "closed"}
          PROVE  sent'[<<o, n>>] <= sent'[<<o, s>>]
      <4>1. sent'[<<o, n>>] = sent[<<o, n>>]
        BY <1>0, <2>4
      <4>2. ~(sent[<<o, s>>] > 0)
        BY <1>0, <2>1, <2>4
      <4>3. sent'[<<o, s>>] \in Times(o)
        BY <1>0, <2>4, <3>1, <4>2
      <4> QED
        BY <1>0, <4>1, <4>3 DEF Times
    <3> QED
      BY <2>4, <3>1
  <2> QED
    BY <2>2, <2>3, <2>4, ProviderFollows DEF ProviderStep
<1> QED
  BY <1>2 DEF SentSound

-----------------------------------------------------------------------------
(* The actors *)

LEMMA CallTypes == ASSUME IInv, [Next]_vars PROVE call' \in [Caller -> CallRow] /\ CallSound'
<1>0. /\ call \in [Caller -> CallRow]
      /\ \A c \in Caller : call[c].pc # "idle" => call[c].order \in Order
      /\ NoCall \in CallRow /\ NoCall.pc = "idle"
  BY TypeParts DEF IInv, CallSound, NoCall, CallRow
<1>1. CASE call' = call
  BY <1>0, <1>1 DEF CallSound
<1>2. ASSUME NEW c \in Caller, Return(c) PROVE call' \in [Caller -> CallRow] /\ CallSound'
  BY <1>0, <1>2 DEF Return, CallSound
<1>3. ASSUME NEW c \in Caller, call[c].pc # "idle",
             NEW pc \in {"reserved", "stale", "answered", "failed", "expiring", "undoing"}, Goto(c, pc)
      PROVE  call' \in [Caller -> CallRow] /\ CallSound'
  <2>1. ASSUME NEW r \in CallRow PROVE [r EXCEPT !.pc = pc] \in CallRow /\ [r EXCEPT !.pc = pc].order = r.order
    BY DEF CallRow
  <2>2. call' = [u \in Caller |-> IF u = c THEN [call[u] EXCEPT !.pc = pc] ELSE call[u]]
    BY <1>0, <1>3 DEF Goto
  <2>3. ASSUME NEW u \in Caller
        PROVE  call'[u] \in CallRow /\ call'[u].order = call[u].order /\ (u # c => call'[u] = call[u])
    BY <1>0, <2>1, <2>2
  <2>4. call' \in [Caller -> CallRow]
    BY <2>2, <2>3
  <2> QED
    BY <1>0, <1>3, <2>3, <2>4 DEF CallSound
<1>4. ASSUME NEW c \in Caller, NEW o \in Order,
             call' = [call EXCEPT ![c] = [pc |-> "prepared", order |-> o]]
      PROVE  call' \in [Caller -> CallRow] /\ CallSound'
  <2>1. [pc |-> "prepared", order |-> o] \in CallRow
    BY DEF CallRow
  <2> QED
    BY <1>0, <1>4, <2>1 DEF CallSound
<1>5. ASSUME NEW c \in Caller, NEW o \in Order, CreateOrder(c, o) \/ ReplayOrder(c, o)
      PROVE  call' \in [Caller -> CallRow] /\ CallSound'
  <2>1. call' = call \/ call' = [call EXCEPT ![c] = [pc |-> "prepared", order |-> o]]
    BY <1>5 DEF CreateOrder, ReplayOrder
  <2> QED
    BY <1>1, <1>4, <2>1
<1>6. ASSUME NEW c \in Caller,
             Reserve(c) \/ HoldStaleAuthority(c) \/ CallProvider(c) \/ RecordFailure(c)
              \/ RecordSession(c) \/ SessionUnrecorded(c) \/ ExpireSession(c)
      PROVE  call' \in [Caller -> CallRow] /\ CallSound'
  <2>1. /\ call[c].pc # "idle"
        /\ Return(c) \/ \E pc \in {"reserved", "stale", "answered", "failed", "expiring", "undoing"} : Goto(c, pc)
    BY <1>6 DEF Reserve, HoldStaleAuthority, CallProvider, RecordFailure, RecordSession, SessionUnrecorded, ExpireSession
  <2> QED
    BY <1>2, <1>3, <2>1
<1>7. CASE Die
  <2>1. call' = call \/ \E c \in Caller : Return(c)
    BY <1>7 DEF Die
  <2> QED
    BY <1>1, <1>2, <2>1
<1> QED
  BY <1>1, <1>5, <1>6, <1>7, CallMovers

LEMMA HookTypes == ASSUME IInv, [Next]_vars PROVE hook' \in [Hook -> HookRow] /\ HookSound'
<1>0. /\ hook \in [Hook -> HookRow]
      /\ NoHook \in HookRow /\ NoHook.event = NoEvent
  BY TypeParts DEF IInv, NoHook, HookRow
<1>1. ASSUME NEW h \in Hook, hook[h].event # NoEvent
      PROVE  hook[h].event \in Emits /\ sent'[hook[h].event] > 0
  <2>1. hook[h].event \in Emits /\ sent[hook[h].event] > 0
    BY <1>1 DEF IInv, HookSound
  <2>2. hook[h].event \in Event
    BY <2>1, Events
  <2> QED
    BY <2>1, <2>2, SentStays
<1>2. CASE hook' = hook
  BY <1>0, <1>1, <1>2 DEF HookSound
<1>3. ASSUME NEW h \in Hook, hook' = [hook EXCEPT ![h] = NoHook]
      PROVE  hook' \in [Hook -> HookRow] /\ HookSound'
  BY <1>0, <1>1, <1>3 DEF HookSound
<1>4. ASSUME NEW h \in Hook, NEW e \in Emits, Receive(h, e)
      PROVE  hook' \in [Hook -> HookRow] /\ HookSound'
  <2> DEFINE row == [event |-> e, replay |-> inbox[e].status # "none", outbound |-> Outbound]
  <2>1. e \in Event
    BY Events
  <2>2. row \in HookRow /\ row.event = e
    <3>1. (inbox[e].status # "none") \in BOOLEAN /\ Outbound \in BOOLEAN
      BY DEF Outbound
    <3> QED
      BY <2>1, <3>1 DEF HookRow
  <2>3. sent'[e] > 0
    BY <1>4, <2>1, SentStays DEF Receive
  <2>4. hook' = [hook EXCEPT ![h] = row]
    BY <1>4 DEF Receive
  <2> HIDE DEF row
  <2> QED
    BY <1>0, <1>1, <2>2, <2>3, <2>4 DEF HookSound
<1>5. (Die \/ \E h \in Hook : Repeat(h) \/ Ingest(h))
        => hook' = hook \/ \E h \in Hook : hook' = [hook EXCEPT ![h] = NoHook]
  BY DEF Die, Repeat, Ingest
<1> QED
  BY <1>2, <1>3, <1>4, <1>5, HookMovers

\* What a worker's step does to its task.
TaskStep(p) ==
  \/ task'[p] = task[p]
  \/ task'[p].pc = "idle"
  \/ \E e \in Emits : /\ sent[e] > 0 /\ task'[p].pc = "read" /\ task'[p].event = e
                      /\ task'[p].renewal => e[2] \in Settling /\ order[e[1]] = "PAID"
  \/ /\ task[p].pc # "idle" /\ task'[p].event = task[p].event /\ task'[p].renewal = task[p].renewal
     /\ task[p].event[2] \in Settling
     /\ task'[p].verdict = "PROJECTED" => order'[task[p].event[1]] = "PAID"

LEMMA TaskFollows ==
  ASSUME IInv, [Next]_vars
  PROVE  task' \in [Projector -> TaskRow] /\ \A p \in Projector : TaskStep(p)
<1>0. /\ task \in [Projector -> TaskRow]
      /\ NoTask \in TaskRow /\ NoTask.pc = "idle"
  BY TypeParts DEF IInv, NoTask, TaskRow
<1>1. CASE task' = task
  BY <1>0, <1>1 DEF TaskStep
<1>2. ASSUME NEW p \in Projector, Finish(p)
      PROVE  task' \in [Projector -> TaskRow] /\ \A q \in Projector : TaskStep(q)
  BY <1>0, <1>2 DEF Finish, TaskStep
<1>3. ASSUME NEW p \in Projector, NEW e \in Emits, Begin(p, e)
      PROVE  task' \in [Projector -> TaskRow] /\ \A q \in Projector : TaskStep(q)
  <2> DEFINE renewal == e[2] \in Settling /\ invoices[e[1]] > 0
             row == [pc |-> "read", event |-> e, verdict |-> "PROJECTED", renewal |-> renewal]
  <2>1. e \in Event /\ e[1] \in Order /\ sent[e] > 0
    BY <1>3, Events DEF Begin, Waiting, IInv, InboxSound
  <2>2. renewal \in BOOLEAN
    OBVIOUS
  <2>3. renewal => e[2] \in Settling /\ order[e[1]] = "PAID"
    <3>1. invoices[e[1]] \in 0..1
      BY <2>1, TypeParts DEF IInv
    <3> QED
      BY <2>1, <3>1 DEF IInv, SettledTogether
  <2>4. task' = [task EXCEPT ![p] = row]
    BY <1>3 DEF Begin
  <2>5. row \in TaskRow /\ row.pc = "read" /\ row.event = e
    <3> HIDE DEF renewal
    <3> QED
      BY <2>1, <2>2 DEF TaskRow
  <2>6. row.renewal => e[2] \in Settling /\ order[e[1]] = "PAID"
    BY <2>3
  <2> HIDE DEF row
  <2> QED
    BY <1>0, <2>1, <2>4, <2>5, <2>6 DEF TaskStep
<1>4. ASSUME NEW p \in Projector, NEW v \in {"PROJECTED", "HELD"}, Conclude(p, v), task[p].pc # "idle",
             task[p].event[2] \in Settling, v = "PROJECTED" => order'[task[p].event[1]] = "PAID"
      PROVE  task' \in [Projector -> TaskRow] /\ \A q \in Projector : TaskStep(q)
  <2>1. ASSUME NEW r \in TaskRow
        PROVE  LET s == [r EXCEPT !.pc = "settled", !.verdict = v] IN
               s \in TaskRow /\ s.event = r.event /\ s.renewal = r.renewal /\ s.verdict = v
    BY DEF TaskRow
  <2>2. task' = [u \in Projector |-> IF u = p THEN [task[u] EXCEPT !.pc = "settled", !.verdict = v] ELSE task[u]]
    BY <1>0, <1>4 DEF Conclude
  <2>3. ASSUME NEW u \in Projector
        PROVE  /\ task'[u] \in TaskRow /\ (u # p => task'[u] = task[u])
               /\ u = p => task'[u].event = task[u].event /\ task'[u].renewal = task[u].renewal /\ task'[u].verdict = v
    BY <1>0, <2>1, <2>2
  <2>4. task' \in [Projector -> TaskRow]
    BY <2>2, <2>3
  <2>5. ASSUME NEW u \in Projector PROVE TaskStep(u)
    <3>1. CASE u = p
      BY <1>4, <2>3, <3>1 DEF TaskStep
    <3>2. CASE u # p
      BY <2>3, <3>2 DEF TaskStep
    <3> QED
      BY <3>1, <3>2
  <2> QED
    BY <2>4, <2>5
<1>5. ASSUME NEW p \in Projector, Settle(p)
      PROVE  task' \in [Projector -> TaskRow] /\ \A q \in Projector : TaskStep(q)
  <2>1. PICK e \in Emits : SettleStep(p, e)
    BY <1>5, SettleCases
  <2>2. PICK o \in Order : o = e[1]
    BY Events
  <2>3. \/ Conclude(p, "HELD")
        \/ Conclude(p, "PROJECTED") /\ order'[o] = "PAID"
    <3>1. order \in [Order -> OrderStatus]
      BY TypeParts DEF IInv
    <3>2. \/ Conclude(p, "HELD")
          \/ Conclude(p, "PROJECTED") /\ order' = order /\ order[o] = "PAID"
          \/ Conclude(p, "PROJECTED") /\ order' = [order EXCEPT ![o] = "PAID"]
      BY <2>1, <2>2 DEF SettleStep, SettleMove, billingVars
    <3> QED
      BY <3>1, <3>2
  <2>4. task[p].pc # "idle" /\ task[p].event[2] \in Settling /\ task[p].event[1] = o
    BY <2>1, <2>2 DEF SettleStep
  <2> QED
    BY <1>4, <2>3, <2>4
<1>6. CASE \/ Die
           \/ \E p \in Projector, target \in {"FAILED", "EXPIRED"} : ProjectNonSuccess(p, target)
           \/ \E p \in Projector : BindCheckout(p) \/ ProjectRenewal(p) \/ Terminalize(p) \/ ProjectionFails(p)
  <2>1. task' = task \/ \E p \in Projector : Finish(p)
    BY <1>6 DEF Die, ProjectNonSuccess, BindCheckout, ProjectRenewal, Terminalize, ProjectionFails
  <2> QED
    BY <1>1, <1>2, <2>1
<1> QED
  BY <1>1, <1>3, <1>5, <1>6, TaskMovers

LEMMA TaskSoundStep == ASSUME IInv, [Next]_vars PROVE TaskSound'
<1>1. ASSUME NEW p \in Projector, task'[p].pc # "idle", NEW e, e = task'[p].event
      PROVE  /\ e \in Emits /\ sent'[e] > 0
             /\ task'[p].renewal => e[2] \in Settling /\ order'[e[1]] = "PAID"
             /\ task'[p].pc = "settled" => e[2] \in Settling /\ (task'[p].verdict = "PROJECTED" => order'[e[1]] = "PAID")
  <2>0. TaskStep(p)
    BY TaskFollows
  <2>1. ASSUME NEW u \in Emits
        PROVE  /\ sent[u] > 0 => sent'[u] > 0
               /\ order[u[1]] = "PAID" => order'[u[1]] = "PAID"
    BY Events, SentStays, PaidStays
  <2>2. task[p].pc # "idle" =>
          /\ task[p].event \in Emits /\ sent[task[p].event] > 0
          /\ task[p].renewal => task[p].event[2] \in Settling /\ order[task[p].event[1]] = "PAID"
          /\ task[p].pc = "settled" =>
               task[p].event[2] \in Settling /\ (task[p].verdict = "PROJECTED" => order[task[p].event[1]] = "PAID")
    BY DEF IInv, TaskSound
  <2>3. CASE task'[p] = task[p]
    BY <1>1, <2>1, <2>2, <2>3
  <2>4. CASE \E u \in Emits :
               /\ sent[u] > 0 /\ task'[p].pc = "read" /\ task'[p].event = u
               /\ task'[p].renewal => u[2] \in Settling /\ order[u[1]] = "PAID"
    BY <1>1, <2>1, <2>4
  <2>5. CASE /\ task[p].pc # "idle" /\ task'[p].event = task[p].event /\ task'[p].renewal = task[p].renewal
             /\ task[p].event[2] \in Settling
             /\ task'[p].verdict = "PROJECTED" => order'[task[p].event[1]] = "PAID"
    BY <1>1, <2>1, <2>2, <2>5
  <2> QED
    BY <1>1, <2>0, <2>3, <2>4, <2>5 DEF TaskStep
<1> QED
  BY <1>1 DEF TaskSound

LEMMA WorldTypes ==
  ASSUME IInv, [Next]_vars
  PROVE  /\ work' \in [Event -> {"none", "queued", "paused"}]
         /\ changes' \in 0..MaxChanges /\ bound' \subseteq Order /\ overdue' \subseteq Order
         /\ faults' \in 0..MaxFaults
<1>0. /\ work \in [Event -> {"none", "queued", "paused"}]
      /\ changes \in 0..MaxChanges /\ bound \subseteq Order /\ overdue \subseteq Order
      /\ faults \in 0..MaxFaults
  BY TypeParts DEF IInv
<1>1. work' \in [Event -> {"none", "queued", "paused"}]
  <2>1. ASSUME NEW e PROVE Enqueue(e) \in [Event -> {"none", "queued", "paused"}]
    BY <1>0 DEF Enqueue
  <2>2. Resume => work' \in [Event -> {"none", "queued", "paused"}]
    BY <1>0 DEF Resume
  <2>3. ASSUME NEW h \in Hook, Repeat(h) \/ Ingest(h)
        PROVE  work' = work \/ \E e : work' = Enqueue(e)
    BY <2>3 DEF Repeat, Ingest
  <2>4. ASSUME NEW e \in Emits, Release(e) \/ PauseWork(e)
        PROVE  work' \in [Event -> {"none", "queued", "paused"}]
    BY <1>0, <2>4 DEF Release, PauseWork
  <2> QED
    BY <1>0, <2>1, <2>2, <2>3, <2>4, WorkMovers
<1>2. changes' \in 0..MaxChanges /\ faults' \in 0..MaxFaults
  <2>1. \/ UNCHANGED <<changes, faults>>
        \/ changes < MaxChanges /\ changes' = changes + 1 /\ faults' = faults
        \/ faults < MaxFaults /\ faults' = faults + 1 /\ changes' = changes
    BY WorldMovers DEF CreateOrder, Lapse, Withdraw, Reactivate, Die, ProjectionFails
  <2> QED
    BY <1>0, <2>1, Numbers
<1>3. bound' \subseteq Order /\ overdue' \subseteq Order
  BY <1>0, WorldMovers DEF CreateOrder, Lapse, Withdraw, Reactivate, Die, ProjectionFails
<1> QED
  BY <1>1, <1>2, <1>3

-----------------------------------------------------------------------------
(* The invariant *)

LEMMA TypeStep == ASSUME IInv, [Next]_vars PROVE TypeOK'
<1>1. /\ order' \in [Order -> OrderStatus] /\ invoices' \in [Order -> 0..1] /\ AttemptOK'
  BY OrderTypes, AttemptTypes
<1>2. inbox' \in [Event -> InboxRow]
  BY RowFollows
<1>3. /\ session' \in [Order -> {"none", "open", "offered", "paid", "expired"}]
      /\ sent' \in [Event -> 0..MaxTime]
  BY ProviderFollows DEF ProviderTyped
<1>4. call' \in [Caller -> CallRow] /\ hook' \in [Hook -> HookRow] /\ task' \in [Projector -> TaskRow]
  BY CallTypes, HookTypes, TaskFollows
<1> QED
  BY <1>1, <1>2, <1>3, <1>4, WorldTypes
     DEF TypeOK, AttemptOK, AttemptRow, InboxRow, CallRow, HookRow, TaskRow

LEMMA InboxSoundStep == ASSUME IInv, [Next]_vars PROVE InboxSound'
<1>1. ASSUME NEW e \in Event, inbox'[e].status # "none" PROVE sent'[e] > 0
  <2>1. RowStep(e)
    BY RowFollows
  <2>2. inbox[e].status # "none" => sent[e] > 0
    BY DEF IInv, InboxSound
  <2>3. sent[e] > 0
    BY <1>1, <2>1, <2>2 DEF RowStep, Revoked, Waiting
  <2> QED
    BY <2>3, SentStays
<1> QED
  BY <1>1 DEF InboxSound

LEMMA SettledTogetherStep == ASSUME IInv, [Next]_vars PROVE SettledTogether'
<1>1. ASSUME NEW o \in Order
      PROVE  /\ order'[o] = "PAID" <=> attempt'[o].status = "SUCCEEDED"
             /\ order'[o] = "PAID" <=> invoices'[o] = 1
  BY SettledSteps DEF IInv, SettledTogether
<1> QED
  BY <1>1 DEF SettledTogether

LEMMA ProjectedIsPaidStep == ASSUME IInv, [Next]_vars PROVE ProjectedIsPaid'
<1>1. ASSUME NEW e \in Emits, e[2] \in Settling, inbox'[e].status \in {"PROJECTED", "IGNORED"}
      PROVE  order'[e[1]] = "PAID"
  <2>1. e \in Event /\ e[1] \in Order
    BY Events
  <2>2. RowStep(e)
    BY <2>1, RowFollows
  <2>3. inbox[e].status \in {"PROJECTED", "IGNORED"} => order[e[1]] = "PAID"
    BY <1>1 DEF IInv, ProjectedIsPaid
  <2>4. order[e[1]] = "PAID"
    BY <1>1, <2>2, <2>3 DEF RowStep, NewsMove, BindMove, Settling
  <2> QED
    BY <2>1, <2>4, PaidStays
<1> QED
  BY <1>1 DEF ProjectedIsPaid

LEMMA CursorSoundStep == ASSUME IInv, [Next]_vars PROVE CursorSound'
<1>1. ASSUME NEW o \in Order
      PROVE  /\ attempt'[o].status = "CREATED" => attempt'[o].at = 0
             /\ attempt'[o].rank = 100 => /\ attempt'[o].status \notin {"FAILED", "EXPIRED"}
                                          /\ \E s \in Settling : sent'[<<o, s>>] = attempt'[o].at
  <2>0. /\ attempt[o].status = "CREATED" => attempt[o].at = 0
        /\ attempt[o].rank = 100 => /\ attempt[o].status \notin {"FAILED", "EXPIRED"}
                                    /\ \E s \in Settling : sent[<<o, s>>] = attempt[o].at
    BY DEF IInv, CursorSound
  <2>1. ASSUME attempt[o].rank = 100
        PROVE  \E s \in Settling : sent'[<<o, s>>] = attempt[o].at
    <3>1. PICK s \in Settling : sent[<<o, s>>] = attempt[o].at
      BY <2>0, <2>1
    <3>2. attempt[o].at \in 0..MaxTime /\ attempt[o].at # 0
      BY <2>1, TypeParts DEF IInv, AttemptOK, AttemptRow
    <3>3. sent[<<o, s>>] > 0 /\ <<o, s>> \in Event
      BY <3>1, <3>2, Numbers DEF Event, Kind, Settling
    <3> QED
      BY <3>1, <3>3, SentStays
  <2>2. ASSUME NEW e \in Emits, e[1] = o, MoneyMove(e) \/ SettleMove(e)
        PROVE  \E s \in Settling : sent'[<<o, s>>] = sent[e]
    <3>1. e[2] \in Settling /\ sent[e] > 0 /\ e \in Event /\ e = <<o, e[2]>>
      BY <2>2, Events DEF MoneyMove, SettleMove
    <3>2. sent'[e] = sent[e]
      BY <3>1, SentStays
    <3> QED
      BY <3>1, <3>2
  <2>3. CASE attempt'[o] = attempt[o]
    BY <2>0, <2>1, <2>3
  <2>4. CASE /\ attempt'[o].status \in {"HELD", "CHECKOUT_CREATED", "PENDING"}
             /\ attempt'[o].at = attempt[o].at /\ attempt'[o].rank = attempt[o].rank
    BY <2>1, <2>4
  <2>5. ASSUME NEW e \in Emits, e[1] = o, NEW s \in {"FAILED", "EXPIRED"}, Cursored(o, e, s, Rank(s))
        PROVE  attempt'[o].status # "CREATED" /\ attempt'[o].rank # 100
    BY <2>5, Ranks DEF Cursored
  <2>6. ASSUME NEW e \in Emits, e[1] = o, Cursored(o, e, "PENDING", 10)
        PROVE  attempt'[o].status # "CREATED" /\ attempt'[o].rank # 100
    BY <2>6 DEF Cursored
  <2>7. ASSUME NEW e \in Emits, e[1] = o, NEW s \in {"HELD", "SUCCEEDED"}, Cursored(o, e, s, 100),
               MoneyMove(e) \/ SettleMove(e)
        PROVE  /\ attempt'[o].status \notin {"CREATED", "FAILED", "EXPIRED"}
               /\ \E k \in Settling : sent'[<<o, k>>] = attempt'[o].at
    BY <2>2, <2>7 DEF Cursored
  <2> QED
    BY <2>3, <2>4, <2>5, <2>6, <2>7, AttemptFollows DEF AttemptStep
<1> QED
  BY <1>1 DEF CursorSound

\* No failure is newer than a cursor that money left, and no news are older than
\* the cursor they replace.
LEMMA CursorGrows ==
  ASSUME IInv, [Next]_vars, NEW o \in Order, order'[o] # "PAID"
  PROVE  \/ attempt'[o].at = attempt[o].at /\ attempt'[o].rank = attempt[o].rank
         \/ /\ attempt[o].at <= attempt'[o].at /\ attempt[o].rank # 100
            /\ \E e \in Emits : e[1] = o /\ ~(e[2] \in Settling) /\ attempt'[o].at = sent[e]
         \/ \E e \in Emits : /\ e[1] = o /\ e[2] = "completed"
                             /\ attempt[o].at <= attempt'[o].at /\ attempt'[o].at = sent[e]
         \/ attempt'[o].rank = 100 /\ \E e \in Emits : /\ e[1] = o /\ e[2] \in Settling /\ sent[e] > 0
                                                      /\ attempt'[o].at = sent[e]
<1>0. /\ attempt[o].at \in 0..MaxTime /\ \A e \in Emits : sent[e] \in 0..MaxTime
      /\ attempt[o].at = 0 <=> attempt[o].rank = 0
  BY Events, TypeParts DEF IInv, AttemptOK, AttemptRow
<1>1. ASSUME NEW e \in Emits, e[1] = o, NEW s \in {"FAILED", "EXPIRED"}, NewsMove(e, s), Cursored(o, e, s, Rank(s))
      PROVE  attempt[o].at <= attempt'[o].at /\ attempt[o].rank # 100
  <2>1. e[2] \in {"declined", "closed"} /\ ~Older(e, s) /\ attempt'[o].at = sent[e] /\ sent[e] > 0
    BY <1>1 DEF NewsMove, Cursored
  <2>2. attempt[o].at = 0 \/ (sent[e] >= attempt[o].at /\ ~(sent[e] = attempt[o].at /\ Rank(s) <= attempt[o].rank))
    BY <1>0, <1>1, <2>1 DEF Older
  <2>3. ASSUME attempt[o].rank = 100 PROVE FALSE
    <3>1. PICK k \in Settling : sent[<<o, k>>] = attempt[o].at
      BY <2>3 DEF IInv, CursorSound
    <3>2. sent[<<o, k>>] > 0
      BY <1>0, <2>3, <3>1, Numbers
    <3>3. sent[<<o, "declined">>] <= sent[<<o, k>>] /\ sent[<<o, "closed">>] <= sent[<<o, k>>]
      BY <3>2 DEF IInv, SentSound
    <3>4. e = <<o, e[2]>>
      BY <1>1, Events
    <3>5. sent[e] <= attempt[o].at
      BY <2>1, <3>1, <3>3, <3>4
    <3>6. Rank(s) <= 100
      BY Ranks
    <3> QED
      BY <1>0, <2>2, <2>3, <3>5, <3>6
  <2> QED
    BY <1>0, <2>1, <2>2, <2>3
<1>2. ASSUME NEW e \in Emits, e[1] = o, BindMove(e), Cursored(o, e, "PENDING", 10)
      PROVE  e[2] = "completed" /\ attempt[o].at <= attempt'[o].at /\ attempt'[o].at = sent[e]
  BY <1>0, <1>2 DEF BindMove, Cursored, Older
<1>3. ASSUME NEW e \in Emits, e[1] = o, SettleMove(e) PROVE FALSE
  BY <1>3, TypeParts DEF IInv, SettleMove
<1>4. ASSUME NEW e \in Emits, e[1] = o, MoneyMove(e), Cursored(o, e, "HELD", 100)
      PROVE  attempt'[o].rank = 100 /\ e[2] \in Settling /\ sent[e] > 0 /\ attempt'[o].at = sent[e]
  BY <1>4 DEF MoneyMove, Cursored
<1>5. ASSUME NEW e \in Emits, e[1] = o, NEW s \in {"FAILED", "EXPIRED"}, NewsMove(e, s), Cursored(o, e, s, Rank(s))
      PROVE  ~(e[2] \in Settling) /\ attempt'[o].at = sent[e]
  BY <1>5 DEF NewsMove, Cursored, Settling
<1> QED
  BY <1>1, <1>2, <1>3, <1>4, <1>5, AttemptFollows DEF AttemptStep

LEMMA CursorPassedStep == ASSUME IInv, [Next]_vars PROVE CursorPassed'
<1>1. ASSUME NEW e \in Emits, inbox'[e].status = "PROJECTED", NEW o \in Order, o = e[1], order'[o] # "PAID"
      PROVE  sent'[e] <= attempt'[o].at \/ (attempt'[o].rank = 100 /\ e[2] = "completed")
  <2>0. /\ e \in Event /\ e = <<o, e[2]>> /\ e[2] \in Kind /\ RowStep(e)
        /\ attempt[o].at \in 0..MaxTime /\ attempt \in [Order -> AttemptRow]
        /\ \A u \in Emits : sent[u] \in 0..MaxTime
    BY <1>1, Events, RowFollows, TypeParts DEF IInv, AttemptOK, AttemptRow
  <2>1. order[o] # "PAID"
    BY <1>1, PaidStays
  <2>2. CASE inbox[e].status = "PROJECTED"
    <3>1. sent[e] > 0 /\ sent'[e] = sent[e]
      BY <2>0, <2>2, SentStays DEF IInv, InboxSound
    <3>2. sent[e] <= attempt[o].at \/ (attempt[o].rank = 100 /\ e[2] = "completed")
      BY <1>1, <2>1, <2>2 DEF IInv, CursorPassed
    <3>3. e[2] \in {"declined", "closed", "completed"}
      BY <1>1, <2>0, <2>1, <2>2 DEF IInv, ProjectedIsPaid, Settling, Kind
    <3>4. CASE attempt'[o].at = attempt[o].at /\ attempt'[o].rank = attempt[o].rank
      BY <3>1, <3>2, <3>4
    <3>5. CASE /\ attempt[o].at <= attempt'[o].at /\ attempt[o].rank # 100
               /\ \E u \in Emits : attempt'[o].at = sent[u]
      BY <2>0, <3>1, <3>2, <3>5
    <3>6. ASSUME NEW u \in Emits, u[1] = o, u[2] = "completed",
                 attempt[o].at <= attempt'[o].at, attempt'[o].at = sent[u]
          PROVE  sent'[e] <= attempt'[o].at
      <4>1. CASE e[2] = "completed"
        <5>1. u = e
          BY <2>0, <3>6, <4>1, Events
        <5> QED
          BY <2>0, <3>1, <3>6, <5>1
      <4>2. CASE e[2] # "completed"
        BY <2>0, <3>1, <3>2, <3>6, <4>2
      <4> QED
        BY <4>1, <4>2
    <3>7. ASSUME NEW u \in Emits, u[1] = o, u[2] \in Settling, sent[u] > 0, attempt'[o].at = sent[u],
                 e[2] # "completed"
          PROVE  sent'[e] <= attempt'[o].at
      <4>1. u = <<o, u[2]>>
        BY <3>7, Events
      <4>2. sent[<<o, "declined">>] <= sent[u] /\ sent[<<o, "closed">>] <= sent[u]
        BY <3>7, <4>1 DEF IInv, SentSound
      <4> QED
        BY <2>0, <3>1, <3>3, <3>7, <4>2
    <3> QED
      BY <1>1, <3>4, <3>5, <3>6, <3>7, CursorGrows
  <2>3. CASE inbox[e].status # "PROJECTED"
    <3>1. BindMove(e) \/ \E target \in {"FAILED", "EXPIRED"} : NewsMove(e, target)
      BY <1>1, <2>0, <2>1, <2>3 DEF RowStep
    <3>2. sent[e] > 0 /\ attempt'[o].at = sent[e]
      BY <1>1, <2>0, <3>1, CursorFields DEF BindMove, NewsMove
    <3>3. sent'[e] = sent[e]
      BY <2>0, <3>2, SentStays
    <3> QED
      BY <2>0, <3>2, <3>3
  <2> QED
    BY <2>2, <2>3
<1>2. \A e \in Emits : e[1] \in Order
  BY Events
<1> QED
  BY <1>1, <1>2 DEF CursorPassed

LEMMA Start == Init => IInv
<1> SUFFICES ASSUME Init PROVE IInv
  OBVIOUS
<1>1. TypeOK
  <2>1. /\ "none" \in OrderStatus /\ NewAttempt \in AttemptRow
        /\ [status |-> "none", code |-> "none"] \in InboxRow
        /\ NoCall \in CallRow /\ NoHook \in HookRow /\ NoTask \in TaskRow
    BY Numbers DEF OrderStatus, NewAttempt, AttemptRow, AttemptStatus, Code, InboxRow, InboxStatus, NoCall,
         CallRow, NoHook, HookRow, NoTask, TaskRow
  <2>2. /\ order \in [Order -> OrderStatus] /\ invoices \in [Order -> 0..1]
        /\ inbox \in [Event -> InboxRow] /\ work \in [Event -> {"none", "queued", "paused"}]
        /\ call \in [Caller -> CallRow] /\ hook \in [Hook -> HookRow] /\ task \in [Projector -> TaskRow]
    BY <2>1 DEF Init
  <2>3. /\ session \in [Order -> {"none", "open", "offered", "paid", "expired"}]
        /\ sent \in [Event -> 0..MaxTime]
        /\ changes \in 0..MaxChanges /\ bound \subseteq Order /\ overdue \subseteq Order /\ faults \in 0..MaxFaults
    BY Numbers DEF Init
  <2>4. AttemptOK
    BY <2>1 DEF Init, AttemptOK, NewAttempt
  <2> QED
    BY <2>2, <2>3, <2>4, TypeParts
<1>2. \A e \in Emits : e \in Event /\ e[1] \in Order
  BY Events
<1>3. CallSound /\ HookSound /\ TaskSound
  BY DEF Init, CallSound, HookSound, TaskSound, NoCall, NoHook, NoTask
<1>4. SentSound /\ InboxSound
  BY DEF Init, SentSound, InboxSound, Event, Paid, Settling, Kind
<1>5. SettledTogether /\ CursorSound
  BY DEF Init, SettledTogether, CursorSound, NewAttempt
<1>6. ProjectedIsPaid /\ CursorPassed
  BY <1>2 DEF Init, ProjectedIsPaid, CursorPassed
<1> QED
  BY <1>1, <1>3, <1>4, <1>5, <1>6 DEF IInv

LEMMA Step == IInv /\ [Next]_vars => IInv'
<1> SUFFICES ASSUME IInv, [Next]_vars PROVE IInv'
  OBVIOUS
<1>1. TypeOK' /\ CallSound' /\ SentSound' /\ HookSound' /\ InboxSound' /\ TaskSound'
  BY TypeStep, CallTypes, SentSoundStep, HookTypes, InboxSoundStep, TaskSoundStep
<1>2. SettledTogether' /\ ProjectedIsPaid' /\ CursorSound' /\ CursorPassed'
  BY SettledTogetherStep, ProjectedIsPaidStep, CursorSoundStep, CursorPassedStep
<1> QED
  BY <1>1, <1>2 DEF IInv

-----------------------------------------------------------------------------
(* The theorems *)

\* The inductive invariant: types, what each request, webhook and worker may
\* rely on, and how far an attempt's cursor has come.
THEOREM Invariance == Spec => []IInv
  BY Start, Step, PTL DEF Spec

\* Types, and the CHECK constraints on codes and on the event cursor.
THEOREM TypesHold == Spec => []TypeOK
<1>1. IInv => TypeOK
  BY DEF IInv
<1> QED
  BY <1>1, Invariance, PTL

\* An order is paid exactly when its attempt succeeded and its invoice was
\* written, whatever checkout, webhook and projections write afterwards.
THEOREM SettledAsOne == Spec => []SettledTogether
<1>1. IInv => SettledTogether
  BY DEF IInv
<1> QED
  BY <1>1, Invariance, PTL

\* A payment event is set aside as done only when its order is paid.
THEOREM MoneyIsAccountedFor == Spec => []ProjectedIsPaid
<1>1. IInv => ProjectedIsPaid
  BY DEF IInv
<1> QED
  BY <1>1, Invariance, PTL

\* An attempt that failed or expired knows of nothing newer than what made it so,
\* in whatever order its events are projected.
THEOREM NewestNewsWin == Spec => []LateNewsLoses
<1>1. ASSUME IInv PROVE LateNewsLoses
  <2>1. ASSUME NEW e \in Emits, inbox[e].status = "PROJECTED", attempt[e[1]].status \in {"FAILED", "EXPIRED"}
        PROVE  sent[e] <= attempt[e[1]].at
    <3>1. e[1] \in Order
      BY Events
    <3>2. order[e[1]] # "PAID" /\ attempt[e[1]].rank # 100
      BY <1>1, <2>1, <3>1 DEF IInv, SettledTogether, CursorSound
    <3> QED
      BY <1>1, <2>1, <3>2 DEF IInv, CursorPassed
  <2> QED
    BY <2>1 DEF LateNewsLoses
<1> QED
  BY <1>1, Invariance, PTL

\* No webhook, worker or operator opens a row again that was done, but for held
\* money that is released once, when no work of it is queued.
THEOREM RowsStayDone == Spec => DoneStays
<1> DEFINE Kept == \A e \in Emits :
             inbox[e].status \in {"PROJECTED", "IGNORED", "HELD"} /\ inbox'[e] # inbox[e]
               => inbox[e] = Revoked /\ work[e] = "none"
<1>1. ASSUME IInv, [Next]_vars PROVE Kept
  <2>1. ASSUME NEW e \in Emits, inbox[e].status \in {"PROJECTED", "IGNORED", "HELD"}, inbox'[e] # inbox[e]
        PROVE  inbox[e] = Revoked /\ work[e] = "none"
    <3>1. RowStep(e)
      BY <1>1, Events, RowFollows
    <3> QED
      BY <2>1, <3>1 DEF RowStep, Waiting
  <2> QED
    BY <2>1
<1>2. IInv /\ [Next]_vars => [Kept]_vars
  BY <1>1
<1> HIDE DEF Kept
<1>3. Spec => [][Kept]_vars
  BY <1>2, Invariance, PTL DEF Spec
<1> QED
  BY <1>3 DEF DoneStays, Kept

\* Only a payment makes a session paid, one at a time, and only a settlement
\* writes an invoice.
LEMMA ChargeSteps ==
  ASSUME IInv, [Next]_vars
  PROVE  \/ {u \in Order : session'[u] = "paid"} = {u \in Order : session[u] = "paid"}
         \/ \E o \in Order :
              {u \in Order : session'[u] = "paid"} = {u \in Order : session[u] = "paid"} \cup {o}
<1>0. session \in [Order -> {"none", "open", "offered", "paid", "expired"}]
  BY TypeParts DEF IInv
<1>1. CASE \E o \in Order : Pay(o)
  <2>1. PICK o \in Order : session' = [session EXCEPT ![o] = "paid"]
    BY <1>1 DEF Pay
  <2> QED
    BY <1>0, <2>1
<1>2. CASE ~\E o \in Order : Pay(o)
  <2>1. ASSUME NEW u \in Order PROVE session'[u] = "paid" <=> session[u] = "paid"
    <3>1. CASE UNCHANGED <<session, sent>>
      BY <3>1
    <3>2. ASSUME NEW c \in Caller, CallProvider(c) \/ RecordSession(c) \/ ExpireSession(c)
          PROVE  session'[u] = "paid" <=> session[u] = "paid"
      BY <1>0, <3>2 DEF CallProvider, RecordSession, ExpireSession, Offer
    <3>3. ASSUME NEW o \in Order, Decline(o) \/ CloseSession(o)
          PROVE  session'[u] = "paid" <=> session[u] = "paid"
      BY <1>0, <3>3 DEF Decline, CloseSession
    <3> QED
      BY <1>2, <3>1, <3>2, <3>3, ProviderMovers
  <2> QED
    BY <2>1
<1> QED
  BY <1>1, <1>2

LEMMA InvoiceSteps ==
  ASSUME IInv, [Next]_vars
  PROVE  UNCHANGED invoices \/ \E e \in Emits : SettleMove(e) /\ session' = session
<1>1. ASSUME NEW p \in Projector, Settle(p)
      PROVE  UNCHANGED invoices \/ \E e \in Emits : SettleMove(e) /\ session' = session
  BY <1>1, SettleCases DEF SettleStep, Settle, billingVars, providerVars
<1>2. ASSUME NEW c \in Caller, NEW o \in Order, CreateOrder(c, o) \/ ReplayOrder(c, o) PROVE UNCHANGED invoices
  BY <1>2 DEF CreateOrder, ReplayOrder
<1>3. ASSUME NEW c \in Caller, HoldStaleAuthority(c) \/ RecordFailure(c) \/ RecordSession(c)
      PROVE  UNCHANGED invoices
  BY <1>3 DEF HoldStaleAuthority, RecordFailure, RecordSession
<1>4. (\E h \in Hook : Ingest(h)) \/ (\E e \in Emits : Release(e))
        => UNCHANGED invoices
  BY DEF Ingest, Release
<1>5. ASSUME NEW p \in Projector, NEW target \in {"FAILED", "EXPIRED"},
             ProjectNonSuccess(p, target) \/ BindCheckout(p)
      PROVE  UNCHANGED invoices
  BY <1>5 DEF ProjectNonSuccess, BindCheckout
<1> QED
  BY <1>1, <1>2, <1>3, <1>4, <1>5, BillingMovers

\* Checkout and inbox implement Purchase: an order is fulfilled only when its
\* session was paid, once, and never two orders of the company.
THEOREM ImplementsPurchase == Spec => PurchaseSpec
<1>1. Init => P!Init
  BY DEF Init, P!Init
<1>2. ASSUME IInv, [Next]_vars PROVE [P!Next]_<<{o \in Order : session[o] = "paid"}, invoices>>
  <2>1. CASE UNCHANGED invoices
    <3>1. CASE {o \in Order : session'[o] = "paid"} = {o \in Order : session[o] = "paid"}
      BY <2>1, <3>1
    <3>2. ASSUME NEW o \in Order,
                 {u \in Order : session'[u] = "paid"} = {u \in Order : session[u] = "paid"} \cup {o}
          PROVE  P!Next
      BY <2>1, <3>2 DEF P!Next, P!Charge
    <3> QED
      BY <1>2, <3>1, <3>2, ChargeSteps
  <2>2. ASSUME NEW e \in Emits, SettleMove(e), session' = session
        PROVE  P!Next
    <3>1. PICK o \in Order : o = e[1] /\ e = <<o, e[2]>>
      BY Events
    <3>2. session[o] = "paid"
      BY <1>2, <2>2, <3>1 DEF SettleMove, IInv, SentSound, Paid
    <3>3. invoices \in [Order -> 0..1]
      BY <1>2, TypeParts DEF IInv
    <3>4. \A u \in Order : invoices[u] = 0
      BY <2>2, <3>3 DEF SettleMove, Overlaps
    <3>5. invoices' = [invoices EXCEPT ![o] = 1]
      <4>1. invoices' = [invoices EXCEPT ![o] = invoices[o] + 1] /\ invoices[o] + 1 = 1
        BY <2>2, <3>1, <3>4 DEF SettleMove
      <4> QED
        BY <3>3, <4>1
    <3>6. P!Fulfil(o)
      BY <2>2, <3>2, <3>4, <3>5 DEF P!Fulfil
    <3> QED
      BY <3>6 DEF P!Next
  <2> QED
    BY <1>2, <2>1, <2>2, InvoiceSteps
<1> QED
  BY <1>1, <1>2, Invariance, PTL DEF Spec, PurchaseSpec, P!Spec
=============================================================================
