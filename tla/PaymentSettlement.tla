------------------------- MODULE PaymentSettlement -------------------------
(***************************************************************************)
(* From the checkout of a plan to its settlement: the hosted checkout of   *)
(* src/lib/billing/orders.ts, the webhook, the inbox and its projection    *)
(* (src/lib/billing/payment-inbox.ts), and the payment provider they talk  *)
(* to.  The orders are those of one company, each for a plan it does not   *)
(* have yet; an order has one payment attempt and one provider session.    *)
(*                                                                         *)
(* One action is one transaction, or one call of the provider.             *)
(***************************************************************************)
EXTENDS Naturals, FiniteSets

CONSTANTS
  Order,
  Caller,      \* requests that run createCheckoutOrder
  Hook,        \* webhook requests that are served at the same time
  Projector,   \* worker tasks of payments.inbox-project
  Emits,       \* the events <<order, kind>> the provider may send
  Lapsing,     \* bound: the orders that may outlive their deadline
  MaxTime,     \* bound: the times of the provider's events, in seconds
  MaxChanges,  \* bound: withdrawals and renewals of the provider's activation
  MaxFaults,   \* bound: transactions that fail, processes that die
  NoOrder, NoEvent

Kind == {"declined", "closed", "completed", "invoice", "twin"}
Settling == {"invoice", "twin"}   \* invoice.paid, invoice.payment_succeeded
Paid == Settling \cup {"completed"}
Event == Order \X Kind

ASSUME Emissions == Emits \subseteq Event /\ Lapsing \subseteq Order
ASSUME Numbers == MaxTime \in Nat \ {0} /\ MaxChanges \in Nat /\ MaxFaults \in Nat
ASSUME NullNames == NoOrder \notin Order /\ NoEvent \notin Event

\* failureCode, as far as the code compares it.
Code == {"none", "uncertain", "revoked", "other"}
OrderStatus == {"none", "PENDING", "PAID", "FAILED", "EXPIRED"}
AttemptStatus ==
  {"CREATED", "CHECKOUT_CREATED", "PENDING", "FAILED", "EXPIRED", "HELD", "SUCCEEDED"}
InboxStatus == {"none", "RECEIVED", "FAILED", "PROJECTED", "IGNORED", "HELD"}

\* lastProviderEventRank.
Rank(status) ==
  CASE status = "PENDING" -> 10 [] status = "EXPIRED" -> 20
    [] status = "FAILED" -> 30 [] OTHER -> 100

VARIABLES
  order,      \* Order.status
  attempt,    \* PaymentAttempt
  invoices,   \* paid invoices, each with the subscription it brought
  inbox,      \* ProviderEventInbox
  work,       \* the work item of an inbox row
  changes,    \* of the payment provider's activation: it is in force when even
  bound,      \* orders whose attempt's activation is the one in force
  overdue,    \* orders past expiresAt
  session,    \* the provider's checkout session, "offered" once the customer has it
  sent,       \* event.created of the provider's events, 0 before
  call,       \* createCheckoutOrder
  hook,       \* the webhook's transaction
  task,       \* projectPaymentInboxEvent
  faults

billingVars == <<order, attempt, invoices>>
inboxVars == <<inbox, work>>
providerVars == <<session, sent>>
worldVars == <<changes, bound, overdue, faults>>
vars == <<billingVars, inboxVars, providerVars, worldVars, call, hook, task>>

Outbound == changes % 2 = 0
Waiting(e) == inbox[e].status \in {"RECEIVED", "FAILED"}

\* SETTLEMENT_AFTER_PROVIDER_REVOKE.
Revoked == [status |-> "HELD", code |-> "revoked"]

NewAttempt == [status |-> "CREATED", code |-> "none", at |-> 0, rank |-> 0]
NoCall == [pc |-> "idle", order |-> NoOrder]
NoHook == [event |-> NoEvent, replay |-> FALSE, outbound |-> FALSE]
NoTask == [pc |-> "idle", event |-> NoEvent, renewal |-> FALSE, verdict |-> "PROJECTED"]

Init ==
  /\ order = [o \in Order |-> "none"]
  /\ attempt = [o \in Order |-> NewAttempt]
  /\ invoices = [o \in Order |-> 0]
  /\ inbox = [e \in Event |-> [status |-> "none", code |-> "none"]]
  /\ work = [e \in Event |-> "none"]
  /\ changes = 0
  /\ bound = {}
  /\ overdue = {}
  /\ session = [o \in Order |-> "none"]
  /\ sent = [e \in Event |-> 0]
  /\ call = [c \in Caller |-> NoCall]
  /\ hook = [h \in Hook |-> NoHook]
  /\ task = [p \in Projector |-> NoTask]
  /\ faults = 0

(***************************************************************************)
(* Checkout.                                                               *)
(***************************************************************************)
\* Whether the attempt may still open or record a session.
Uncertain(o) == attempt[o].status = "HELD" /\ attempt[o].code = "uncertain"
HeldForGood(o) == attempt[o].status = "HELD" /\ attempt[o].code # "uncertain"
Callable(o) == attempt[o].status \in {"CREATED", "CHECKOUT_CREATED"} \/ Uncertain(o)

Hold(o, code) == [attempt EXCEPT ![o].status = "HELD", ![o].code = code]
Offer(o) == session' = [session EXCEPT ![o] = IF @ = "open" THEN "offered" ELSE @]
Goto(c, pc) == call' = [call EXCEPT ![c].pc = pc]
Return(c) == call' = [call EXCEPT ![c] = NoCall]

\* A new order with its attempt; the risk policy may hold it at once.
CreateOrder(c, o) ==
  /\ call[c].pc = "idle" /\ order[o] = "none" /\ Outbound
  /\ order' = [order EXCEPT ![o] = "PENDING"]
  /\ bound' = bound \cup {o}
  /\ \/ UNCHANGED attempt /\ call' = [call EXCEPT ![c] = [pc |-> "prepared", order |-> o]]
     \/ attempt' = Hold(o, "other") /\ UNCHANGED call
  /\ UNCHANGED <<invoices, inboxVars, providerVars, changes, overdue, faults, hook, task>>

\* The same request again.
ReplayOrder(c, o) ==
  /\ call[c].pc = "idle"
  /\ \/ /\ order[o] = "PENDING" /\ o \in overdue
        /\ order' = [order EXCEPT ![o] = "EXPIRED"]
        /\ UNCHANGED call
     \/ /\ order[o] = "PAID" \/ (order[o] = "PENDING" /\ o \notin overdue)
        /\ ~HeldForGood(o)
        /\ call' = [call EXCEPT ![c] = [pc |-> "prepared", order |-> o]]
        /\ UNCHANGED order
  /\ UNCHANGED <<attempt, invoices, inboxVars, providerVars, worldVars, hook, task>>

\* revalidateHostedCheckoutAuthority.
Reserve(c) ==
  /\ call[c].pc = "prepared"
  /\ LET o == call[c].order IN
       IF Callable(o) /\ o \in bound /\ o \notin overdue
         THEN Goto(c, "reserved") ELSE Goto(c, "stale")
  /\ UNCHANGED <<billingVars, inboxVars, providerVars, worldVars, hook, task>>

HoldStaleAuthority(c) ==
  /\ call[c].pc = "stale"
  /\ LET o == call[c].order IN
       IF Callable(o) THEN attempt' = Hold(o, "other") ELSE UNCHANGED attempt
  /\ Return(c)
  /\ UNCHANGED <<order, invoices, inboxVars, providerVars, worldVars, hook, task>>

\* One session per idempotency key; the answer may be lost, and so may the call.
CallProvider(c) ==
  /\ call[c].pc = "reserved"
  /\ LET o == call[c].order IN
       \/ /\ session[o] # "none" \/ o \notin overdue
          /\ session' = [session EXCEPT ![o] = IF @ = "none" THEN "open" ELSE @]
          /\ Goto(c, "answered") \/ Goto(c, "failed")
       \/ UNCHANGED session /\ Goto(c, "failed")
  /\ UNCHANGED <<billingVars, inboxVars, sent, worldVars, hook, task>>

\* Mutant: held without saying why.
HoldUncoded(c) ==
  /\ call[c].pc = "failed"
  /\ LET o == call[c].order IN
       IF attempt[o].status \in {"CREATED", "CHECKOUT_CREATED"}
         THEN attempt' = [attempt EXCEPT ![o].status = "HELD"] ELSE UNCHANGED attempt
  /\ Return(c)
  /\ UNCHANGED <<order, invoices, inboxVars, providerVars, worldVars, hook, task>>

\* recordCheckoutProviderFailure.
RecordFailure(c) ==
  /\ call[c].pc = "failed"
  /\ LET o == call[c].order IN
       IF attempt[o].status \in {"CREATED", "CHECKOUT_CREATED"}
         THEN attempt' = Hold(o, "uncertain") ELSE UNCHANGED attempt
  /\ Return(c)
  /\ UNCHANGED <<order, invoices, inboxVars, providerVars, worldVars, hook, task>>

\* Mutant: a settled attempt is held as well.
RecordSessionOver(c) ==
  /\ call[c].pc = "answered"
  /\ LET o == call[c].order IN
       IF (Callable(o) \/ attempt[o].status = "SUCCEEDED") /\ o \in bound /\ o \notin overdue
         THEN /\ attempt' = IF attempt[o].status = "SUCCEEDED" THEN attempt
                            ELSE [attempt EXCEPT ![o].status = "CHECKOUT_CREATED",
                                                 ![o].code = "none"]
              /\ Offer(o)
              /\ Return(c)
         ELSE /\ attempt' = Hold(o, "other")
              /\ Goto(c, "expiring")
              /\ UNCHANGED session
  /\ UNCHANGED <<order, invoices, inboxVars, sent, worldVars, hook, task>>

\* recordHostedCheckoutSession: only now the customer gets the link.
RecordSession(c) ==
  /\ call[c].pc = "answered"
  /\ LET o == call[c].order IN
       IF (Callable(o) \/ attempt[o].status = "SUCCEEDED") /\ o \in bound /\ o \notin overdue
         THEN /\ attempt' = IF attempt[o].status = "SUCCEEDED" THEN attempt
                            ELSE [attempt EXCEPT ![o].status = "CHECKOUT_CREATED",
                                                 ![o].code = "none"]
              /\ Offer(o)
              /\ Return(c)
         ELSE /\ attempt' = IF attempt[o].status = "SUCCEEDED" THEN attempt ELSE Hold(o, "other")
              /\ Goto(c, "expiring")
              /\ UNCHANGED session
  /\ UNCHANGED <<order, invoices, inboxVars, sent, worldVars, hook, task>>

\* Its transaction is rolled back.
SessionUnrecorded(c) ==
  /\ call[c].pc = "answered"
  /\ Goto(c, "undoing")
  /\ UNCHANGED <<billingVars, inboxVars, providerVars, worldVars, hook, task>>

ExpireSession(c) ==
  /\ call[c].pc \in {"expiring", "undoing"}
  /\ LET o == call[c].order IN
       \/ session' = [session EXCEPT ![o] = IF @ \in {"open", "offered"} THEN "expired" ELSE @]
       \/ UNCHANGED session
  /\ IF call[c].pc = "undoing" THEN Goto(c, "failed") ELSE Return(c)
  /\ UNCHANGED <<billingVars, inboxVars, sent, worldVars, hook, task>>

(***************************************************************************)
(* The payment provider and the world.  A payment is possible until the    *)
(* session expires, after a card was declined as well; the events of one   *)
(* payment carry times of their own.                                       *)
(***************************************************************************)
Payable(o) == session[o] = "offered" /\ o \notin overdue

\* When the next event of an order may have happened.
Times(o) == {t \in 1..MaxTime : \A k \in Kind : sent[<<o, k>>] <= t}

Decline(o) ==
  /\ Payable(o)
  /\ <<o, "declined">> \in Emits /\ sent[<<o, "declined">>] = 0
  /\ \E t \in Times(o) : sent' = [sent EXCEPT ![<<o, "declined">>] = t]
  /\ UNCHANGED <<billingVars, inboxVars, session, worldVars, call, hook, task>>

Pay(o) ==
  /\ Payable(o)
  /\ session' = [session EXCEPT ![o] = "paid"]
  /\ \E at \in [{"completed", "invoice", "twin"} -> Times(o)] :
       sent' = [e \in Event |-> IF e \in Emits /\ e[1] = o /\ e[2] \in DOMAIN at
                                THEN at[e[2]] ELSE sent[e]]
  /\ UNCHANGED <<billingVars, inboxVars, worldVars, call, hook, task>>

\* checkout.session.expired: the session's deadline, or its end by our request.
CloseSession(o) ==
  /\ <<o, "closed">> \in Emits /\ sent[<<o, "closed">>] = 0
  /\ \/ session[o] \in {"open", "offered"} /\ o \in overdue
     \/ session[o] = "expired"
  /\ session' = [session EXCEPT ![o] = "expired"]
  /\ \E t \in Times(o) : sent' = [sent EXCEPT ![<<o, "closed">>] = t]
  /\ UNCHANGED <<billingVars, inboxVars, worldVars, call, hook, task>>

Lapse(o) ==
  /\ o \in Lapsing \ overdue
  /\ order[o] = "PENDING" \/ session[o] \in {"open", "offered"}
  /\ overdue' = overdue \cup {o}
  /\ UNCHANGED <<billingVars, inboxVars, providerVars, changes, bound, faults, call, hook, task>>

\* The provider's activation is withdrawn; a later one is another row.
Withdraw ==
  /\ Outbound /\ changes < MaxChanges
  /\ changes' = changes + 1 /\ bound' = {}
  /\ UNCHANGED <<billingVars, inboxVars, providerVars, overdue, faults, call, hook, task>>

Reactivate ==
  /\ ~Outbound /\ changes < MaxChanges
  /\ changes' = changes + 1
  /\ UNCHANGED <<billingVars, inboxVars, providerVars, bound, overdue, faults, call, hook, task>>

(***************************************************************************)
(* The webhook.                                                            *)
(***************************************************************************)
\* The route reads the activation, its transaction looks the event up.  A
\* repetition of an event that is queued or done changes nothing.
Receive(h, e) ==
  /\ hook[h] = NoHook /\ sent[e] > 0
  /\ inbox[e].status = "none" \/ (Waiting(e) /\ work[e] = "none")
  /\ hook' = [hook EXCEPT ![h] = [event |-> e, replay |-> inbox[e].status # "none",
                                  outbound |-> Outbound]]
  /\ UNCHANGED <<billingVars, inboxVars, providerVars, worldVars, call, task>>

Enqueue(e) == [work EXCEPT ![e] = IF @ = "none" THEN "queued" ELSE @]

Repeat(h) ==
  LET e == hook[h].event IN
  /\ e # NoEvent /\ hook[h].replay
  /\ hook' = [hook EXCEPT ![h] = NoHook]
  /\ \/ Waiting(e) /\ work' = Enqueue(e)
     \/ UNCHANGED work       \* REAL_PAYMENT_PROJECTION is off
  /\ UNCHANGED <<billingVars, inbox, providerVars, worldVars, call, task>>

\* Mutant: the unique key is missing, a second row takes the first one's place.
IngestTwice(h) ==
  LET e == hook[h].event IN
  /\ e # NoEvent /\ ~hook[h].replay
  /\ hook' = [hook EXCEPT ![h] = NoHook]
  /\ inbox' = [inbox EXCEPT ![e].status = "RECEIVED"]
  /\ work' = Enqueue(e)
  /\ UNCHANGED <<billingVars, providerVars, worldVars, call, task>>

\* The unique key refuses the second of two rows and undoes its transaction;
\* the provider repeats the delivery.
Ingest(h) ==
  LET e == hook[h].event
      held == ~hook[h].outbound /\ e[2] \in Paid
  IN
  /\ e # NoEvent /\ ~hook[h].replay
  /\ hook' = [hook EXCEPT ![h] = NoHook]
  /\ IF inbox[e].status # "none" THEN UNCHANGED <<inbox, attempt, work>>
     ELSE IF held
       THEN /\ inbox' = [inbox EXCEPT ![e] = Revoked]
            /\ attempt' = IF attempt[e[1]].status = "SUCCEEDED" THEN attempt
                          ELSE Hold(e[1], "revoked")
            /\ UNCHANGED work
       ELSE /\ inbox' = [inbox EXCEPT ![e].status = "RECEIVED"]
            /\ work' \in {work, Enqueue(e)}
            /\ UNCHANGED attempt
  /\ UNCHANGED <<order, invoices, providerVars, worldVars, call, task>>

\* Mutant: only rows that failed once.
ResumeFailed ==
  /\ Outbound
  /\ work' = [e \in Event |-> IF inbox[e].status = "FAILED" /\ work[e] = "none"
                              THEN "queued" ELSE work[e]]
  /\ UNCHANGED <<billingVars, inbox, providerVars, worldVars, call, hook, task>>

\* resumePaymentInboxProjectionBacklog.
Resume ==
  /\ Outbound
  /\ work' = [e \in Event |-> IF Waiting(e) /\ work[e] = "none" THEN "queued" ELSE work[e]]
  /\ UNCHANGED <<billingVars, inbox, providerVars, worldVars, call, hook, task>>

\* releaseHeldSettlementForProjection.
Release(e) ==
  /\ inbox[e] = Revoked
  /\ attempt[e[1]].status = "HELD" /\ attempt[e[1]].code = "revoked"
  /\ work[e] = "none"
  /\ attempt' = [attempt EXCEPT ![e[1]].status = "PENDING", ![e[1]].code = "none"]
  /\ inbox' = [inbox EXCEPT ![e] = [status |-> "RECEIVED", code |-> "none"]]
  /\ work' = [work EXCEPT ![e] = "queued"]
  /\ UNCHANGED <<order, invoices, providerVars, worldVars, call, hook, task>>

(***************************************************************************)
(* The projection of one event by a worker.                                *)
(***************************************************************************)
\* The handler throws when the provider is not active: the item is paused.
PauseWork(e) ==
  /\ work[e] = "queued" /\ ~Outbound
  /\ work' = [work EXCEPT ![e] = "paused"]
  /\ UNCHANGED <<billingVars, inbox, providerVars, worldVars, call, hook, task>>

\* Rows that are done are answered at once; for an invoice the subscription
\* is looked up outside of any transaction.
Begin(p, e) ==
  /\ task[p].pc = "idle" /\ work[e] = "queued" /\ Outbound /\ Waiting(e)
  /\ task' = [task EXCEPT ![p] = [pc |-> "read", event |-> e, verdict |-> "PROJECTED",
                renewal |-> e[2] \in Settling /\ invoices[e[1]] > 0]]
  /\ UNCHANGED <<billingVars, inboxVars, providerVars, worldVars, call, hook>>

Finish(p) == task' = [task EXCEPT ![p] = NoTask]

\* markInboxInTransaction.
Marked(e, status) ==
  IF ~Waiting(e) THEN inbox
  ELSE [inbox EXCEPT ![e] = [status |-> status,
                             code |-> IF status = "PROJECTED" THEN "none" ELSE "other"]]

\* projectNonSuccessState, for news older than what the attempt knows.
Older(e, target) ==
  LET a == attempt[e[1]] IN
  a.at # 0 /\ (sent[e] < a.at \/ (sent[e] = a.at /\ Rank(target) <= a.rank))

\* Mutant: older news are applied as well.
ProjectAnyNews(p, target) ==
  LET e == task[p].event  o == e[1] IN
  /\ task[p].pc = "read"
  /\ e[2] = IF target = "FAILED" THEN "declined" ELSE "closed"
  /\ IF attempt[o].status = "SUCCEEDED"
       THEN inbox' = Marked(e, "IGNORED") /\ UNCHANGED <<order, attempt>>
       ELSE /\ attempt' = [attempt EXCEPT ![o].status = target, ![o].code = "other",
                                          ![o].at = sent[e], ![o].rank = Rank(target)]
            /\ order' = [order EXCEPT ![o] = IF @ = "PENDING" THEN target ELSE @]
            /\ inbox' = Marked(e, "PROJECTED")
  /\ Finish(p)
  /\ UNCHANGED <<invoices, work, providerVars, worldVars, call, hook>>

\* A declined payment fails the attempt and the open order, an expired session
\* ends them.
ProjectNonSuccess(p, target) ==
  LET e == task[p].event  o == e[1] IN
  /\ task[p].pc = "read"
  /\ e[2] = IF target = "FAILED" THEN "declined" ELSE "closed"
  /\ IF attempt[o].status = "SUCCEEDED" \/ Older(e, target)
       THEN inbox' = Marked(e, "IGNORED") /\ UNCHANGED <<order, attempt>>
       ELSE /\ attempt' = [attempt EXCEPT ![o].status = target, ![o].code = "other",
                                          ![o].at = sent[e], ![o].rank = Rank(target)]
            /\ order' = [order EXCEPT ![o] = IF @ = "PENDING" THEN target ELSE @]
            /\ inbox' = Marked(e, "PROJECTED")
  /\ Finish(p)
  /\ UNCHANGED <<invoices, work, providerVars, worldVars, call, hook>>

\* projectSubscriptionCheckoutBinding: the session is complete, the invoice is
\* still to come.  A session whose amount, price or references are not those of
\* the attempt holds it.
BindCheckout(p) ==
  LET e == task[p].event
      o == e[1]
      advances == attempt[o].at = 0 \/ ~Older(e, "PENDING")
  IN
  /\ task[p].pc = "read" /\ e[2] = "completed"
  /\ \/ /\ inbox' = Marked(e, "HELD")
        /\ attempt' = IF attempt[o].status = "SUCCEEDED" THEN attempt ELSE Hold(o, "other")
     \/ IF HeldForGood(o) THEN inbox' = Marked(e, "HELD") /\ UNCHANGED attempt
        ELSE IF attempt[o].status = "SUCCEEDED" \/ (~advances /\ attempt[o].status # "CREATED")
          THEN inbox' = Marked(e, "IGNORED") /\ UNCHANGED attempt
        ELSE /\ attempt' = [attempt EXCEPT ![o].status = "PENDING", ![o].code = "none",
                  ![o].at = IF advances THEN sent[e] ELSE @,
                  ![o].rank = IF advances THEN Rank("PENDING") ELSE @]
             /\ inbox' = Marked(e, "PROJECTED")
  /\ Finish(p)
  /\ UNCHANGED <<order, invoices, work, providerVars, worldVars, call, hook>>

\* An invoice of a subscription that exists: these facts were recorded with it.
ProjectRenewal(p) ==
  LET e == task[p].event IN
  /\ task[p].pc = "read" /\ e[2] \in Settling /\ task[p].renewal
  /\ inbox' = Marked(e, "IGNORED")
  /\ Finish(p)
  /\ UNCHANGED <<billingVars, work, providerVars, worldVars, call, hook>>

\* projectRealPaymentSuccess, a transaction of its own.
Settleable(o) ==
  /\ order[o] \in {"PENDING", "FAILED", "EXPIRED"}
  /\ attempt[o].status \in {"CREATED", "CHECKOUT_CREATED", "PENDING", "FAILED", "EXPIRED"}

\* The plan of a company that has a subscription already is not fulfilled.
Overlaps == \E o \in Order : invoices[o] > 0

\* Mutant: the settlement's answer is not looked at.
ConcludeBlindly(p, verdict) ==
  task' = [task EXCEPT ![p].pc = "settled", ![p].verdict = "PROJECTED"]

Conclude(p, verdict) ==
  task' = [task EXCEPT ![p].pc = "settled", ![p].verdict = verdict]

\* Mutant: the order's own status is not asked.
SettleAgain(p) ==
  LET e == task[p].event  o == e[1] IN
  /\ task[p].pc = "read" /\ e[2] \in Settling /\ ~task[p].renewal
  /\ order' = [order EXCEPT ![o] = "PAID"]
  /\ attempt' = [attempt EXCEPT ![o] = [status |-> "SUCCEEDED", code |-> "none",
                   at |-> sent[e], rank |-> Rank("SUCCEEDED")]]
  /\ invoices' = [invoices EXCEPT ![o] = @ + 1]
  /\ Conclude(p, "PROJECTED")
  /\ UNCHANGED <<inboxVars, providerVars, worldVars, call, hook>>

\* An event whose facts are not those of order and attempt, or whose time is
\* past the order's deadline, is a conflict; so are an order that cannot be
\* settled and a second subscription.
Settle(p) ==
  LET e == task[p].event  o == e[1] IN
  /\ task[p].pc = "read" /\ e[2] \in Settling /\ ~task[p].renewal
  /\ IF HeldForGood(o)
       THEN /\ attempt' = [attempt EXCEPT ![o].at = sent[e], ![o].rank = Rank("SUCCEEDED")]
            /\ Conclude(p, "HELD")
            /\ UNCHANGED <<order, invoices>>
     ELSE \/ Conclude(p, "HELD") /\ UNCHANGED billingVars
          \/ order[o] = "PAID" /\ Conclude(p, "PROJECTED") /\ UNCHANGED billingVars
          \/ /\ order[o] # "PAID" /\ Settleable(o) /\ ~Overlaps
             /\ order' = [order EXCEPT ![o] = "PAID"]
             /\ attempt' = [attempt EXCEPT ![o] = [status |-> "SUCCEEDED", code |-> "none",
                  at |-> sent[e], rank |-> Rank("SUCCEEDED")]]
             /\ invoices' = [invoices EXCEPT ![o] = @ + 1]
             /\ Conclude(p, "PROJECTED")
  /\ UNCHANGED <<inboxVars, providerVars, worldVars, call, hook>>

\* terminalizeInbox, the second transaction.
Terminalize(p) ==
  /\ task[p].pc = "settled"
  /\ inbox' = Marked(task[p].event, task[p].verdict)
  /\ Finish(p)
  /\ UNCHANGED <<billingVars, work, providerVars, worldVars, call, hook>>

\* A transaction is rolled back, the row is marked for the next attempt.
ProjectionFails(p) ==
  /\ task[p].pc = "read" /\ task[p].event[2] \in Settling
  /\ faults < MaxFaults /\ faults' = faults + 1
  /\ inbox' = IF Waiting(task[p].event)
              THEN [inbox EXCEPT ![task[p].event].status = "FAILED"] ELSE inbox
  /\ Finish(p)
  /\ UNCHANGED <<billingVars, work, providerVars, changes, bound, overdue, call, hook>>

\* A worker, a webhook request or a checkout request is gone.
Die ==
  /\ faults < MaxFaults /\ faults' = faults + 1
  /\ \/ \E p \in Projector : task[p].pc # "idle" /\ Finish(p) /\ UNCHANGED <<call, hook>>
     \/ \E c \in Caller : call[c].pc # "idle" /\ Return(c) /\ UNCHANGED <<hook, task>>
     \/ \E h \in Hook : /\ hook[h] # NoHook
                        /\ hook' = [hook EXCEPT ![h] = NoHook]
                        /\ UNCHANGED <<call, task>>
  /\ UNCHANGED <<billingVars, inboxVars, providerVars, changes, bound, overdue>>

-----------------------------------------------------------------------------
Checkout(c) ==
  \/ \E o \in Order : CreateOrder(c, o) \/ ReplayOrder(c, o)
  \/ Reserve(c) \/ HoldStaleAuthority(c) \/ CallProvider(c) \/ RecordFailure(c)
  \/ RecordSession(c) \/ SessionUnrecorded(c) \/ ExpireSession(c)

Project(p) ==
  \/ \E e \in Emits : Begin(p, e)
  \/ \E target \in {"FAILED", "EXPIRED"} : ProjectNonSuccess(p, target)
  \/ BindCheckout(p) \/ ProjectRenewal(p) \/ Settle(p) \/ Terminalize(p)

Next ==
  \/ \E c \in Caller : Checkout(c)
  \/ \E o \in Order : Decline(o) \/ Pay(o) \/ CloseSession(o) \/ Lapse(o)
  \/ Withdraw \/ Reactivate \/ Resume \/ Die
  \/ \E h \in Hook : (\E e \in Emits : Receive(h, e)) \/ Repeat(h) \/ Ingest(h)
  \/ \E e \in Emits : Release(e) \/ PauseWork(e)
  \/ \E p \in Projector : Project(p) \/ ProjectionFails(p)

Spec == Init /\ [][Next]_vars

\* The provider repeats an event until it is acknowledged, the scheduler goes
\* round, workers go on.
FairSpec ==
  /\ Spec
  /\ WF_vars(Resume)
  /\ WF_vars(\E e \in Emits, h \in Hook : inbox[e].status = "none" /\ Receive(h, e))
  /\ WF_vars(\E h \in Hook : Repeat(h) \/ Ingest(h))
  /\ WF_vars(\E p \in Projector : Project(p))


-----------------------------------------------------------------------------
\* Types, and the CHECK constraints on codes and on the event cursor.
TypeOK ==
  /\ order \in [Order -> OrderStatus]
  /\ attempt \in [Order -> [status: AttemptStatus, code: Code, at: 0..MaxTime,
                            rank: {0, 10, 20, 30, 100}]]
  /\ \A o \in Order :
       /\ attempt[o].status \in {"FAILED", "HELD"} => attempt[o].code # "none"
       /\ attempt[o].at = 0 <=> attempt[o].rank = 0
  /\ invoices \in [Order -> 0..1]
  /\ inbox \in [Event -> [status: InboxStatus, code: {"none", "revoked", "other"}]]
  /\ work \in [Event -> {"none", "queued", "paused"}]
  /\ changes \in 0..MaxChanges /\ bound \subseteq Order /\ overdue \subseteq Order
  /\ session \in [Order -> {"none", "open", "offered", "paid", "expired"}]
  /\ sent \in [Event -> 0..MaxTime]
  /\ call \in [Caller -> [pc: {"idle", "prepared", "reserved", "stale", "answered",
                               "failed", "expiring", "undoing"}, order: Order \cup {NoOrder}]]
  /\ hook \in [Hook -> [event: Event \cup {NoEvent}, replay: BOOLEAN, outbound: BOOLEAN]]
  /\ task \in [Projector -> [pc: {"idle", "read", "settled"}, event: Event \cup {NoEvent},
                             renewal: BOOLEAN, verdict: {"PROJECTED", "HELD"}]]
  /\ faults \in 0..MaxFaults

\* Order, attempt and invoice are settled together and for good, whatever
\* checkout, webhook and projections write to the attempt afterwards.
SettledTogether ==
  \A o \in Order : /\ order[o] = "PAID" <=> attempt[o].status = "SUCCEEDED"
                   /\ order[o] = "PAID" <=> invoices[o] = 1

\* A payment event is set aside as projected or superseded only when its money
\* is accounted for, though settlement and inbox are two transactions.
ProjectedIsPaid ==
  \A e \in Emits : e[2] \in Settling /\ inbox[e].status \in {"PROJECTED", "IGNORED"}
                     => order[e[1]] = "PAID"

\* In whatever order they are projected, the newest news wins: an attempt that
\* failed or expired knows of nothing newer.
LateNewsLoses ==
  \A e \in Emits :
    /\ inbox[e].status = "PROJECTED" /\ attempt[e[1]].status \in {"FAILED", "EXPIRED"}
    => sent[e] <= attempt[e[1]].at

\* An inbox row that is done stays done, but for a settlement an operator releases.
DoneStays ==
  [][\A e \in Emits :
       inbox[e].status \in {"PROJECTED", "IGNORED", "HELD"} /\ inbox'[e] # inbox[e]
         => inbox[e] = Revoked /\ work[e] = "none"]_vars

\* With a provider in force a payment ends as a paid order or before an operator.
PaymentsSurface ==
  []Outbound => \A o \in Order :
    (session[o] = "paid" /\ <<o, "invoice">> \in Emits)
      ~> (order[o] = "PAID" \/ inbox[<<o, "invoice">>].status = "HELD")

\* Checkout and inbox together implement Purchase.
P == INSTANCE Purchase WITH charged <- {o \in Order : session[o] = "paid"},
                            fulfilled <- invoices
PurchaseSpec == P!Spec

\* Money that was set aside because the provider was revoked can be released
\* until its order is paid (src/lib/billing/payment-inbox.ts:347-353).
HeldMoneyReleasable ==
  \A o \in Order :
    (\E kind \in Settling : inbox[<<o, kind>>] = Revoked)
      => \/ order[o] = "PAID"
         \/ attempt[o].status = "HELD" /\ attempt[o].code = "revoked"
         \/ \E kind \in Settling : Waiting(<<o, kind>>)

\* A confirmed payment of an attempt whose checkout call was uncertain is
\* projected from its signed event (src/codex-plan/runbooks/payment-operations.md:91-92).
UncertainPaymentProjects ==
  \A e \in Emits : e[2] \in Settling /\ inbox[e].status = "HELD" => ~Uncertain(e[1])
=============================================================================
