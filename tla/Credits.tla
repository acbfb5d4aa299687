------------------------------ MODULE Credits ------------------------------
(***************************************************************************)
(* The credit ledger of one company and one kind of credit                 *)
(* (src/lib/billing/credits.ts).  A grant is the first entry of its        *)
(* account; consumption, reversal and expiry append entries with a sign,   *)
(* and what is left of a grant is a sum of them.  A consumption is a        *)
(* serializable transaction: it reads a snapshot taken when it begins, and *)
(* PostgreSQL rejects one that another consumption overtook.  A reversal   *)
(* reads the consumption and no balance, so it is rejected only by another *)
(* reversal of it.  Expiry is read committed: it sees what is committed    *)
(* when it has the account's lock, and its entries reject nobody.          *)
(*                                                                         *)
(* The locks of an account are held until the transaction ends, so what    *)
(* happens under them is one step.  A grant has an account of its own here *)
(* (one per source and period); and an entry carries the sums up to it,    *)
(* which the code forms anew from the rows it sees.                        *)
(***************************************************************************)
EXTENDS Integers, Sequences, FiniteSets, Functions

CONSTANTS
  Terms,        \* of the grants: size, from, to, and rank in compareGrants
  Amount,       \* how many credits an operation, named by its key, asks for
  NoOp,
  Caller,       \* requests that consume at the same time
  Reverser,     \* requests that take a consumption back
  Sweeper,      \* the worker's handler, an administrator's request
  MaxTime,      \* bound: the clock
  MaxAttempts,  \* MAX_SERIALIZABLE_ATTEMPTS
  MaxRequests,  \* bound: requests that consume
  MaxFaults     \* bound: sweeps that die

\* Grants are numbered as the ids of their accounts are ordered.
Grant == DOMAIN Terms
Op == DOMAIN Amount

ASSUME TermsSound ==
  /\ Terms \in Seq([size : Nat \ {0}, from : Nat, to : Nat, rank : Nat])
  /\ \A g \in Grant : Terms[g].from < Terms[g].to
  /\ \A g, h \in Grant : Terms[g].rank = Terms[h].rank => g = h
ASSUME AmountsSound == Amount \in [Op -> Nat \ {0}] /\ NoOp \notin Op
ASSUME Bounds == {MaxTime, MaxRequests, MaxFaults} \subseteq Nat /\ MaxAttempts \in Nat \ {0}

VARIABLES
  clock,
  ledger,  \* the entries of each grant's account, in the order they commit
  call,    \* consumeCompanyCredits and its siblings
  undo,    \* reverseCreditConsume
  sweep,   \* projectCreditExpiries
  requests, faults

vars == <<clock, ledger, call, undo, sweep, requests, faults>>

Idle == [pc |-> "idle", op |-> NoOp, now |-> 0, attempt |-> 0, snap |-> [g \in Grant |-> 0]]
NoUndo == [pc |-> "idle", grant |-> 0, entry |-> 0, now |-> 0]
NoSweep == [now |-> 0, todo |-> {}]

Init ==
  /\ clock = 0
  /\ ledger = [g \in Grant |-> <<>>]
  /\ call = [c \in Caller |-> Idle]
  /\ undo = [r \in Reverser |-> NoUndo]
  /\ sweep = [x \in Sweeper |-> NoSweep]
  /\ requests = 0 /\ faults = 0

Committed(g) == Len(ledger[g])
Is(g, i, kind) == ledger[g][i].kind = kind

\* What the first n entries leave of a grant, and what consumptions among them
\* took and reversals did not give back.
Left(g, n) == IF n = 0 THEN 0 ELSE ledger[g][n].left
Spent(g, n) == IF n = 0 THEN 0 ELSE ledger[g][n].spent

\* Mutant: what is left is formed without the expiries.
EntryBesideExpiries(g, kind, amount, op, of) ==
  [kind |-> kind, amount |-> amount, op |-> op, of |-> of,
   left |-> Left(g, Committed(g)) + (IF kind = "EXPIRE" THEN 0 ELSE amount),
   spent |-> IF kind \in {"CONSUME", "REVERSAL"} THEN Spent(g, Committed(g)) - amount
             ELSE Spent(g, Committed(g))]

Entry(g, kind, amount, op, of) ==
  [kind |-> kind, amount |-> amount, op |-> op, of |-> of,
   left |-> Left(g, Committed(g)) + amount,
   spent |-> IF kind \in {"CONSUME", "REVERSAL"} THEN Spent(g, Committed(g)) - amount
             ELSE Spent(g, Committed(g))]

Write(g, e) == ledger' = [ledger EXCEPT ![g] = Append(ledger[g], e)]
InForce(g, now) == Terms[g].from <= now /\ now < Terms[g].to

Tick ==
  /\ clock < MaxTime
  /\ clock' = clock + 1
  /\ UNCHANGED <<ledger, call, undo, sweep, requests, faults>>

\* Mutant: a grant's key is not looked up.
IssueAgain(g) ==
  /\ InForce(g, clock) /\ Committed(g) < 2
  /\ Write(g, Entry(g, "GRANT", Terms[g].size, NoOp, 0))
  /\ UNCHANGED <<clock, call, undo, sweep, requests, faults>>

\* A settled order, a renewed subscription or an administrator grants credits.
Issue(g) ==
  /\ ledger[g] = <<>> /\ InForce(g, clock)
  /\ Write(g, Entry(g, "GRANT", Terms[g].size, NoOp, 0))
  /\ UNCHANGED <<clock, call, undo, sweep, requests, faults>>

(***************************************************************************)
(* Consumption.                                                            *)
(***************************************************************************)
\* The time is read once, before the first transaction.
Ask(c, o) ==
  /\ call[c].pc = "idle" /\ requests < MaxRequests
  /\ requests' = requests + 1
  /\ call' = [call EXCEPT ![c] = [Idle EXCEPT !.pc = "asked", !.op = o, !.now = clock]]
  /\ UNCHANGED <<clock, ledger, undo, sweep, faults>>

\* The first statement of a transaction fixes its snapshot.
Open(c) ==
  /\ call[c].pc = "asked"
  /\ call' = [call EXCEPT ![c].pc = "open", ![c].snap = [g \in Grant |-> Committed(g)]]
  /\ UNCHANGED <<clock, ledger, undo, sweep, requests, faults>>

\* loadLockedAvailableGrants, and allocateCreditConsumptionV1 over them: grants
\* are used up one after the other, in the order of their rank; of a grant, as
\* many credits are taken as those before it leave open.
Available(c) == {g \in Grant : call[c].snap[g] > 0 /\ InForce(g, call[c].now)}
Offers(c, g) == Left(g, call[c].snap[g])
OfferedBy(c, S) == SumFunction([g \in S |-> Offers(c, g)])

\* Mutant: what the grants before it offer is not counted.
ShareAlone(c, g) == Cardinality({n \in 1..Offers(c, g) : n <= Amount[call[c].op]})

Share(c, g) ==
  LET before == {h \in Available(c) : Terms[h].rank < Terms[g].rank}
  IN  Cardinality({n \in 1..Offers(c, g) : n <= Amount[call[c].op] - OfferedBy(c, before)})
Sources(c) == {g \in Available(c) : Share(c, g) > 0}
Sufficient(c) ==
  /\ \A g \in Available(c) : Offers(c, g) >= 0
  /\ OfferedBy(c, Available(c)) >= Amount[call[c].op]

\* loadReplay.
Charged(c) == \E g \in Grant : \E i \in 1..call[c].snap[g] : ledger[g][i].op = call[c].op

\* Mutants: the consumption is not serializable; its key is not unique.
OvertakenByKey(c) ==
  \E g \in Grant : \E i \in (call[c].snap[g] + 1)..Committed(g) : ledger[g][i].op = call[c].op
OvertakenInBalance(c) ==
  \E g \in Sources(c) : \E i \in (call[c].snap[g] + 1)..Committed(g) : Is(g, i, "CONSUME")

\* Two serializable consumptions from one account have each read the other's
\* absence in its balance, and two of one operation in its key: the database
\* rejects the second.  A reversal reads no balance, so it can commit between a
\* consumption's snapshot and its end, and so can an expiry.
Overtaken(c) ==
  \E g \in Grant : \E i \in (call[c].snap[g] + 1)..Committed(g) :
    \/ g \in Sources(c) /\ Is(g, i, "CONSUME")
    \/ ledger[g][i].op = call[c].op

Consume(c) ==
  /\ call[c].pc = "open"
  /\ ~Charged(c) /\ Sufficient(c) /\ ~Overtaken(c)
  /\ ledger' = [g \in Grant |->
       IF g \in Sources(c)
       THEN Append(ledger[g], Entry(g, "CONSUME", -Share(c, g), call[c].op, 0))
       ELSE ledger[g]]
  /\ call' = [call EXCEPT ![c] = Idle]
  /\ UNCHANGED <<clock, undo, sweep, requests, faults>>

\* The database rejects the transaction, which begins anew with the time of the call.
Again(c) ==
  /\ call[c].pc = "open" /\ call[c].attempt + 1 < MaxAttempts
  /\ call' = [call EXCEPT ![c] = [call[c] EXCEPT !.pc = "asked", !.snap = Idle.snap,
                                                 !.attempt = call[c].attempt + 1]]
  /\ UNCHANGED <<clock, ledger, undo, sweep, requests, faults>>

\* A replay, a refusal, a last rejection, or the end of the process.
Return(c) ==
  /\ call[c].pc # "idle"
  /\ call' = [call EXCEPT ![c] = Idle]
  /\ UNCHANGED <<clock, ledger, undo, sweep, requests, faults>>

(***************************************************************************)
(* Reversal, by an administrator or as the remedy of a failed service.     *)
(***************************************************************************)
AskReversal(r, g, i) ==
  /\ undo[r].pc = "idle" /\ Is(g, i, "CONSUME")
  /\ undo' = [undo EXCEPT ![r] =
       [pc |-> "asked", grant |-> g, entry |-> i, now |-> clock]]
  /\ UNCHANGED <<clock, ledger, call, sweep, requests, faults>>

Reversed(g, i, n) == \E j \in 1..n : Is(g, j, "REVERSAL") /\ ledger[g][j].of = i

\* The reversal of an entry is unique, whatever the snapshot shows.
TakeBack(r) ==
  LET g == undo[r].grant
      i == undo[r].entry
  IN  /\ undo[r].pc = "asked" /\ InForce(g, undo[r].now)
      /\ ~Reversed(g, i, Committed(g))
      /\ Write(g, Entry(g, "REVERSAL", -ledger[g][i].amount, NoOp, i))
      /\ undo' = [undo EXCEPT ![r] = NoUndo]
      /\ UNCHANGED <<clock, call, sweep, requests, faults>>

\* Reversed before, out of force, rejected, or the end of the process.
ReturnReversal(r) ==
  /\ undo[r].pc # "idle"
  /\ undo' = [undo EXCEPT ![r] = NoUndo]
  /\ UNCHANGED <<clock, ledger, call, sweep, requests, faults>>

(***************************************************************************)
(* Expiry: one transaction for each account that has a grant past its end. *)
(***************************************************************************)
Due(now) == {g \in Grant : ledger[g] # <<>> /\ Terms[g].to <= now}
Expired(g) == \E i \in 1..Committed(g) : Is(g, i, "EXPIRE")

Begin(x) ==
  /\ sweep[x].todo = {} /\ Due(clock) # {}
  /\ sweep' = [sweep EXCEPT ![x] = [now |-> clock, todo |-> Due(clock)]]
  /\ UNCHANGED <<clock, ledger, call, undo, requests, faults>>

Current(x, g) == g \in sweep[x].todo /\ \A h \in sweep[x].todo : g <= h
Goto(x, todo) ==
  sweep' = [sweep EXCEPT ![x] = IF todo = {} THEN NoSweep
                                ELSE [now |-> sweep[x].now, todo |-> todo]]

\* Mutant: a grant of which nothing is left is not passed over.
ExpireUnspent(x) ==
  /\ \E g \in Grant :
       /\ Current(x, g)
       /\ Goto(x, sweep[x].todo \ {g})
       /\ LET rest == Left(g, Committed(g)) IN
          rest > 0 /\ ~Expired(g) /\ Write(g, Entry(g, "EXPIRE", -rest, NoOp, 0))
  /\ UNCHANGED <<clock, call, undo, requests, faults>>

\* What is left of the grant is written off.
Expire(x) ==
  /\ \E g \in Grant :
       /\ Current(x, g)
       /\ Goto(x, sweep[x].todo \ {g})
       /\ LET rest == Left(g, Committed(g)) IN
          \/ rest > 0 /\ ~Expired(g) /\ Write(g, Entry(g, "EXPIRE", -rest, NoOp, 0))
          \/ rest = 0 /\ UNCHANGED ledger
  /\ UNCHANGED <<clock, call, undo, requests, faults>>

\* allocateCreditExpiriesV1 rejects an overdrawn grant, and the key of the
\* expiry a second one: the error ends the sweep.
Stumble(x) ==
  /\ \E g \in Grant :
       /\ Current(x, g)
       /\ LET rest == Left(g, Committed(g)) IN rest < 0 \/ (rest > 0 /\ Expired(g))
  /\ Goto(x, {})
  /\ UNCHANGED <<clock, ledger, call, undo, requests, faults>>

Die(x) ==
  /\ sweep[x].todo # {} /\ faults < MaxFaults
  /\ Goto(x, {})
  /\ faults' = faults + 1
  /\ UNCHANGED <<clock, ledger, call, undo, requests>>

Sweeping(x) == Begin(x) \/ Expire(x) \/ Stumble(x)

Next ==
  \/ Tick
  \/ \E g \in Grant : Issue(g)
  \/ \E c \in Caller :
       \/ \E o \in Op : Ask(c, o)
       \/ Open(c) \/ Consume(c) \/ Again(c) \/ Return(c)
  \/ \E r \in Reverser :
       \/ \E g \in Grant : \E i \in 1..Committed(g) : AskReversal(r, g, i)
       \/ TakeBack(r) \/ ReturnReversal(r)
  \/ \E x \in Sweeper : Sweeping(x) \/ Die(x)

\* The scheduler asks for a sweep again and again, and the worker runs it.
Spec == Init /\ [][Next]_vars /\ \A x \in Sweeper : WF_vars(Sweeping(x))

(***************************************************************************)
(* Properties.                                                             *)
(***************************************************************************)
Kind == {"GRANT", "CONSUME", "REVERSAL", "EXPIRE"}
Stages == {"idle", "asked", "open"}

Entries == [kind : Kind, amount : Int, op : Op \cup {NoOp}, of : Nat, left : Int, spent : Int]
Calls == [pc : Stages, op : Op \cup {NoOp}, now : 0..MaxTime, attempt : 0..MaxAttempts,
          snap : [Grant -> Nat]]
Undoings == [pc : {"idle", "asked"}, grant : Nat, entry : Nat, now : 0..MaxTime]
Sweeps == [now : 0..MaxTime, todo : SUBSET Grant]

\* Types, and the grant as the one entry every other entry of its account follows.
TypeOK ==
  /\ clock \in 0..MaxTime /\ requests \in 0..MaxRequests /\ faults \in 0..MaxFaults
  /\ ledger \in [Grant -> Seq(Entries)]
  /\ \A g \in Grant : \A i \in 1..Committed(g) : Is(g, i, "GRANT") <=> i = 1
  /\ call \in [Caller -> Calls]
  /\ undo \in [Reverser -> Undoings]
  /\ sweep \in [Sweeper -> Sweeps]

\* What consumptions took from a grant and reversals did not give back never
\* exceeds the grant, although each of them sums up a snapshot: requests that
\* meet on one account do not spend a credit twice.  And a consumption is given
\* back once, in full.
SpentWithinGrant ==
  \A g \in Grant :
    /\ \A i \in 1..Committed(g) : ledger[g][i].spent <= Terms[g].size
    /\ \A i, j \in 1..Committed(g) :
         Is(g, i, "REVERSAL") =>
           /\ Is(g, ledger[g][i].of, "CONSUME")
           /\ ledger[g][i].amount = -ledger[g][ledger[g][i].of].amount
           /\ Is(g, j, "REVERSAL") /\ ledger[g][i].of = ledger[g][j].of => i = j

\* The entries of a grant's account that charge an operation, and their sum.
Charges(o, g) == {i \in 1..Committed(g) : ledger[g][i].op = o}
TakenBy(o, g) == SumFunction([i \in Charges(o, g) |-> ledger[g][i].amount])

\* An operation is charged in full or not at all, and once, however often its
\* request is repeated after a lost answer, at once or later, and from however
\* many grants it is paid.
ChargedOnce == \A o \in Op : SumFunction([g \in Grant |-> TakenBy(o, g)]) \in {0, -Amount[o]}

\* What an operation paid from a grant and did not get back.
PaidBy(o, g) ==
  LET kept == {i \in Charges(o, g) : ~Reversed(g, i, Committed(g))}
  IN  -SumFunction([i \in kept |-> ledger[g][i].amount])

\* The ledger implements Wallet: although each request decides on a snapshot that
\* may be old when it commits, its consumption is one payment in full out of
\* what the grants still have, and each payment comes back once at most.
W == INSTANCE Wallet WITH
       Size <- [g \in Grant |-> Terms[g].size],
       made <- {g \in Grant : ledger[g] # <<>>},
       charged <- {o \in Op : \E g \in Grant : Charges(o, g) # {}},
       paid <- [o \in Op |-> [g \in Grant |-> PaidBy(o, g)]],
       spent <- [g \in Grant |-> Spent(g, Committed(g))]
WalletSpec == W!Spec

\* Whether entry i of a grant comes after its expiry.
Late(g, i) == \E j \in 1..(i - 1) : Is(g, j, "EXPIRE")

\* Once a grant has been written off, a consumption that has seen it spends
\* nothing of it, unless a reversal has put something back since: only a
\* transaction that began before the expiry can overdraw the grant.
WrittenOffIsSpent ==
  [][\A c \in Caller, g \in Grant :
       LET seen == 1..call[c].snap[g]
           taken == /\ call[c].pc = "open" /\ call'[c].pc = "idle"
                    /\ ledger'[g] # ledger[g]
       IN  taken /\ (\E i \in seen : Is(g, i, "EXPIRE"))
             => \E i \in seen : Is(g, i, "REVERSAL") /\ Late(g, i)]_vars

\* A late entry, of a transaction that read the clock before the grant ended
\* and committed after its expiry.
Disturbed(g) == \E i \in 1..Committed(g) : Late(g, i)

\* Every grant past its end is spent or written off at last, although a sweep
\* may die, unless it or an account before it has a late entry: at that account
\* every sweep stumbles, and those after it keep their balance.
DueGrantsClose ==
  \A g \in Grant :
    g \in Due(clock) ~> (Left(g, Committed(g)) = 0 \/ \E h \in 1..g : Disturbed(h))
=============================================================================
