------------------------------- MODULE Mailing -------------------------------
(***************************************************************************)
(* What the notification outbox promises of each notification, whoever     *)
(* delivers it and however often delivering it is tried: at most one mail  *)
(* leaves the provider, nothing is reported as delivered that did not      *)
(* leave, and a terminal status is final.                                  *)
(***************************************************************************)
EXTENDS Naturals

CONSTANT Note

VARIABLES
  outcome,  \* how the notification ended, if it did
  mails     \* the number of mails the provider made of it

Outcomes == {"open", "held", "delivered", "suppressed", "dead"}
Final == {"delivered", "suppressed", "dead"}

Init ==
  /\ outcome = [n \in Note |-> "open"]
  /\ mails = [n \in Note |-> 0]

\* The provider accepts a request.  It may do so late: after the dispatcher
\* gave the request up, and even after the notification has been closed.
Leave(n) ==
  /\ mails[n] = 0
  /\ mails' = [mails EXCEPT ![n] = 1]
  /\ UNCHANGED outcome

\* A notification that is not closed moves on.
Settle(n, o) ==
  /\ outcome[n] \notin Final
  /\ o = "delivered" => mails[n] = 1
  /\ outcome' = [outcome EXCEPT ![n] = o]
  /\ UNCHANGED mails

\* The privacy sweep holds or closes any set of notifications at once, and a
\* batch that begins takes up others with it.
Sweep(S) ==
  /\ \A n \in S : outcome[n] \notin Final
  /\ \E to \in [S -> {"open", "held", "suppressed"}] :
       outcome' = [n \in Note |-> IF n \in S THEN to[n] ELSE outcome[n]]
  /\ UNCHANGED mails

Next ==
  \/ \E n \in Note : Leave(n) \/ \E o \in Outcomes : Settle(n, o)
  \/ \E S \in SUBSET Note : Sweep(S)

Spec == Init /\ [][Next]_<<outcome, mails>>
=============================================================================
