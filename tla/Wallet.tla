------------------------------- MODULE Wallet -------------------------------
(***************************************************************************)
(* What the credit ledger promises a company, whoever asks at the same     *)
(* time and however often: an operation is paid in one step, once and in   *)
(* full, out of grants that were made and can afford it, and what it paid  *)
(* from a grant comes back at most once and entirely.                      *)
(***************************************************************************)
EXTENDS Integers, Functions

CONSTANTS
  Grant,
  Op,
  Size,     \* of each grant
  Amount    \* what each operation costs

VARIABLES
  made,     \* the grants the company has
  charged,  \* the operations it was charged for
  paid,     \* what each operation paid from each grant and did not get back
  spent     \* of each grant

Init ==
  /\ made = {} /\ charged = {}
  /\ paid = [o \in Op |-> [g \in Grant |-> 0]]
  /\ spent = [g \in Grant |-> 0]

Make(g) ==
  /\ g \notin made
  /\ made' = made \cup {g}
  /\ UNCHANGED <<charged, paid, spent>>

Charge(o) ==
  /\ o \notin charged
  /\ charged' = charged \cup {o}
  /\ \E share \in [Grant -> 0..Amount[o]] :
       /\ SumFunction(share) = Amount[o]
       /\ \A g \in Grant : share[g] > 0 => g \in made /\ spent[g] + share[g] <= Size[g]
       /\ paid' = [paid EXCEPT ![o] = share]
       /\ spent' = [g \in Grant |-> spent[g] + share[g]]
  /\ UNCHANGED made

GiveBack(o, g) ==
  /\ paid[o][g] > 0
  /\ paid' = [paid EXCEPT ![o][g] = 0]
  /\ spent' = [spent EXCEPT ![g] = spent[g] - paid[o][g]]
  /\ UNCHANGED <<made, charged>>

Next ==
  \/ \E g \in Grant : Make(g)
  \/ \E o \in Op : Charge(o) \/ \E g \in Grant : GiveBack(o, g)

Spec == Init /\ [][Next]_<<made, charged, paid, spent>>
=============================================================================
