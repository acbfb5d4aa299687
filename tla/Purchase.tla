------------------------------ MODULE Purchase ------------------------------
(***************************************************************************)
(* What checkout and payment inbox promise a company together, however     *)
(* often the provider repeats itself and in whatever order: an order is    *)
(* fulfilled only when it was paid for, once, never taken back, and the    *)
(* company never ends up with two subscriptions.                           *)
(***************************************************************************)
EXTENDS Naturals

CONSTANT Order

VARIABLES
  charged,    \* orders the customer paid for
  fulfilled   \* how often each order was invoiced and its plan granted

Init ==
  /\ charged = {}
  /\ fulfilled = [o \in Order |-> 0]

Charge(o) ==
  /\ charged' = charged \cup {o}
  /\ UNCHANGED fulfilled

Fulfil(o) ==
  /\ o \in charged
  /\ \A other \in Order : fulfilled[other] = 0
  /\ fulfilled' = [fulfilled EXCEPT ![o] = 1]
  /\ UNCHANGED charged

Next == \E o \in Order : Charge(o) \/ Fulfil(o)

Spec == Init /\ [][Next]_<<charged, fulfilled>>
=============================================================================
