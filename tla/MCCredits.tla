----------------------------- MODULE MCCredits -----------------------------
(* Instances of Credits for TLC. *)
EXTENDS Credits

\* Two grants that end together; the one to be used first has the second account.
TwoGrants ==
  << [size |-> 1, from |-> 0, to |-> 1, rank |-> 2],
     [size |-> 1, from |-> 0, to |-> 1, rank |-> 1] >>

\* One operation that a single grant can pay, one that needs both.
TwoOperations == [contact |-> 1, bulk |-> 2]
=============================================================================
