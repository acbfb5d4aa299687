---------------------------- MODULE MCWorkQueue ----------------------------
(* Instances of WorkQueue for TLC. *)
EXTENDS WorkQueue, TLC

\* Nothing tells work items apart.
ItemsAlike == Permutations(Item)
=============================================================================
