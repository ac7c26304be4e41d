---------------------------- MODULE MCProactiveDay ----------------------------
(* Two workers, two leads on lists of one, and two members. *)
EXTENDS ProactiveDay, TLC

CONSTANTS w1, w2, l1, l2, m1, m2

Symmetry == Permutations(Worker) \cup Permutations(Lead)
MCRank == (m1 :> 1) @@ (m2 :> 2)
================================================================================
