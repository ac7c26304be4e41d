------------------------------- MODULE MCNudges -------------------------------
(* Two workers, one card, one ask and one preview of the same rep. *)
EXTENDS Nudges, TLC

CONSTANTS c1, a1, p1, r1, m, room, dm, w1, w2

Symmetry == Permutations(Worker)
MCOwner == (c1 :> r1) @@ (a1 :> r1) @@ (p1 :> r1)
MCPlace == (c1 :> room) @@ (a1 :> room) @@ (p1 :> dm)
================================================================================
