---------------------------- MODULE MCCardDelivery ----------------------------
(* CardDelivery for TLC: leads l1 and l2, one or two ticks at a time.      *)
EXTENDS CardDelivery, TLC

CONSTANTS l1, l2

Symmetry == Permutations(Tick) \cup Permutations(Lead)
================================================================================
