--------------------------------- MODULE MCPaid ---------------------------------
(* Both paid providers for TLC: two runs that buy ZoomInfo contacts for two *)
(* leads, and two workers that look up contacts on the metered web provider.*)
(* The two ledgers share no row, so a behaviour is in one scene, chosen at  *)
(* the start, and the state spaces add up instead of multiplying.           *)
EXTENDS PaidPull, PaidLookups, TLC

CONSTANTS l1, l2

VARIABLE scene

MCCost == [l \in Lead |-> IF l = l1 THEN 1 ELSE 2]
MCMonthOf == <<1, 2>>

PaidInit ==
    /\ Init /\ LookupsInit
    /\ scene \in {"pull", "lookup"}

PaidNext ==
    /\ UNCHANGED scene
    /\ \/ /\ scene = "pull" /\ Next
          /\ UNCHANGED lookupsVars
       \/ /\ scene = "lookup" /\ LookupsNext
          /\ UNCHANGED vars

PaidSpec == PaidInit /\ [][PaidNext]_<<vars, lookupsVars, scene>>

\* The callers of one scene are the workers of the other.
Symmetry == Permutations(Worker) \cup Permutations(Target)
================================================================================
