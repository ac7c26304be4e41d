----------------------------- MODULE MCCrmActions -----------------------------
(* Approved Salesforce writes for TLC: one action of members, or two of     *)
(* another kind.                                                            *)
EXTENDS CrmActions, TLC

CONSTANTS a1, a2

MCKinds == {[a \in Action |-> IF a = a1 THEN "members" ELSE "unused"],
            [a \in Action |-> "campaign"],
            [a \in Action |-> "contact"]}

MCContact == {[a \in Action |-> IF a = a1 THEN "contact" ELSE "unused"]}

Symmetry == Permutations(Lead) \cup Permutations(Handler)
================================================================================
