-------------------------------- MODULE MCDesk --------------------------------
(* What one rep's words set off, side by side for TLC: a draft request, the *)
(* turns of a thread, claims, memories, and the leads all of them are about.*)
(* The five share no row of the database, so a behaviour is in one scene,   *)
(* chosen at the start, and the state spaces add up instead of multiplying. *)
EXTENDS Outreach, Turns, Claims, Memory, LeadIngest, TLC

VARIABLE scene

MCFact == {"Texas", "California", "Louisiana"}
MCKindOf == [f \in MCFact |-> "territory"]
MCCorrects == {<<"California", "Texas">>, <<"Texas", "California">>}

MCUrlOf == [r \in Record |-> "portal"]
MCOrgOf == [r \in Record |-> IF r = "camera bid" THEN "city" ELSE "county"]
MCFormula == <<"prefix", "title">>
MCPayload == <<"published", "amended">>

DeskInit ==
    /\ Init /\ TurnsInit /\ ClaimsInit /\ MemoryInit /\ IngestInit
    /\ scene \in {"draft", "turns", "claims", "memory", "leads"}

DeskNext ==
    /\ UNCHANGED scene
    /\ \/ /\ scene = "draft" /\ Next
          /\ UNCHANGED <<turnsVars, claimsVars, memoryVars, ingestVars>>
       \/ /\ scene = "turns" /\ TurnsNext
          /\ UNCHANGED <<vars, claimsVars, memoryVars, ingestVars>>
       \/ /\ scene = "claims" /\ ClaimsNext
          /\ UNCHANGED <<vars, turnsVars, memoryVars, ingestVars>>
       \/ /\ scene = "memory" /\ MemoryNext
          /\ UNCHANGED <<vars, turnsVars, claimsVars, ingestVars>>
       \/ /\ scene = "leads" /\ IngestNext
          /\ UNCHANGED <<vars, turnsVars, claimsVars, memoryVars>>

DeskSpec ==
    DeskInit /\ [][DeskNext]_<<vars, turnsVars, claimsVars, memoryVars,
                               ingestVars, scene>>

\* The scenes name their threads, people and the rest by the same values.
Symmetry == Permutations(Listener) \cup Permutations(Rep) \cup Permutations(Arg)
================================================================================
