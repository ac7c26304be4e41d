-------------------------------- MODULE MCRekey --------------------------------
(* LeadIngest for TLC: two bids of one buyer, and one of another buyer that *)
(* shares a portal page with the first.                                     *)
EXTENDS LeadIngest, TLC

MCUrlOf == [r \in Record |-> IF r = "fence bid" THEN "own page" ELSE "portal"]
MCOrgOf == [r \in Record |-> IF r = "door bid" THEN "county" ELSE "city"]
MCFormula == <<"prefix", "title">>
MCPayload == <<"published", "amended">>
================================================================================
