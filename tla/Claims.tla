-------------------------------- MODULE Claims --------------------------------
(***************************************************************************)
(* "I'm taking this one": reps claim the leads of an organization and hand *)
(* them back (lead_claims.py, slack/claim_tools.py).                       *)
(*                                                                         *)
(* A request runs in the thread of its Slack message, on a connection of   *)
(* its own, and reads the rows, then the live claims, then writes; polls   *)
(* store and rename rows meanwhile.  The partial unique index on live      *)
(* claims is all that the writers share.                                   *)
(***************************************************************************)
EXTENDS Integers, FiniteSets

CONSTANTS Row,       \* lead rows
          Buyer,     \* organizations, by canonical key
          Nobody,
          Seller,    \* reps
          Asker,     \* threads that serve a claim or a release
          MaxRows,   \* MAX_CLAIM_LEADS
          MaxMoves   \* BOUND: rows stored or renamed by polls

ASSUME ClaimsAssumption ==
    /\ Nobody \notin Buyer \cup Seller
    /\ MaxRows \in Nat /\ MaxMoves \in Nat

VARIABLES
    place,   \* the organization a row belongs to; Nobody before it is stored
    claim,   \* the live claim of a row: its seller; history: the rows it was
             \* made in sight of, and whether a release ended one of these
    at, who, \* where a request is, and whose it is
    sees,    \* the rows of the organization as resolved
    held,    \* of these, those its rep held when it looked
    undercut, \* history: requests that lost one of these before they wrote
    moves

claimsVars == <<place, claim, at, who, sees, held, undercut, moves>>

Free == [by |-> Nobody, seen |-> {}, cut |-> FALSE]
Live(rows) == {l \in rows : claim[l] # Free}
Words == (SUBSET Buyer) \ {{}}

ClaimsInit ==
    /\ place = [l \in Row |-> Nobody]
    /\ claim = [l \in Row |-> Free]
    /\ at = [a \in Asker |-> "idle"]
    /\ who = [a \in Asker |-> Nobody]
    /\ sees = [a \in Asker |-> {}]
    /\ held = [a \in Asker |-> {}]
    /\ undercut = {}
    /\ moves = 0

Answered(a) ==
    /\ at' = [at EXCEPT ![a] = "idle"]
    /\ who' = [who EXCEPT ![a] = Nobody]
    /\ sees' = [sees EXCEPT ![a] = {}]
    /\ held' = [held EXCEPT ![a] = {}]

\* A poll stores a row, or renames the organization of one.
StoreRow(l, b) ==
    /\ moves < MaxMoves /\ place[l] # b
    /\ moves' = moves + 1
    /\ place' = [place EXCEPT ![l] = b]
    /\ UNCHANGED <<claim, at, who, sees, held, undercut>>

\* _resolve_or_explain: the rep's word, matching the names in w, must mean
\* one organization with few enough rows.
Resolve(a, r, w, step) ==
    LET rows == {l \in Row : place[l] \in w}
    IN /\ at[a] = "idle"
       /\ rows # {} /\ \A k, l \in rows : place[k] = place[l]
       /\ Cardinality(rows) <= MaxRows
       /\ at' = [at EXCEPT ![a] = step]
       /\ who' = [who EXCEPT ![a] = r]
       /\ sees' = [sees EXCEPT ![a] = rows]
       /\ UNCHANGED <<place, claim, held, undercut, moves>>

\* Mutant of Foreign: a claim takes what is left of the organization.
ForeignNone(a) == {}

Foreign(a) == {l \in Live(sees[a]) : claim[l].by # who[a]}

\* claim(), up to its write: refuse what another rep holds in part, and say
\* so when the rep already has all of it.
LookForClaims(a) ==
    /\ at[a] = "look"
    /\ \/ /\ Foreign(a) # {} \/ sees[a] \subseteq Live(sees[a])
          /\ Answered(a)
       \/ /\ Foreign(a) = {} /\ ~ sees[a] \subseteq Live(sees[a])
          /\ held' = [held EXCEPT ![a] = Live(sees[a])]
          /\ at' = [at EXCEPT ![a] = "take"]
          /\ UNCHANGED <<who, sees>>
    /\ UNCHANGED <<place, claim, undercut, moves>>

\* One INSERT per row not yet held, all or none: ix_lead_claims_live.
Take(a) ==
    LET fresh == sees[a] \ held[a]
    IN /\ at[a] = "take"
       /\ claim' = IF Live(fresh) # {} THEN claim
                   ELSE [l \in Row |-> IF l \in fresh
                                       THEN [by |-> who[a], seen |-> sees[a],
                                             cut |-> a \in undercut]
                                       ELSE claim[l]]
       /\ undercut' = undercut \ {a}
       /\ Answered(a)
       /\ UNCHANGED <<place, moves>>

\* _release: nobody has it, or go on to the UPDATE.
LookForHolder(a) ==
    /\ at[a] = "holder"
    /\ \/ Live(sees[a]) = {} /\ Answered(a)
       \/ /\ Live(sees[a]) # {}
          /\ at' = [at EXCEPT ![a] = "return"]
          /\ UNCHANGED <<who, sees, held>>
    /\ UNCHANGED <<place, claim, undercut, moves>>

HandBack(a) ==
    /\ at[a] = "return"
    /\ claim' = [l \in Row |->
          IF l \in sees[a] THEN Free
          ELSE [claim[l] EXCEPT !.cut = @ \/ claim[l].seen \cap sees[a] # {}]]
    /\ undercut' = undercut \cup {b \in Asker : held[b] \cap sees[a] # {}}
    /\ Answered(a)
    /\ UNCHANGED <<place, moves>>

ClaimsNext ==
    \/ \E l \in Row : \E b \in Buyer : StoreRow(l, b)
    \/ \E a \in Asker :
          \/ \E r \in Seller : \E w \in Words : \E step \in {"look", "holder"} :
                Resolve(a, r, w, step)
          \/ LookForClaims(a) \/ Take(a) \/ LookForHolder(a) \/ HandBack(a)

ClaimsSpec == ClaimsInit /\ [][ClaimsNext]_claimsVars

---------------------------------------------------------------------------
(***************************************************************************)
(* Half an organization never belongs to one rep and half to another, or   *)
(* to nobody: who has a row has every row seen with it, however requests   *)
(* overlap, unless a release ended one of these claims since, or one that  *)
(* the request counted on (claim(), ix_lead_claims_live).                  *)
(***************************************************************************)
NeverHalved ==
    \A l \in Row : claim[l] # Free /\ ~claim[l].cut =>
        \A k \in claim[l].seen :
            claim[k] # Free /\ claim[k].by = claim[l].by
================================================================================
