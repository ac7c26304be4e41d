------------------------------ MODULE LeadIngest ------------------------------
(***************************************************************************)
(* Projecting a polled item into the lead table (db.upsert_lead).          *)
(*                                                                         *)
(* A lead is found by its item id.  The formula of that id may change from *)
(* one release to the next, and then the same published record arrives     *)
(* under a key nobody has stored.  For a source whose URL addresses one    *)
(* record the stored row is adopted: same URL and same organization.  Each *)
(* call runs in one write transaction, so a poll is one step.              *)
(***************************************************************************)
EXTENDS Integers, FiniteSets, Sequences, FiniteSetsExt

CONSTANTS Record,     \* what the source publishes, each a thing of its own
          Url, UrlOf, \* the page of a record
          Org, OrgOf, \* its buyer (canonical_entity_key)
          Formula,    \* the releases' item_id formulas, in order: a sequence
          Payload     \* BOUND: the versions of a record, a sequence

\* The allowlist of _PER_RECORD_URL_SOURCES: one page and buyer, one record.
ASSUME LeadIngestAssumption ==
    /\ UrlOf \in [Record -> Url] /\ OrgOf \in [Record -> Org]
    /\ Formula # <<>> /\ Formula \in Seq({Formula[k] : k \in DOMAIN Formula})
    /\ \A q, r \in Record :
          UrlOf[q] = UrlOf[r] /\ OrgOf[q] = OrgOf[r] => q = r

VARIABLES
    formula,      \* index of the formula this release uses
    version,      \* index of each record's published payload
    leads,        \* rows in id order: key, url, org, status
    observations, \* source_observations: lead, key, payload hash; each was
                  \* stored together with its one funding event
    origin,       \* history: the records projected into each lead
    told          \* history: alerts raised for each record's payloads

ingestVars ==
    <<formula, version, leads, observations, origin, told>>

Key(r) == <<r, Formula[formula]>>
Hash(r) == <<r, Payload[version[r]]>>
Lead == DOMAIN leads

IngestInit ==
    /\ formula = 1
    /\ version = [r \in Record |-> 1]
    /\ leads = <<>>
    /\ observations = {}
    /\ origin = <<>>
    /\ told = [r \in Record |-> [v \in DOMAIN Payload |-> 0]]

---------------------------------------------------------------------------
Keyed(r) == {i \in Lead : leads[i].key = Key(r)}

\* Mutant of Drifted: the page alone identifies a record.
DriftedByUrl(r) ==
    IF Keyed(r) # {} THEN {} ELSE {i \in Lead : leads[i].url = UrlOf[r]}

\* Rows that are this record under an older key (_adopt_drifted_lead).
Drifted(r) ==
    IF Keyed(r) # {} THEN {}
    ELSE {i \in Lead : leads[i].url = UrlOf[r] /\ leads[i].org = OrgOf[r]}

\* The row an item goes to: its own, the oldest drifted one, or a new one.
Target(r) ==
    IF Keyed(r) # {} THEN Min(Keyed(r))
    ELSE IF Drifted(r) # {} THEN Min(Drifted(r)) ELSE Len(leads) + 1

\* The observation the item stands on: after an adoption one of the same
\* payload under the lead's old key, otherwise the one of its own key.
Observation(r, i) ==
    LET prior == {o \in observations : o.lead = i /\ o.hash = Hash(r)}
        own == {o \in observations : o.key = Key(r) /\ o.hash = Hash(r)}
        new == [lead |-> i, key |-> Key(r), hash |-> Hash(r)]
    IN IF Drifted(r) # {} /\ prior # {} THEN CHOOSE o \in prior : TRUE
       ELSE IF own # {} THEN CHOOSE o \in own : TRUE ELSE new

Put(s, i, x) == [j \in 1..Max({Len(s), i}) |-> IF j = i THEN x ELSE s[j]]

\* One item of a poll; quiet for a backfill or a mere record sighting.
Upsert(r, quiet) ==
    LET i == Target(r)
        fresh == i \notin Lead
        seen == Observation(r, i)
        event == seen \notin observations
    IN /\ observations' = observations \cup {seen}
       /\ leads' = Put(leads, i,
             [key |-> Key(r), url |-> UrlOf[r], org |-> OrgOf[r],
              status |-> IF fresh \/ (event /\ ~quiet) THEN "new"
                         ELSE leads[i].status])
       /\ origin' = Put(origin, i, IF fresh THEN {r} ELSE origin[i] \cup {r})
       /\ told' = IF ~quiet /\ (fresh \/ event)
                  THEN [told EXCEPT ![r][version[r]] = Min({2, @ + 1})]
                  ELSE told
       /\ UNCHANGED <<formula, version>>

\* mark_surfaced: a proactive alert for the lead was confirmed by Slack.
MarkSurfaced(i) ==
    /\ leads[i].status = "new"
    /\ leads' = [leads EXCEPT ![i].status = "surfaced"]
    /\ UNCHANGED <<formula, version, observations, origin, told>>

\* set_lead_status: a rep has no use for the lead.
SetLeadStatus(i) ==
    /\ leads[i].status # "dead"
    /\ leads' = [leads EXCEPT ![i].status = "dead"]
    /\ UNCHANGED <<formula, version, observations, origin, told>>

\* The source publishes a changed record.
Republish(r) ==
    /\ version[r] < Len(Payload)
    /\ version' = [version EXCEPT ![r] = @ + 1]
    /\ UNCHANGED <<formula, leads, observations, origin, told>>

\* A release changes the formula of item ids.
Release ==
    /\ formula < Len(Formula)
    /\ formula' = formula + 1
    /\ UNCHANGED <<version, leads, observations, origin, told>>

IngestNext ==
    \/ \E r \in Record : (\E q \in BOOLEAN : Upsert(r, q)) \/ Republish(r)
    \/ \E i \in Lead : MarkSurfaced(i) \/ SetLeadStatus(i)
    \/ Release

IngestSpec == IngestInit /\ [][IngestNext]_ingestVars

---------------------------------------------------------------------------
(***************************************************************************)
(* A published record is one lead for good, whichever formula names it,    *)
(* and two records never share one, not even when their buyers share a     *)
(* portal page (_adopt_drifted_lead).                                      *)
(***************************************************************************)
OneLeadPerRecord ==
    /\ \A i \in Lead : Cardinality(origin[i]) = 1
    /\ \A i, j \in Lead : origin[i] = origin[j] => i = j

(***************************************************************************)
(* A payload is news once: re-keying a record does not mint a second event *)
(* and a second alert for what the channel has already heard.              *)
(***************************************************************************)
AlertOnce == \A r \in Record : \A v \in DOMAIN Payload : told[r][v] <= 1
================================================================================
