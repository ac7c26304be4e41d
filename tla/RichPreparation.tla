-------------------------- MODULE RichPreparation --------------------------
(***************************************************************************)
(* The evidence behind a rich award card: campaign/prepare_worker.py       *)
(* fetches it, campaign/policy.py and campaign/preparation.py judge it,    *)
(* campaign/snapshot.py freezes what may be said.                          *)
(*                                                                         *)
(* Workers run over a queue they took at the start and date what they     *)
(* learn: a contact row bears the start of its RUN, a Salesforce snapshot  *)
(* the moment it is stored, a call the moment it was asked for.  Several   *)
(* workers may run, a worker may die between any two steps, days pass      *)
(* between them, and the review reads the tables one after the other       *)
(* while they are being written.                                           *)
(***************************************************************************)
EXTENDS Integers, Sequences, FiniteSets, FiniteSetsExt

CONSTANTS
    Award,          \* leads, newest award first: 1..n
    Worker,         \* runs of the preparation command
    Account,        \* Salesforce accounts
    Person,         \* Salesforce people
    Fault,          \* the upstream reasons that occur
    Findable,       \* the kinds of contact a discovery may return
    CrmAnswer,      \* what a completed Salesforce lookup may say
    Mapped,         \* the owners that are on the roster and in the channel
    Fits,           \* the leads of a strong physical-security program
    Limit,          \* leads per run
    AwardMax, Platinum, WindowEnd, ConfirmFresh, ContactFresh, CrmFresh,
    CallFresh,      \* the windows of the policy, in days
    MaxNow,         \* BOUND: days
    MaxRuns         \* BOUND: runs begun

None == "none"

\* The upstream reasons nothing in this module changes but Upstream.
UpstreamReason ==
    { "not_gold_grade", "not_verified_award_event",
      "award_event_not_verified", "award_event_evidence_missing",
      "amount_not_finite_positive", "award_date_missing_or_imprecise",
      "award_date_in_future", "entity_kind_unsupported",
      "entity_kind_city_deferred",
      "entity_kind_provenance_heuristic_or_missing",
      "state_provenance_unverified", "award_url_missing_or_unsafe" }

\* An address of the organization, one quoted by its directory record, an
\* address of some other domain, a private mailbox, an unsafe page.
FactKind == {"org", "directory", "stray", "personal", "unsafe"}

CrmStatus == {"found", "no_match", "ambiguous", "partial", "unavailable"}
Owner     == {"call", "account", "deal", "territory"}
Matches   == [accounts : SUBSET Account, deals : 0..2, people : SUBSET Person]

ASSUME PreparationAssumption ==
    /\ IsFiniteSet(Award) /\ Award # {} /\ Award = 1..Cardinality(Award)
    /\ IsFiniteSet(Account)
    /\ Fault \subseteq UpstreamReason
    /\ Findable \subseteq FactKind
    /\ CrmAnswer \subseteq [status : CrmStatus \ {"unavailable"},
                            matches : Matches]
    /\ Mapped \subseteq Owner /\ Fits \subseteq Award
    /\ {Limit, AwardMax, Platinum, WindowEnd, ConfirmFresh, ContactFresh,
        CrmFresh, CallFresh, MaxNow, MaxRuns} \subseteq Nat

VARIABLES
    now,        \* the day
    fault,      \* fault[l]: what upstream says against the lead, or None, or
                \* "gone" once it was posted, reserved, claimed or listed
    confirmed,  \* confirmed[l]: the last complete run that saw the award
    nces,       \* leads whose website the federal record gives
    site,       \* site[l]: the profile's status; has it current evidence, and
                \* of a website?
    facts,      \* facts[l]: the contact_evidence rows, in rowid order
    keys,       \* the paid requests taken: lead and day of the run
    crm,        \* crm[l]: salesforce_lookup_state and salesforce_matches
    call,       \* call[l]: the newest salesforce_activity_snapshots row
    run,        \* run[w]: what a run remembers
    runs,       \* the runs begun
    judge       \* what the review has read so far, or drafted

tables == <<fault, confirmed, nces, site, facts, keys, crm, call>>
preparationVars == <<now, tables, run, runs, judge>>

NoCrm  == [status |-> "", at |-> 0,
           matches |-> [accounts |-> {}, deals |-> 0, people |-> {}]]
NoCall == [status |-> None, at |-> 0, done |-> 0, account |-> None,
           person |-> None, exact |-> FALSE]
NoFact == [status |-> None, kind |-> None, at |-> 0, expires |-> 0]
Idle   == [pc |-> "idle", at |-> 0, queue |-> <<>>, latest |-> 0,
           account |-> None, people |-> {}, since |-> 0]
NoJudge == [pc |-> "idle"]

Time == 0..MaxNow

\* One type invariant, for the tables and the runs.
PreparationTypeOK ==
    /\ now \in Time
    /\ fault \in [Award -> Fault \cup {None, "gone"}]
    /\ confirmed \in [Award -> Time] /\ nces \subseteq Award
    /\ \A l \in Award :
        /\ site[l].status \in {None, "found", "not_found", "unreachable"}
        /\ site[l].evidence \in BOOLEAN /\ site[l].website \in BOOLEAN
        /\ crm[l].status \in CrmStatus \cup {""} /\ crm[l].at \in Time
        /\ crm[l].matches \in Matches
        /\ call[l].status \in {None, "verified_call", "no_recent_call",
                               "unavailable"}
        /\ \A i \in DOMAIN facts[l] :
            /\ facts[l][i].status \in {"verified", "superseded", "removed",
                                       "not_found"}
            /\ facts[l][i].at \in Time
    /\ keys \subseteq Award \X Time
    /\ \A w \in Worker :
        /\ run[w].pc \in {"idle", "contact", "finding", "website", "siting",
                          "crm", "asking", "activity", "calling"}
        /\ run[w].at <= now
    /\ runs \in 0..MaxRuns
    /\ judge.pc \in {"idle", "matches", "call", "drafted"}
    /\ judge.pc = "drafted" =>
            judge.draft.mode \in {"draft_ready", "research_needed"}

PreparationInit ==
    /\ now = 0
    /\ fault \in [Award -> Fault \cup {None}]
    /\ confirmed = [l \in Award |-> 0]
    /\ nces \in SUBSET Award
    /\ site = [l \in Award |-> [status |-> None, evidence |-> FALSE,
                               website |-> FALSE]]
    /\ facts = [l \in Award |-> <<>>]
    /\ keys = {}
    /\ crm = [l \in Award |-> NoCrm] /\ call = [l \in Award |-> NoCall]
    /\ run = [w \in Worker |-> Idle] /\ runs = 0
    /\ judge = NoJudge

---------------------------------------------------------------------------
(***************************************************************************)
(* What the tables say.                                                    *)
(***************************************************************************)
\* Mutant of LatestIndex: the row written last.
LastRow(l) == Len(facts[l])

\* ORDER BY last_checked_at DESC, rowid DESC.
LatestIndex(l) ==
    IF facts[l] = <<>> THEN 0
    ELSE Max({ i \in DOMAIN facts[l] :
                \A j \in DOMAIN facts[l] : facts[l][j].at <= facts[l][i].at })

Latest(l) == IF LatestIndex(l) = 0 THEN NoFact ELSE facts[l][LatestIndex(l)]

\* A snapshot's complete CRM state: only one high-confidence account with at
\* most one open opportunity is exact.
CrmState(status, m) ==
    IF status = "no_match" THEN "complete_no_match"
    ELSE IF status # "found" THEN status
    ELSE IF Cardinality(m.accounts) # 1 \/ m.deals > 1 THEN "ambiguous"
    ELSE "exact_match"

\* The account is known although two opportunities leave the match open.
AccountOf(status, m) ==
    IF status = "found" /\ Cardinality(m.accounts) = 1
    THEN CHOOSE a \in Account : m.accounts = {a} ELSE None

\* Fresh, and still bound to the identities of the match.
FreshCall(c, account, people, t) ==
    /\ c.status = "verified_call"
    /\ c.at <= t /\ t - c.at <= CrmFresh
    /\ c.done <= t /\ t - c.done <= CallFresh
    /\ c.account = account /\ c.person \in people /\ c.exact

\* Everything a review of one lead reads, read at one moment.
View(l, t) ==
    [ lead |-> l, at |-> t, fault |-> fault[l], confirmed |-> confirmed[l],
      nces |-> l \in nces, site |-> site[l], fact |-> Latest(l),
      status |-> crm[l].status, checked |-> crm[l].at,
      matches |-> crm[l].matches, call |-> call[l] ]

---------------------------------------------------------------------------
(***************************************************************************)
(* policy.evaluate: the first reason that fails.                           *)
(***************************************************************************)
Order ==
    << "not_gold_grade", "not_verified_award_event",
       "award_event_not_verified", "award_event_evidence_missing",
       "amount_not_finite_positive", "award_date_missing_or_imprecise",
       "award_date_in_future", "award_older_than_card_ceiling",
       "spend_window_missing_or_closed",
       "observation_not_confirmed_by_recent_complete_run",
       "entity_kind_unsupported", "entity_kind_city_deferred",
       "entity_kind_provenance_heuristic_or_missing",
       "state_provenance_unverified", "award_url_missing_or_unsafe",
       "official_website_missing", "official_website_provenance_missing",
       "contact_missing_or_unverified", "contact_evidence_stale",
       "contact_evidence_url_missing_or_unsafe", "contact_personal_mailbox",
       "contact_email_not_bound_to_organization",
       "crm_partial_unavailable_or_stale" >>

HasWebsite(v) == v.nces \/ v.site.website

\* Never a name: the federal record, or a page of the organization's own.
WebsiteProvenance(v) ==
    IF v.nces THEN "nces"
    ELSE IF /\ v.site.website
            /\ \/ v.site.status = "found"
               \/ /\ v.fact.status = "verified"
                  /\ v.fact.kind \in {"org", "stray", "personal"}
    THEN "verified_org_page" ELSE None

\* The address binds to the website, or to the exact directory record.
ContactBinding(v) ==
    CASE v.fact.kind = "org" /\ HasWebsite(v) -> "org_site"
      [] v.fact.kind = "directory"            -> "authoritative_directory"
      [] OTHER                                -> None

ContactIsStale(v) == v.at - v.fact.at > ContactFresh \/ v.fact.expires <= v.at

CrmIsFresh(v) == v.status # "" /\ v.checked <= v.at
                 /\ v.at - v.checked <= CrmFresh

SafeState     == {"exact_match", "complete_no_match"}
ResearchState == {"ambiguous"}

Fails(r, v) ==
    CASE r = "award_older_than_card_ceiling"  -> v.at > AwardMax
      [] r = "spend_window_missing_or_closed" -> v.at > WindowEnd
      [] r = "observation_not_confirmed_by_recent_complete_run"
                                    -> v.at - v.confirmed > ConfirmFresh
      [] r = "official_website_missing"       -> ~HasWebsite(v)
      [] r = "official_website_provenance_missing"
                                    -> WebsiteProvenance(v) = None
      [] r = "contact_missing_or_unverified"  -> v.fact.status # "verified"
      [] r = "contact_evidence_stale"         -> ContactIsStale(v)
      [] r = "contact_evidence_url_missing_or_unsafe"
                                    -> v.fact.kind = "unsafe"
      [] r = "contact_personal_mailbox"       -> v.fact.kind = "personal"
      [] r = "contact_email_not_bound_to_organization"
                                    -> ContactBinding(v) = None
      [] r = "crm_partial_unavailable_or_stale"
            -> ~(/\ CrmState(v.status, v.matches) \in SafeState
                                                     \cup ResearchState
                 /\ CrmIsFresh(v))
      [] OTHER                                -> v.fault = r

Evaluate(v) ==
    LET failing == { i \in DOMAIN Order : Fails(Order[i], v) }
    IN  IF failing = {} THEN "eligible" ELSE Order[Min(failing)]

\* Draft-ready needs a safe CRM state AND exact ownership of the website.
CardMode(v) ==
    IF /\ CrmState(v.status, v.matches) \in SafeState
       /\ WebsiteProvenance(v) = "nces"
    THEN "draft_ready" ELSE "research_needed"

Tier(v) == IF v.at <= Platinum /\ v.lead \in Fits THEN "platinum" ELSE "gold"

---------------------------------------------------------------------------
(***************************************************************************)
(* Which leads are reviewed, and which are worth preparing.                *)
(***************************************************************************)
\* Unsurfaced Gold inside the age ceiling.
Candidates(t) ==
    { l \in Award : fault[l] \notin {"gone", "not_gold_grade"}
                   /\ t <= AwardMax }

\* What a run can go and fetch.
Remediable ==
    { "eligible", "official_website_missing",
      "official_website_provenance_missing", "contact_missing_or_unverified",
      "contact_evidence_stale", "contact_evidence_url_missing_or_unsafe",
      "contact_email_not_bound_to_organization",
      "crm_partial_unavailable_or_stale" }

\* The queue: newest award first, at most Limit.
Preparable(t) ==
    LET worth == { l \in Candidates(t) : Evaluate(View(l, t)) \in Remediable }
        rank(l) == Cardinality({ m \in worth : m <= l })
    IN  [ i \in 1..Min({Limit, Cardinality(worth)}) |->
            CHOOSE l \in worth : rank(l) = i ]

---------------------------------------------------------------------------
(***************************************************************************)
(* prepare_worker.run.                                                     *)
(***************************************************************************)
Current(w) == Head(run[w].queue)

Proceed(w, p) == run' = [run EXCEPT ![w].pc = p]

\* The next lead of the queue, or the end of the run.
NextLead(w) ==
    run' = [run EXCEPT ![w] =
                IF Len(@.queue) = 1 THEN Idle
                ELSE [Idle EXCEPT !.pc = "contact", !.at = run[w].at,
                                  !.queue = Tail(run[w].queue)]]

StartRun(w) ==
    /\ run[w].pc = "idle" /\ runs < MaxRuns
    /\ LET queue == Preparable(now) IN
        /\ queue # <<>>
        /\ run' = [run EXCEPT ![w] = [Idle EXCEPT !.pc = "contact",
                                                  !.at = now,
                                                  !.queue = queue]]
    /\ runs' = runs + 1
    /\ UNCHANGED <<now, tables, judge>>

\* contact_evidence.refresh: fresh evidence, or a request made before today,
\* asks nothing.  The paid request is taken before the discovery.
RefreshContact(w) ==
    /\ run[w].pc = "contact"
    /\ LET l   == Current(w)
           key == <<l, run[w].at>>
       IN  IF \/ Latest(l).status = "verified"
                 /\ Latest(l).expires > run[w].at
              \/ key \in keys
           THEN Proceed(w, "website") /\ UNCHANGED keys
           ELSE /\ keys' = keys \cup {key}
                /\ run' = [run EXCEPT ![w].pc = "finding",
                                      ![w].latest = LatestIndex(l)]
    /\ UNCHANGED <<now, fault, confirmed, nces, site, facts, crm, call,
                   runs, judge>>

\* The row that was latest BEFORE the discovery is superseded; the new one
\* bears the start of the run.
Supersede(rows, i) ==
    IF i # 0 /\ rows[i].status = "verified"
    THEN [rows EXCEPT ![i].status = "superseded"] ELSE rows

\* Discovery has an answer.
FindContact(w) ==
    /\ run[w].pc = "finding"
    /\ \E kind \in Findable \cup {None} :
        LET l   == Current(w)
            row == [ status  |-> IF kind # None THEN "verified"
                                 ELSE IF run[w].latest # 0 THEN "removed"
                                 ELSE "not_found",
                     kind    |-> kind,
                     at      |-> run[w].at,
                     expires |-> IF kind = None THEN 0
                                 ELSE run[w].at + ContactFresh ]
        IN  facts' = [facts EXCEPT ![l] =
                        Append(Supersede(@, run[w].latest), row)]
    /\ Proceed(w, "website")
    /\ UNCHANGED <<now, fault, confirmed, nces, site, keys, crm, call,
                   runs, judge>>

\* The discovery raised, or its fact lacked typed evidence: nothing is kept.
FindingFails(w) ==
    /\ run[w].pc = "finding"
    /\ Proceed(w, "website")
    /\ UNCHANGED <<now, tables, runs, judge>>

\* One attempt per lead, unless a profile lost its evidence.
NeedsWebsite(l) ==
    /\ l \notin nces
    /\ \/ site[l].status = None
       \/ site[l].status = "found" /\ ~site[l].evidence

LookForWebsite(w) ==
    /\ run[w].pc = "website"
    /\ Proceed(w, IF NeedsWebsite(Current(w)) THEN "siting" ELSE "crm")
    /\ UNCHANGED <<now, tables, runs, judge>>

\* The profile is replaced: what an earlier attempt found is superseded, and
\* only a page that was read leaves evidence, of a website or of other facts.
FindWebsite(w) ==
    /\ run[w].pc = "siting"
    /\ \E s \in {"found", "not_found", "unreachable"}, web \in BOOLEAN :
        /\ web => s = "found"
        /\ site' = [site EXCEPT ![Current(w)] =
                [status |-> s, evidence |-> s = "found", website |-> web]]
    /\ Proceed(w, "crm")
    /\ UNCHANGED <<now, fault, confirmed, nces, facts, keys, crm, call,
                   runs, judge>>

\* Missing, expired, or dated after this run began.
CrmIsStale(l, at) ==
    \/ crm[l].status = ""
    \/ crm[l].at > at
    \/ at - crm[l].at > CrmFresh

CheckCrm(w) ==
    /\ run[w].pc = "crm"
    /\ Proceed(w, IF CrmIsStale(Current(w), run[w].at)
               THEN "asking" ELSE "activity")
    /\ UNCHANGED <<now, tables, runs, judge>>

\* The snapshot is replaced; an outage keeps the old matches under the new
\* status.
Persist(old, answer) ==
    [ status  |-> answer.status, at |-> now,
      matches |-> IF answer.status = "unavailable" THEN old.matches
                  ELSE answer.matches ]

RefreshCrm(w) ==
    /\ run[w].pc = "asking"
    /\ \E answer \in CrmAnswer \cup {[status |-> "unavailable"]} :
        crm' = [crm EXCEPT ![Current(w)] = Persist(@, answer)]
    /\ Proceed(w, "activity")
    /\ UNCHANGED <<now, fault, confirmed, nces, site, facts, keys, call,
                   runs, judge>>

\* Every lead whose snapshot is missing or old; the best of them first.
SyncCandidate(l) == CrmIsStale(l, now)

\* The nightly sync refreshes what is stale, whoever prepares the lead.
\* BOUND: not beside a run, which a second run already races.
SyncCrm(l) ==
    /\ \A w \in Worker : run[w].pc = "idle"
    /\ SyncCandidate(l)
    /\ \E answer \in CrmAnswer \cup {[status |-> "unavailable"]} :
        crm' = [crm EXCEPT ![l] = Persist(@, answer)]
    /\ UNCHANGED <<now, fault, confirmed, nces, site, facts, keys, call, run,
                   runs, judge>>

\* exact_crm_bindings: only an exact account with people is asked about.
AskActivity(w) ==
    /\ run[w].pc = "activity"
    /\ LET c == crm[Current(w)] IN
        IF CrmState(c.status, c.matches) = "exact_match"
           /\ c.matches.people # {}
        THEN run' = [run EXCEPT
                ![w].pc = "calling",
                ![w].account = AccountOf(c.status, c.matches),
                ![w].people = c.matches.people, ![w].since = now]
        ELSE NextLead(w)
    /\ UNCHANGED <<now, tables, runs, judge>>

\* Of the snapshots the one asked last is read.
Newer(old, new) == IF new.at >= old.at THEN new ELSE old

RecordActivity(w) ==
    /\ run[w].pc = "calling"
    /\ \E status \in {"verified_call", "no_recent_call", "unavailable"},
          p \in run[w].people, done \in Time, exact \in BOOLEAN :
        /\ done <= run[w].since /\ run[w].since - done <= CallFresh
        /\ status # "verified_call" => exact = FALSE /\ done = run[w].since
        /\ call' = [call EXCEPT ![Current(w)] =
                Newer(@, [ status |-> status, at |-> run[w].since,
                           done |-> done, account |-> run[w].account,
                           person |-> p, exact |-> exact ])]
    /\ NextLead(w)
    /\ UNCHANGED <<now, fault, confirmed, nces, site, facts, keys, crm,
                   runs, judge>>

\* A lookup that raised is counted and the run goes on.
ActivityFails(w) ==
    /\ run[w].pc = "calling"
    /\ NextLead(w)
    /\ UNCHANGED <<now, tables, runs, judge>>

Die(w) ==
    /\ run[w].pc # "idle"
    /\ run' = [run EXCEPT ![w] = Idle]
    /\ UNCHANGED <<now, tables, runs, judge>>

---------------------------------------------------------------------------
(***************************************************************************)
(* The review: _candidate reads the tables one after the other.            *)
(***************************************************************************)
\* The row, its website, the latest contact and the state of the lookup.
OpenReview ==
    /\ judge.pc = "idle"
    /\ \E l \in Candidates(now) :
        judge' = [ pc |-> "matches",
                   view |-> [View(l, now) EXCEPT
                                !.matches = NoCrm.matches, !.call = NoCall] ]
    /\ UNCHANGED <<now, tables, run, runs>>

ReadMatches ==
    /\ judge.pc = "matches"
    /\ judge' = [judge EXCEPT !.pc = "call",
                    !.view.matches = crm[judge.view.lead].matches]
    /\ UNCHANGED <<now, tables, run, runs>>

\* Mutant of Asserted: the account of an ambiguous match stays.
AssertedAnyway(v) ==
    LET account == AccountOf(v.status, v.matches)
    IN  IF account = None
        THEN [account |-> None, deal |-> FALSE, call |-> NoCall]
        ELSE [ account |-> account, deal |-> v.matches.deals = 1,
               call |-> IF FreshCall(v.call, account, v.matches.people, v.at)
                        THEN v.call ELSE NoCall ]

\* An ambiguous match asserts no account, no deal and no call.
Asserted(v) ==
    LET state   == CrmState(v.status, v.matches)
        account == AccountOf(v.status, v.matches)
    IN  IF state = "ambiguous" \/ account = None
        THEN [account |-> None, deal |-> FALSE, call |-> NoCall]
        ELSE [ account |-> account, deal |-> v.matches.deals = 1,
               call |-> IF FreshCall(v.call, account, v.matches.people, v.at)
                        THEN v.call ELSE NoCall ]

\* routing.resolve: the owner of the call, the account, the opportunity, the
\* territory; nobody when none of them is in the channel.
Route(a) ==
    IF a.call # NoCall /\ "call" \in Mapped THEN "call"
    ELSE IF a.account # None /\ "account" \in Mapped THEN "account"
    ELSE IF a.deal /\ "deal" \in Mapped THEN "deal"
    ELSE IF "territory" \in Mapped THEN "territory"
    ELSE "unassigned"

\* A draft dies with the first of its facts.
Expiry(v) == Min({v.fact.expires, WindowEnd + 1})

\* Only an eligible lead is drafted.
Draft(v) ==
    LET a == Asserted(v) IN
    [ mode |-> CardMode(v), tier |-> Tier(v),
      state |-> CrmState(v.status, v.matches),
      provenance |-> WebsiteProvenance(v), account |-> a.account,
      call |-> a.call, route |-> Route(a), at |-> v.at,
      expires |-> Expiry(v) ]

Judge ==
    /\ judge.pc = "call"
    /\ LET v == [judge.view EXCEPT !.call = call[judge.view.lead]] IN
        judge' = IF Evaluate(v) = "eligible"
                 THEN [pc |-> "drafted", draft |-> Draft(v)] ELSE NoJudge
    /\ UNCHANGED <<now, tables, run, runs>>

\* The snapshot is frozen as it was drafted, whatever has changed since.
FreezeDraft ==
    /\ judge.pc = "drafted"
    /\ judge' = NoJudge
    /\ UNCHANGED <<now, tables, run, runs>>

---------------------------------------------------------------------------
(***************************************************************************)
(* The world.                                                              *)
(***************************************************************************)
\* BOUND: a run takes its queue once, so what upstream does in its middle is
\* as good as done before it or after it; and a review lasts no day.
Quiet == judge.pc = "idle" /\ \A w \in Worker : run[w].pc = "idle"

NextDay ==
    /\ now < MaxNow /\ judge.pc = "idle"
    /\ now' = now + 1
    /\ UNCHANGED <<tables, run, runs, judge>>

\* A complete poll sees the award again.
Confirm(l) ==
    /\ judge.pc = "idle" /\ confirmed[l] # now
    /\ now - confirmed[l] >= ConfirmFresh   \* BOUND: only when it matters
    /\ confirmed' = [confirmed EXCEPT ![l] = now]
    /\ UNCHANGED <<now, fault, nces, site, facts, keys, crm, call, run,
                   runs, judge>>

\* Another job supplies what was missing, or the lead is posted, reserved,
\* claimed or listed.
Upstream(l) ==
    /\ Quiet /\ fault[l] # "gone"
    /\ fault' = [fault EXCEPT ![l] = IF @ = None THEN "gone" ELSE None]
    /\ UNCHANGED <<now, confirmed, nces, site, facts, keys, crm, call, run,
                   runs, judge>>

PreparationNext ==
    \/ NextDay
    \/ \E l \in Award : Confirm(l) \/ Upstream(l) \/ SyncCrm(l)
    \/ \E w \in Worker :
        \/ StartRun(w) \/ RefreshContact(w) \/ FindContact(w)
        \/ FindingFails(w) \/ LookForWebsite(w) \/ FindWebsite(w)
        \/ CheckCrm(w) \/ RefreshCrm(w) \/ AskActivity(w)
        \/ RecordActivity(w) \/ ActivityFails(w) \/ Die(w)
    \/ OpenReview \/ ReadMatches \/ Judge \/ FreezeDraft

PreparationSpec == PreparationInit /\ [][PreparationNext]_preparationVars

---------------------------------------------------------------------------
(***************************************************************************)
(* Properties.                                                             *)
(***************************************************************************)
\* Rows are dated with the start of their run and land in any order; and yet
\* the late answer of an older run, which knew less when it was asked, takes
\* nothing away from what a newer run has learnt and stored: the contact a
\* card would show, or the fact that there is none, stays as it was.
LateAnswerHidesNothing ==
    [][\A l \in Award :
        /\ Len(facts'[l]) > Len(facts[l])
        /\ facts'[l][Len(facts'[l])].at < Latest(l).at
        => Latest(l)' = Latest(l)]_preparationVars

\* What a card says of Salesforce is what one exact match says: a named
\* account, a call and an owner only where the match is exact, the call one
\* of that very account, the button only with a safe state and a website the
\* federal record gives, although the tables change between the reads and
\* between the lookups of the match and of the call.
DraftAssertsWhatHolds ==
    /\ PreparationTypeOK
    /\ judge.pc = "drafted" =>
        LET d == judge.draft IN
        /\ d.state # "exact_match" =>
                /\ d.account = None /\ d.call = NoCall
                /\ d.route \in {"territory", "unassigned"}
        /\ d.call # NoCall =>
                /\ d.call.account = d.account
                /\ d.at - d.call.done <= CallFresh
        /\ d.mode = "draft_ready" =>
                d.state \in SafeState /\ d.provenance = "nces"
        /\ d.expires > d.at
=============================================================================
