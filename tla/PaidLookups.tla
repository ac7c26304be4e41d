----------------------------- MODULE PaidLookups -----------------------------
(***************************************************************************)
(* Contact lookups on the metered web provider.  A lookup of a lead        *)
(* (slack/contact_enrichment.py, or the contact refresh of the preparation *)
(* run) is wrapped by the attempt ledger of campaign/paid_calls.py; each   *)
(* search and page it asks for passes enrich/firecrawl_gateway.py, which   *)
(* books the call in the account's ledger before HTTP.  Threads of a batch *)
(* (slack/search_enrichment.py) share one ceiling of calls.                *)
(*                                                                         *)
(* Every transaction on either ledger, every HTTP call and every save of   *)
(* what was found is a step of its own.                                    *)
(***************************************************************************)
EXTENDS Integers, Sequences, FiniteSets

CONSTANTS Target, Worker,
          MonthLimit,       \* FIRECRAWL_RUNTIME_MONTHLY_LIMIT as first set
          LowerLimit,       \* what an operator may lower it to
          BatchLimit,       \* MAX_FIRECRAWL_CALLS_PER_BATCH
          MaxRateAttempts,  \* MAX_RATE_LIMIT_ATTEMPTS
          MonthOf,          \* the billing period of a day
          MaxDay,           \* BOUND
          MaxCalls,         \* BOUND: rows of the account ledger
          MaxLookups,       \* BOUND
          MaxCrashes        \* BOUND

ASSUME LookupAssumption ==
    /\ {MonthLimit, LowerLimit, BatchLimit, MaxRateAttempts} \subseteq Nat \ {0}
    /\ LowerLimit <= MonthLimit
    /\ Target # {} /\ IsFiniteSet(Worker)
    /\ MaxDay \in Nat \ {0} /\ {MaxCalls, MaxLookups, MaxCrashes} \subseteq Nat
    /\ MonthOf \in [1..MaxDay -> Nat]

VARIABLES
    day,
    configured, \* the monthly limit in the environment
    call_limit,      \* firecrawl_runtime_periods.call_limit, by month
    reserved,   \* reserved_calls, by month
    attempts,      \* rows of firecrawl_runtime_attempts, oldest first
    blocked,    \* provider_state: the reason of an open window
    paid,       \* paid_enrichment_attempts: the states of each key's rows
    contact,    \* of each lead: its rows of contacts
    profile,    \* leads.org_profile_status, and whether a mailbox was found
    fresh,      \* leads with verified contact_evidence
    used,       \* FirecrawlCallBudget.used
    rung,       \* the leads of the batch already taken
    asked,      \* history: rows of paid that an operator asked for
    batched,    \* history: HTTP calls of the batch's threads
    at, mode, target, key, before, mine, want, call, person, down, word, end,
    lookups, crashes

Day == 1..MaxDay
Month == {MonthOf[d] : d \in Day}
month == MonthOf[day]
Kind == {"angle", "page", "person", "site"}
Request == Target \X Kind

\* legacy-contact:<lead>, and rich-contact:<lead>:<day>.
LegacyKey(l) == <<l, 0>>
RichKey(l, d) == <<l, d>>
Key == Target \X (0..MaxDay)

account == <<configured, call_limit, reserved, attempts, blocked>>
found == <<contact, profile, fresh>>
batch == <<used, rung, batched>>
local == <<mode, target, key, before, mine, want, call, person, down, word,
           end>>
lookupsVars ==
    <<day, account, paid, asked, found, batch, at, local, lookups, crashes>>

CallState == {"in_flight", "completed", "indeterminate", "rate_limited",
              "failed"}
Row == [req : Request, month : Month, state : CallState, no : Nat,
        asked : BOOLEAN, sent : BOOLEAN]
PaidState == {"in_flight", "completed", "failed", "indeterminate"}
ContactRow == {"none", "verified", "linkedin", "not_found"}
Profile == {"none", "not_found", "unreachable", "found", "mailbox"}

LookupsInit ==
    /\ day = 1 /\ configured = MonthLimit
    /\ call_limit = [m \in Month |-> 0] /\ reserved = [m \in Month |-> 0]
    /\ attempts = <<>> /\ blocked = "none"
    /\ paid = [k \in Key |-> <<>>] /\ asked = {}
    /\ contact = [l \in Target |-> "none"]
    /\ profile = [l \in Target |-> "none"] /\ fresh = {}
    /\ used = 0 /\ rung = {} /\ batched = 0
    /\ at = [w \in Worker |-> "idle"]
    /\ mode = [w \in Worker |-> "none"]
    /\ target \in [Worker -> {CHOOSE l \in Target : TRUE}]
    /\ key = [w \in Worker |-> LegacyKey(target[w])]
    /\ before = [w \in Worker |-> 0] /\ mine = [w \in Worker |-> 0]
    /\ want = [w \in Worker |-> "none"] /\ call = [w \in Worker |-> 0]
    /\ person = [w \in Worker |-> FALSE] /\ down = [w \in Worker |-> FALSE]
    /\ word = [w \in Worker |-> FALSE] /\ end = [w \in Worker |-> "none"]
    /\ lookups = 0 /\ crashes = 0

Quiescent == \A w \in Worker : at[w] = "idle"
Set(f, w, v) == [f EXCEPT ![w] = v]
GoTo(w, l) == at' = Set(at, w, l)

\* The lookup ends.
Return(w) ==
    /\ GoTo(w, "idle")
    /\ mode' = Set(mode, w, "none") /\ key' = Set(key, w, LegacyKey(target[w]))
    /\ before' = Set(before, w, 0) /\ mine' = Set(mine, w, 0)
    /\ want' = Set(want, w, "none") /\ call' = Set(call, w, 0)
    /\ person' = Set(person, w, FALSE) /\ down' = Set(down, w, FALSE)
    /\ word' = Set(word, w, FALSE) /\ end' = Set(end, w, "none")
    /\ UNCHANGED target

---------------------------------------------------------------------------
(***************************************************************************)
(* What starts a lookup.                                                   *)
(***************************************************************************)
\* A row with complete evidence of its page.
HasVerified(l) == contact[l] = "verified"

\* The general mailbox is on the lead with current evidence.
HasMailbox(l) == profile[l] = "mailbox"

\* What an earlier pass stored is told again, without spending.
Recalled(l) == contact[l] = "linkedin" \/ HasMailbox(l)

Unknown(l) == ~HasVerified(l) /\ ~Recalled(l) /\ contact[l] # "not_found"

\* Verified evidence inside its window.
FactIsFresh(l) == l \in fresh

Begin(w, m, l, k, retry) ==
    /\ at[w] = "idle" /\ lookups < MaxLookups
    /\ lookups' = lookups + 1
    /\ mode' = Set(mode, w, m) /\ target' = Set(target, w, l)
    /\ key' = Set(key, w, k) /\ word' = Set(word, w, retry)
    /\ GoTo(w, "prior")
    /\ UNCHANGED <<day, account, paid, asked, found, before, mine, want, call,
                   person, down, end, used, batched, crashes>>

\* A thread of the pool takes a row of the search.
EnrichOne(w) ==
    \E l \in Target \ rung :
        /\ Unknown(l)
        /\ Begin(w, "batch", l, LegacyKey(l), FALSE)
        /\ rung' = rung \cup {l}

\* The tool for one lead: no ceiling of its own.
EnrichLead(w) ==
    \E l \in Target :
        /\ Unknown(l)
        /\ Begin(w, "single", l, LegacyKey(l), FALSE)
        /\ UNCHANGED rung

\* The preparation run refreshes the evidence of a lead that has none fresh;
\* an operator may have told it to retry what is indeterminate.
RefreshContact(w) ==
    \E l \in Target, retry \in BOOLEAN :
        /\ ~FactIsFresh(l)
        /\ Begin(w, "prep", l, RichKey(l, day), retry)
        /\ UNCHANGED rung

\* Another search with contacts: a new ceiling.
NewBatch ==
    /\ rung # {} /\ \A w \in Worker : mode[w] # "batch"
    /\ used' = 0 /\ rung' = {} /\ batched' = 0
    /\ UNCHANGED <<day, account, paid, asked, found, at, local, lookups,
                   crashes>>

---------------------------------------------------------------------------
(***************************************************************************)
(* paid_calls.execute.                                                     *)
(***************************************************************************)
Unsettled == {"in_flight", "indeterminate"}

Former(k) == IF paid[k] = <<>> THEN "none" ELSE paid[k][Len(paid[k])]

\* CompletedPaidCall, IndeterminatePaidCall.
Refused(w) ==
    \/ Former(key[w]) = "completed"
    \/ Former(key[w]) \in Unsettled /\ ~word[w]

\* The former attempt is read outside any transaction.
ReadPrior(w) ==
    /\ at[w] = "prior"
    /\ IF Refused(w) THEN Return(w)
       ELSE /\ before' = Set(before, w, Len(paid[key[w]]))
            /\ GoTo(w, IF Former(key[w]) = "in_flight" THEN "declare"
                       ELSE "insert")
            /\ UNCHANGED <<mode, target, key, mine, want, call, person, down,
                           word, end>>
    /\ UNCHANGED <<day, account, paid, asked, found, batch, lookups, crashes>>

\* The operator's word: the attempt in flight is taken for dead.  The update
\* does not look at its state again.
Declare(w) ==
    /\ at[w] = "declare"
    /\ paid' = [paid EXCEPT ![key[w]][before[w]] = "indeterminate"]
    /\ GoTo(w, "insert")
    /\ UNCHANGED <<day, account, asked, found, batch, local, lookups, crashes>>

\* UNIQUE(request_key, attempt_no).
Taken(w) == Len(paid[key[w]]) # before[w]

\* _default_finder reads a proven mailbox's page again before it searches.
FirstRung(w) ==
    IF mode[w] = "prep" /\ HasMailbox(target[w]) THEN "mailpage" ELSE "angle"

InsertAttempt(w) ==
    /\ at[w] = "insert"
    /\ IF Taken(w) THEN Return(w) /\ UNCHANGED <<paid, asked>>
       ELSE /\ paid' = [paid EXCEPT ![key[w]] = Append(@, "in_flight")]
            /\ mine' = Set(mine, w, Len(paid[key[w]]) + 1)
            /\ asked' = IF word[w] /\ before[w] > 0 /\ Former(key[w]) # "failed"
                        THEN asked \cup {<<key[w], mine'[w]>>} ELSE asked
            /\ before' = Set(before, w, 0)
            /\ GoTo(w, "claim") /\ want' = Set(want, w, FirstRung(w))
            /\ UNCHANGED <<mode, target, key, call, person, down, word,
                           end>>
    /\ UNCHANGED <<day, account, found, batch, lookups, crashes>>

\* SourceUnreachable and a spent budget are provably unspent for the legacy
\* lookup; the refresh names no such exception.
Verdict(w) ==
    CASE end[w] = "ok" -> "completed"
      [] end[w] \in {"outage", "stopped"} /\ mode[w] # "prep" -> "failed"
      [] OTHER -> "indeterminate"

\* By the row's id, whatever its state is by now.
SettleAttempt(w) ==
    /\ at[w] = "settle"
    /\ paid' = [paid EXCEPT ![key[w]][mine[w]] = Verdict(w)]
    /\ Return(w)
    /\ UNCHANGED <<day, account, asked, found, batch, lookups, crashes>>

---------------------------------------------------------------------------
(***************************************************************************)
(* What the lookup makes of one answer.                                    *)
(***************************************************************************)
\* The next search or page.
AskFor(w, kind) ==
    /\ GoTo(w, "claim") /\ want' = Set(want, w, kind)
    /\ call' = Set(call, w, 0)
    /\ UNCHANGED <<mode, target, key, before, mine, word>>

Step(w, l) ==
    /\ GoTo(w, l) /\ want' = Set(want, w, "none") /\ call' = Set(call, w, 0)
    /\ UNCHANGED <<mode, target, key, before, mine, word>>

\* The work of the lookup is over; a website refresh has no row to settle.
FinishLookup(w, how) ==
    IF mode[w] = "site" THEN Return(w)
    ELSE Step(w, "settle") /\ end' = Set(end, w, how)
         /\ UNCHANGED <<person, down>>

Same(w) == UNCHANGED <<person, down, end>>

\* Mutant of Decide: an outage counts as a negative.
DecideAlways(w, mailbox, outage) ==
    IF mode[w] = "site" THEN Return(w)
    ELSE IF person[w] \/ mailbox THEN FinishLookup(w, "ok")
    ELSE Step(w, "miss") /\ Same(w)

\* A person or a mailbox is an outcome; an absence needs two clean negatives.
Decide(w, mailbox, outage) ==
    IF mode[w] = "site" THEN Return(w)
    ELSE IF person[w] \/ mailbox THEN FinishLookup(w, "ok")
    ELSE IF outage THEN FinishLookup(w, "outage")
    ELSE Step(w, "miss") /\ Same(w)

\* find_contact: a search that shows no official page read nothing.
AfterAngle(w, got) ==
    \/ got /\ AskFor(w, "page") /\ Same(w)
    \/ FinishLookup(w, "outage")

\* The page has the contact, is read and has none, or cannot be made out.
AfterPage(w, got) ==
    \/ got /\ Step(w, "save") /\ Same(w)
    \/ got /\ mode[w] # "prep" /\ AskFor(w, "person") /\ Same(w)
    \/ got /\ mode[w] = "prep" /\ Step(w, "absent") /\ Same(w)
    \/ FinishLookup(w, "outage")

\* general_mailbox_evidence: still published, gone, or not to be read.
AfterMailPage(w, got) ==
    \/ got /\ Step(w, "save") /\ Same(w)
    \/ got /\ AskFor(w, "angle") /\ Same(w)
    \/ FinishLookup(w, "outage")

\* linkedin_person.
AfterPerson(w, got) ==
    \/ got /\ Step(w, "linkedin") /\ Same(w)
    \/ got /\ Step(w, "profile") /\ Same(w)
    \/ /\ ~got /\ Step(w, "profile")
       /\ down' = Set(down, w, TRUE) /\ UNCHANGED <<person, end>>

\* _resolve_site: an official site, or none to be found.
AfterSite(w, got) ==
    \/ got /\ AskFor(w, "sitepage") /\ Same(w)
    \/ got /\ Step(w, "nosite") /\ Same(w)
    \/ ~got /\ Decide(w, FALSE, TRUE)

\* What the pages of the site prove once combined: a mailbox, other facts, or
\* nothing.
Facts == {"sitemail", "sitefacts", "nosite"}

\* enrich_org_profile: facts with or without a mailbox, none, or no page.
AfterSitePage(w, got) ==
    \/ got /\ \E l \in Facts :
                Step(w, l) /\ Same(w)
    \/ got /\ FinishLookup(w, "broken")
    \/ Step(w, "unread") /\ Same(w)

\* A payload, or FirecrawlUnavailable.
Resume(w, got) ==
    CASE want[w] = "angle" -> AfterAngle(w, got)
      [] want[w] = "mailpage" -> AfterMailPage(w, got)
      [] want[w] = "page" -> AfterPage(w, got)
      [] want[w] = "person" -> AfterPerson(w, got)
      [] want[w] = "site" -> AfterSite(w, got)
      [] want[w] = "sitepage" -> AfterSitePage(w, got)

\* A spent or unset budget is no FirecrawlUnavailable: it leaves every rung.
Stop(w) == FinishLookup(w, "stopped")

---------------------------------------------------------------------------
(***************************************************************************)
(* _post: one metered call.                                                *)
(***************************************************************************)
\* The page of the site is the page the contact was looked for on.
RequestOf(w) ==
    <<target[w], IF want[w] \in {"sitepage", "mailpage"} THEN "page"
               ELSE want[w]>>

Metered == UNCHANGED <<day, paid, asked, found, lookups, crashes>>

Claim(w) ==
    /\ at[w] = "claim"
    /\ IF mode[w] = "batch" /\ used >= BatchLimit
       THEN Stop(w) /\ UNCHANGED batch
       ELSE /\ used' = IF mode[w] = "batch" THEN used + 1 ELSE used
            /\ GoTo(w, "open")
            /\ UNCHANGED <<local, rung, batched>>
    /\ Metered /\ UNCHANGED account

\* The ledger is not there, not this account's or awaits reconciliation: the
\* claim is not given back.
LedgerRefused(w) ==
    /\ at[w] = "open" /\ Stop(w)
    /\ Metered /\ UNCHANGED <<account, batch>>

\* The newest row of this exact request in this month, or 0.
Rows(r) == {i \in DOMAIN attempts :
              attempts[i].req = r /\ attempts[i].month = month}
Prior(r) == IF Rows(r) = {} THEN 0
            ELSE CHOOSE i \in Rows(r) : \A j \in Rows(r) : j <= i
PriorState(r) == IF Prior(r) = 0 THEN "none" ELSE attempts[Prior(r)].state

\* Mutant of Pending: a call under way is not looked at.
PendingIfLost(r) == PriorState(r) = "indeterminate"

\* What stops a second call: it may have been executed.
Pending(r) == PriorState(r) \in Unsettled

\* Raised inside the transaction, which leaves nothing.
Withheld(w) ==
    LET r == RequestOf(w) IN
    \/ blocked # "none"
    \/ Pending(r) /\ ~word[w]
    \/ /\ PriorState(r) = "rate_limited"
       /\ attempts[Prior(r)].no >= MaxRateAttempts

\* An operator's retry, or another try after a rate limit.
Number(w) ==
    LET r == RequestOf(w) IN
    IF Pending(r) \/ PriorState(r) = "rate_limited"
    THEN attempts[Prior(r)].no + 1 ELSE 1

\* call_limit follows the environment, never below what is reserved.
NewLimit == IF reserved[month] > configured THEN reserved[month]
            ELSE configured

\* A row in flight is taken for interrupted.
Interrupted(r) ==
    [i \in DOMAIN attempts |->
        IF i = Prior(r) /\ attempts[i].state = "in_flight"
        THEN [attempts[i] EXCEPT !.state = "indeterminate"] ELSE attempts[i]]

NewRow(w) ==
    [req |-> RequestOf(w), month |-> month, state |-> "in_flight",
     no |-> Number(w), asked |-> Pending(RequestOf(w)), sent |-> FALSE]

\* A claim is given back when nothing was reserved.
GiveBack(w) == used' = IF mode[w] = "batch" THEN used - 1 ELSE used

ReserveWithheld(w) ==
    /\ at[w] = "open" /\ Withheld(w)
    /\ Resume(w, FALSE) /\ GiveBack(w)
    /\ Metered /\ UNCHANGED <<account, rung, batched>>

\* Mutant of Exhausted: one too many.
ExhaustedLate == reserved[month] > NewLimit

\* The conditional increment found no room.
Exhausted == reserved[month] >= NewLimit

\* Raised after the transaction: the limit and the interrupted row stay.
ReserveExhausted(w) ==
    /\ at[w] = "open" /\ ~Withheld(w) /\ Exhausted
    /\ call_limit' = [call_limit EXCEPT ![month] = NewLimit]
    /\ attempts' = Interrupted(RequestOf(w))
    /\ Stop(w) /\ GiveBack(w)
    /\ Metered /\ UNCHANGED <<configured, reserved, blocked, rung, batched>>

ReserveCall(w) ==
    /\ at[w] = "open" /\ ~Withheld(w) /\ ~Exhausted
    /\ Len(attempts) < MaxCalls
    /\ call_limit' = [call_limit EXCEPT ![month] = NewLimit]
    /\ reserved' = [reserved EXCEPT ![month] = @ + 1]
    /\ attempts' = Append(Interrupted(RequestOf(w)), NewRow(w))
    /\ call' = Set(call, w, Len(attempts) + 1)
    /\ GoTo(w, "slot")
    /\ Metered
    /\ UNCHANGED <<configured, blocked, batch, mode, target, key, before, mine,
                   want, person, down, word, end>>

\* _finalize: only a row still in flight.
Finalized(w, state) ==
    IF attempts[call[w]].state = "in_flight"
    THEN [attempts EXCEPT ![call[w]].state = state] ELSE attempts

\* The spacing of calls across processes: a slot in the bounded wait.
TakeSlot(w) ==
    /\ at[w] = "slot" /\ GoTo(w, "send")
    /\ Metered /\ UNCHANGED <<account, batch, local>>

\* The queue is too long, or its state is unreadable: no HTTP.
NoSlot(w) ==
    /\ at[w] = "slot"
    /\ attempts' = Finalized(w, "failed")
    /\ Resume(w, FALSE)
    /\ Metered /\ UNCHANGED <<configured, call_limit, reserved, blocked, batch>>

Send(w) ==
    /\ at[w] = "send"
    /\ attempts' = [attempts EXCEPT ![call[w]].sent = TRUE]
    /\ batched' = IF mode[w] = "batch" THEN batched + 1 ELSE batched
    /\ GoTo(w, "answer")
    /\ Metered
    /\ UNCHANGED <<configured, call_limit, reserved, blocked, used, rung,
                   local>>

\* A payload; a body too large or malformed; no answer, 5xx or a broken
\* stream; 429; a rejected credential; any other 4xx.
Answers == {<<"completed", TRUE, "none">>, <<"completed", FALSE, "none">>,
            <<"indeterminate", FALSE, "none">>,
            <<"rate_limited", FALSE, "rate_limited">>,
            <<"failed", FALSE, "credential">>, <<"failed", FALSE, "none">>}

Answer(w) ==
    /\ at[w] = "answer"
    /\ \E a \in Answers :
         /\ attempts' = Finalized(w, a[1])
         /\ blocked' = IF a[3] = "none" THEN blocked ELSE a[3]
         /\ Resume(w, a[2])
    /\ Metered /\ UNCHANGED <<configured, call_limit, reserved, batch>>

---------------------------------------------------------------------------
(***************************************************************************)
(* What a lookup saves.                                                    *)
(***************************************************************************)
Saving == UNCHANGED <<day, account, paid, asked, batch, lookups, crashes>>

\* A verified contact with the evidence of its page.
SaveContact(w) ==
    /\ at[w] = "save" /\ mode[w] # "prep"
    /\ contact' = Set(contact, target[w], "verified")
    /\ FinishLookup(w, "ok")
    /\ Saving /\ UNCHANGED <<profile, fresh>>

\* The refresh records the fact, or a definite miss, in one transaction.
SaveFact(w) ==
    /\ at[w] \in {"save", "absent"} /\ mode[w] = "prep"
    /\ fresh' = IF at[w] = "save" THEN fresh \cup {target[w]}
                ELSE fresh \ {target[w]}
    /\ FinishLookup(w, "ok")
    /\ Saving /\ UNCHANGED <<contact, profile>>

SaveLinkedin(w) ==
    /\ at[w] = "linkedin"
    /\ contact' = Set(contact, target[w], "linkedin")
    /\ person' = Set(person, w, TRUE)
    /\ Step(w, "profile") /\ UNCHANGED <<down, end>>
    /\ Saving /\ UNCHANGED <<profile, fresh>>

\* A profile already found is not fetched again.
ReadProfile(w) ==
    /\ at[w] = "profile"
    /\ IF profile[target[w]] \in {"found", "mailbox"}
       THEN Decide(w, HasMailbox(target[w]), down[w])
       ELSE AskFor(w, "site") /\ Same(w)
    /\ Saving /\ UNCHANGED found

ProfileOf == [nosite |-> "not_found", unread |-> "unreachable",
              sitefacts |-> "found", sitemail |-> "mailbox"]

\* save_org_profile writes every column, whatever is there by now.
SaveProfile(w) ==
    /\ at[w] \in DOMAIN ProfileOf
    /\ profile' = Set(profile, target[w], ProfileOf[at[w]])
    /\ Decide(w, at[w] = "sitemail", down[w] \/ at[w] = "unread")
    /\ Saving /\ UNCHANGED <<contact, fresh>>

MarkNotFound(w) ==
    /\ at[w] = "miss"
    /\ contact' = Set(contact, target[w], "not_found")
    /\ FinishLookup(w, "ok")
    /\ Saving /\ UNCHANGED <<profile, fresh>>

\* The preparation run looks for the website of a lead never tried.
RefreshWebsite(w) ==
    /\ at[w] = "idle" /\ lookups < MaxLookups
    /\ lookups' = lookups + 1
    /\ mode' = Set(mode, w, "site")
    /\ \E l \in Target, retry \in BOOLEAN :
         /\ profile[l] = "none"
         /\ target' = Set(target, w, l) /\ word' = Set(word, w, retry)
         /\ key' = Set(key, w, LegacyKey(l))
    /\ GoTo(w, "profile")
    /\ UNCHANGED <<day, account, paid, asked, found, batch, before, mine, want,
                   call, person, down, end, crashes>>

---------------------------------------------------------------------------
(***************************************************************************)
(* Time, the operator and crashes.                                         *)
(***************************************************************************)
\* BOUND: while every worker is idle or about to book a call, where it is read.
NextDay ==
    /\ \A w \in Worker : at[w] \in {"idle", "open"}
    /\ day < MaxDay /\ day' = day + 1
    /\ UNCHANGED <<account, paid, asked, found, batch, at, local, lookups,
                   crashes>>

\* The window of a backoff or of the credential circuit is over.
WindowEnds ==
    /\ blocked # "none" /\ blocked' = "none"
    /\ \E w \in Worker : at[w] = "open"
    /\ UNCHANGED <<day, configured, call_limit, reserved, attempts, paid,
                   asked, found, batch, at, local, lookups, crashes>>

\* BOUND: between lookups, once something was booked under the higher limit.
LowerTheLimit ==
    /\ Quiescent /\ attempts # <<>>
    /\ configured > LowerLimit /\ configured' = LowerLimit
    /\ UNCHANGED <<day, call_limit, reserved, attempts, blocked, paid, asked,
                   found, batch, at, local, lookups, crashes>>

\* The process of a worker dies; the threads of a batch are one process.
WorkerDies(w) ==
    /\ at[w] # "idle" /\ crashes < MaxCrashes
    /\ crashes' = crashes + 1
    /\ LET dead == IF mode[w] = "batch"
                   THEN {v \in Worker : mode[v] = "batch"} ELSE {w}
           Reset(f, v) == [x \in Worker |-> IF x \in dead THEN v ELSE f[x]]
       IN /\ at' = Reset(at, "idle") /\ mode' = Reset(mode, "none")
          /\ key' = [x \in Worker |->
                        IF x \in dead THEN LegacyKey(target[x]) ELSE key[x]]
          /\ before' = Reset(before, 0) /\ mine' = Reset(mine, 0)
          /\ want' = Reset(want, "none") /\ call' = Reset(call, 0)
          /\ person' = Reset(person, FALSE) /\ down' = Reset(down, FALSE)
          /\ word' = Reset(word, FALSE) /\ end' = Reset(end, "none")
          /\ IF mode[w] = "batch"
             THEN used' = 0 /\ rung' = {} /\ batched' = 0
             ELSE UNCHANGED batch
    /\ UNCHANGED <<day, account, paid, asked, found, target, lookups>>

Lookup(w) ==
    \/ EnrichOne(w) \/ EnrichLead(w) \/ RefreshContact(w) \/ RefreshWebsite(w)
    \/ ReadPrior(w) \/ Declare(w) \/ InsertAttempt(w) \/ SettleAttempt(w)
    \/ SaveContact(w) \/ SaveFact(w) \/ SaveLinkedin(w) \/ ReadProfile(w)
    \/ SaveProfile(w) \/ MarkNotFound(w)

Post(w) ==
    \/ Claim(w) \/ LedgerRefused(w) \/ ReserveWithheld(w)
    \/ ReserveExhausted(w) \/ ReserveCall(w) \/ TakeSlot(w) \/ NoSlot(w)
    \/ Send(w) \/ Answer(w)

LookupsNext ==
    \/ \E w \in Worker : Lookup(w) \/ Post(w) \/ WorkerDies(w)
    \/ NewBatch \/ NextDay \/ WindowEnds \/ LowerTheLimit

LookupsSpec == LookupsInit /\ [][LookupsNext]_lookupsVars

---------------------------------------------------------------------------
(***************************************************************************)
(* Properties.                                                             *)
(***************************************************************************)
BooksOK ==
    /\ day \in Day /\ configured \in {MonthLimit, LowerLimit}
    /\ call_limit \in [Month -> Nat] /\ reserved \in [Month -> Nat]
    /\ attempts \in Seq(Row)
    /\ blocked \in {"none", "rate_limited", "credential"}
    /\ paid \in [Key -> Seq(PaidState)] /\ asked \subseteq Key \X Nat

FoundOK ==
    /\ contact \in [Target -> ContactRow] /\ profile \in [Target -> Profile]
    /\ fresh \subseteq Target

BatchOK == used \in 0..BatchLimit /\ rung \subseteq Target /\ batched \in Nat

LocalOK ==
    /\ mode \in [Worker -> {"none", "batch", "single", "prep", "site"}]
    /\ target \in [Worker -> Target] /\ key \in [Worker -> Key]
    /\ before \in [Worker -> Nat] /\ mine \in [Worker -> Nat]
    /\ want \in [Worker -> Kind \cup {"none", "sitepage", "mailpage"}]
    /\ call \in [Worker -> Nat]
    /\ person \in [Worker -> BOOLEAN] /\ down \in [Worker -> BOOLEAN]
    /\ word \in [Worker -> BOOLEAN]
    /\ end \in [Worker -> {"none", "ok", "outage", "stopped", "broken"}]

LookupsTypeOK ==
    /\ BooksOK /\ FoundOK /\ BatchOK /\ LocalOK
    /\ lookups \in 0..MaxLookups /\ crashes \in 0..MaxCrashes

\* The threads of one batch never send more calls than its ceiling, whatever
\* claims they give back (FirecrawlCallBudget).
BatchStaysInBudget ==
    LET open == {w \in Worker : mode[w] = "batch"
                                 /\ at[w] \in {"open", "slot", "send"}}
    IN batched + Cardinality(open) <= used /\ used <= BatchLimit

\* LookupsTypeOK; the month's counter is the number of its rows and never
\* passes the limit under which the last of them was reserved (_reserve); and
\* a batch stays within its ceiling.
EveryCallIsMetered ==
    /\ LookupsTypeOK
    /\ \A m \in Month :
         /\ reserved[m] =
              Cardinality({i \in DOMAIN attempts : attempts[i].month = m})
         /\ reserved[m] <= call_limit[m] /\ call_limit[m] <= MonthLimit
    /\ BatchStaysInBudget

\* A request that may have been executed is not sent again in its month, and a
\* lookup that may have spent or has completed is not run again, unless an
\* operator asked: whatever two workers read before each wrote, and whoever
\* died in between (_reserve, paid_calls.execute).
NothingRepeatedUnasked ==
    /\ \A i, j \in DOMAIN attempts :
         /\ i < j /\ attempts[i].req = attempts[j].req
         /\ attempts[i].month = attempts[j].month /\ ~attempts[j].asked
         /\ \A k \in i + 1..j - 1 : attempts[k].req # attempts[i].req
         => attempts[i].state \notin Unsettled
    /\ \A k \in Key : \A n \in DOMAIN paid[k] :
         n > 1 /\ <<k, n>> \notin asked => paid[k][n - 1] = "failed"

\* A lead is filed as having no contact only after its page was read, the
\* search for a person was answered and its website was looked for: no outage
\* on the way counts as an absence (enrich_lead_contact).
AbsenceIsEarned ==
    \A l \in Target : contact[l] = "not_found" =>
        /\ \A kind \in {"angle", "page", "person"} :
             \E i \in DOMAIN attempts :
                /\ attempts[i].req = <<l, kind>> /\ attempts[i].sent
                /\ attempts[i].state \in {"completed", "indeterminate"}
        /\ profile[l] # "none"

=============================================================================
