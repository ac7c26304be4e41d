------------------------------ MODULE CrmActions ------------------------------
(***************************************************************************)
(* Approved Salesforce writes: a campaign, campaign members or a contact   *)
(* record (enrich/salesforce_campaigns.py, salesforce_campaign_batch.py,   *)
(* salesforce_campaign_execution.py, salesforce_contact_records.py and     *)
(* slack/salesforce_actions.py).                                           *)
(*                                                                         *)
(* A preview is stored as an action row with one item per organization.    *)
(* A click on its card runs in its own thread: it claims the row, posts to *)
(* Salesforce in several requests and reads each result back.  A request   *)
(* may be refused before it is sent, rejected, or lost after it took       *)
(* effect; a read may lag.  An action of unknown outcome is clicked again  *)
(* to be reconciled, which only reads.  Threads meet in the database and   *)
(* in Salesforce and decide from what they read some steps ago.            *)
(***************************************************************************)
EXTENDS Integers, FiniteSets

CONSTANTS Action, NoAction,
          Human,       \* whoever else puts records on the campaign
          Lead,        \* organizations, each with one Salesforce record at most
          Handler,     \* Slack threads
          NoLead,
          Kinds,       \* the kinds of action that reps ask for, as functions
          MaxClicks,   \* BOUND: clicks on the cards
          MaxCrashes   \* BOUND: threads that die

Kind == {"unused", "members", "campaign", "contact"}

ASSUME CrmAssumption ==
    /\ NoAction \notin Action /\ Human \notin Action /\ NoAction # Human
    /\ NoLead \notin Lead /\ Lead \cap (Action \X Lead) = {}
    /\ Kinds \subseteq [Action -> Kind]
    /\ MaxClicks \in Nat /\ MaxCrashes \in Nat

\* The POSTs an action may make, each recorded as a write attempt or not.
Op == {"status", "leads", "members", "campaign", "lead", "note", "link"}

Item == Action \X Lead

\* A Salesforce record: the one an organization has, or one an item created.
Record == Lead \cup Item

VARIABLES
    kind,      \* action_type
    state,     \* of each crm_actions row
    started,   \* external_write_started
    expired,   \* the preview's time to live is over
    attempt,   \* the write attempts of each action
    returned,  \* the campaign attempt holds the id Salesforce answered with
    op,        \* operation of each crm_action_items row
    item,      \* its state
    rec,       \* its salesforce_id is set
    mem,       \* its campaign_member_id is set
    member,    \* Salesforce: who put a record on the campaign
    label,     \* Salesforce: the member status exists
    sent,      \* history: how often each POST of an action went out
    written,   \* history: the POSTs that created something
    pc, job,
    lead,      \* the organization a contact preview is prepared for
    was,       \* the row's state as loaded, then the outcome to write
    answer,    \* to a POST of one record
    todo,      \* items still to go through
    ok,        \* items the last POST created, or with a member id when read
    vis,       \* items seen on the campaign
    settled,   \* items read as final by a reconciliation
    credited,  \* items with a campaign_added outcome
    clash,     \* history: actions two threads worked on at once
    clicks, crashes

row == <<state, started, attempt, returned>>
items == <<op, item, rec, mem>>
salesforce == <<member, label, sent, written>>
task == <<job, lead>>
work == <<was, answer, todo, ok, vis, settled>>
local == <<pc, task, work>>
history == <<credited, clash, clicks, crashes>>
fixed == <<kind, expired, history>>
vars == <<fixed, row, items, salesforce, local>>

State == {"none", "ready", "committing", "complete", "partial", "unknown",
          "failed", "cancelled", "expired"}

ItemState == {"none", "ready", "lead_created", "verification_pending", "added",
              "already_present", "failed", "unknown"}

PostPc == {"status_post", "leads_post", "members_post", "campaign_post",
           "lead_post", "note_post", "link_post"}

BackPc == {"status_back", "leads_back", "members_back", "campaign_back",
           "lead_back", "note_back", "link_back"}

RowsOK ==
    /\ kind \in [Action -> Kind] /\ state \in [Action -> State]
    /\ started \in [Action -> BOOLEAN] /\ expired \subseteq Action
    /\ attempt \in [Action \X Op -> {"none", "in_flight", "response_received",
                                     "reconciled_present"}]
    /\ returned \subseteq Action

\* An organization that was left out gets no outcome.
ItemsOK ==
    /\ op \in [Item -> {"none", "existing", "create", "new_lead", "attach"}]
    /\ item \in [Item -> ItemState]
    /\ \A i \in Item : op[i] = "none" <=> item[i] = "none"
    /\ rec \subseteq Item /\ mem \subseteq Item

SalesforceOK ==
    /\ member \in [Record -> Action \cup {NoAction, Human}] /\ label \in BOOLEAN
    /\ sent \in [Action \X Op -> Nat] /\ written \subseteq Action \X Op

Point == PostPc \cup BackPc \cup
    {"idle", "lookup", "decide", "committed", "leads", "leads_in", "before",
     "present", "pend", "poll", "outcome", "write", "reply", "named",
     "campaign_in", "rec_items", "rec_poll", "rec_campaign", "rec_write",
     "close"}

\* An idle thread has no action.
LocalOK ==
    /\ pc \in [Handler -> Point] /\ job \in [Handler -> Action \cup {NoAction}]
    /\ \A h \in Handler : pc[h] = "idle" <=> job[h] = NoAction
    /\ lead \in [Handler -> Lead \cup {NoLead}] /\ was \in [Handler -> State]
    /\ answer \in [Handler -> {"none", "ok", "noid", "rejected"}]
    /\ todo \in [Handler -> SUBSET Lead] /\ ok \in [Handler -> SUBSET Lead]
    /\ vis \in [Handler -> SUBSET Lead] /\ settled \in [Handler -> SUBSET Lead]

HistoryOK ==
    /\ credited \subseteq Item /\ clash \subseteq Action
    /\ clicks \in 0..MaxClicks /\ crashes \in 0..MaxCrashes

TypeOK == RowsOK /\ ItemsOK /\ SalesforceOK /\ LocalOK /\ HistoryOK

Init ==
    /\ kind \in Kinds
    /\ state = [a \in Action |-> "none"]
    /\ started = [a \in Action |-> FALSE]
    /\ expired = {}
    /\ attempt = [x \in Action \X Op |-> "none"]
    /\ returned = {}
    /\ op = [i \in Item |-> "none"]
    /\ item = [i \in Item |-> "none"]
    /\ rec = {} /\ mem = {}
    /\ member = [r \in Record |-> NoAction]
    /\ label \in {\E a \in Action : kind[a] = "members", FALSE}
    /\ sent = [x \in Action \X Op |-> 0]
    /\ written = {}
    /\ pc = [h \in Handler |-> "idle"]
    /\ job = [h \in Handler |-> NoAction]
    /\ lead = [h \in Handler |-> NoLead]
    /\ was = [h \in Handler |-> "none"]
    /\ answer = [h \in Handler |-> "none"]
    /\ todo = [h \in Handler |-> {}]
    /\ ok = [h \in Handler |-> {}]
    /\ vis = [h \in Handler |-> {}]
    /\ settled = [h \in Handler |-> {}]
    /\ credited = {} /\ clash = {} /\ clicks = 0 /\ crashes = 0

---------------------------------------------------------------------------
Goto(h, l) == pc' = [pc EXCEPT ![h] = l]

End(h) ==
    /\ Goto(h, "idle")
    /\ job' = [job EXCEPT ![h] = NoAction]
    /\ lead' = [lead EXCEPT ![h] = NoLead]
    /\ was' = [was EXCEPT ![h] = "none"]
    /\ answer' = [answer EXCEPT ![h] = "none"]
    /\ todo' = [todo EXCEPT ![h] = {}]
    /\ ok' = [ok EXCEPT ![h] = {}]
    /\ vis' = [vis EXCEPT ![h] = {}]
    /\ settled' = [settled EXCEPT ![h] = {}]

\* The organizations of action a with one of the operations ops.
With(a, ops) == {o \in Lead : op[<<a, o>>] \in ops}
Mine(a) == With(a, {"existing", "create", "new_lead", "attach"})

RecordOf(a, o) == IF op[<<a, o>>] = "existing" THEN o ELSE <<a, o>>

OnCampaign(a, o) == member[RecordOf(a, o)] # NoAction

\* The items of action a in os get a state.
SetItems(a, os, s) ==
    item' = [i \in Item |-> IF i[1] = a /\ i[2] \in os THEN s ELSE item[i]]

Of(a, os) == {a} \X os

Finish(a, s) == state' = [state EXCEPT ![a] = s]

\* An exception left the execution: _finish_action, and no reply to credit.
Fail(h, s) ==
    /\ Finish(job[h], s)
    /\ End(h)
    /\ UNCHANGED <<fixed, started, attempt, returned, items, salesforce>>

Working(h, l) == pc[h] = l

---------------------------------------------------------------------------
(***************************************************************************)
(* Previews.                                                               *)
(***************************************************************************)
\* Any organizations of a state and its tiers, in slices; rows that might be
\* two organizations are ambiguous.
Slice == SUBSET Lead

\* What exact searches of Salesforce say of an organization.
Resolution == {"existing", "missing", "account_only", "ambiguous"}

\* One predicate decides who is in: picking one of several records, or
\* doubling an Account, is a guess.
Includable(resolution, newLeads) ==
    resolution = "existing" \/ (resolution = "missing" /\ newLeads)

\* No card unless everybody is in or the rep settles for less.
Approvable(slice, included, resolvedOnly) ==
    included # {} /\ (included = slice \/ resolvedOnly)

OperationOf(resolution) == IF resolution = "existing" THEN "existing" ELSE "create"

\* A target's action is cancelled before its card is posted when it does not
\* match the manifest, or a later target of the batch fails.
Delivered == {"ready", "cancelled"}

Store(a, ops, s) ==
    /\ op' = [i \in Item |-> IF i[1] = a THEN ops[i[2]] ELSE op[i]]
    /\ item' = [i \in Item |->
                  IF i[1] = a /\ ops[i[2]] # "none" THEN "ready" ELSE item[i]]
    /\ state' = [state EXCEPT ![a] = s]

\* One target of a batch becomes one action; who is in is decided here once.
PrepareMembers(a) ==
    /\ kind[a] = "members" /\ state[a] = "none"
    /\ \E found \in [Lead -> Resolution], slice \in Slice,
          newLeads \in BOOLEAN, resolvedOnly \in BOOLEAN, s \in Delivered :
         LET included == {o \in slice : Includable(found[o], newLeads)} IN
         /\ Approvable(slice, included, resolvedOnly)
         /\ Store(a, [o \in Lead |->
                        IF o \in included THEN OperationOf(found[o]) ELSE "none"], s)
    /\ UNCHANGED <<fixed, started, attempt, returned, rec, mem, salesforce,
                   local>>

Open == {b \in Action : kind[b] = "campaign" /\ state[b] = "ready"}

\* One ready preview at a time: expired ones are retired first, and a unique
\* index holds whatever another thread inserts meanwhile.
PrepareCampaign(a) ==
    /\ kind[a] = "campaign" /\ state[a] = "none"
    /\ state' = [b \in Action |->
                   IF b \in Open \cap expired THEN "expired"
                   ELSE IF b = a /\ Open \subseteq expired THEN "ready"
                   ELSE state[b]]
    /\ UNCHANGED <<fixed, started, attempt, returned, items, salesforce,
                   local>>

\* _rerun_guard: a lead whose last contact action may have written is refused.
Pending(o) == {b \in Action : /\ kind[b] = "contact"
                              /\ op[<<b, o>>] # "none"
                              /\ state[b] \in {"ready", "committing", "complete",
                                               "partial", "unknown"}}

\* Previews nobody clicked, which would block their lead for good.
Stale(o) == {b \in Pending(o) : state[b] = "ready" /\ b \in expired}

\* prepare_contact_record, up to its reads of Salesforce.
AskContact(h, a, o) ==
    /\ Working(h, "idle")
    /\ kind[a] = "contact" /\ state[a] = "none"
    /\ \A g \in Handler : job[g] # a
    /\ state' = [b \in Action |-> IF b \in Stale(o) THEN "expired" ELSE state[b]]
    /\ IF Pending(o) \subseteq Stale(o)
       THEN /\ Goto(h, "lookup")
            /\ job' = [job EXCEPT ![h] = a]
            /\ lead' = [lead EXCEPT ![h] = o]
       ELSE UNCHANGED <<pc, task>>
    /\ UNCHANGED <<fixed, started, attempt, returned, items, salesforce, work>>

\* _resolve_existing_record: no record, one sure record, or a refusal.
Modes == {"new_lead", "attach"}

StoreContact(h) ==
    /\ Working(h, "lookup")
    /\ \/ /\ \E how \in Modes :
               Store(job[h], [o \in Lead |-> IF o = lead[h] THEN how ELSE "none"],
                     "ready")
          /\ UNCHANGED <<started, attempt, returned, rec, mem>>
       \/ UNCHANGED <<row, items>>
    /\ End(h)
    /\ UNCHANGED <<fixed, salesforce>>

---------------------------------------------------------------------------
(***************************************************************************)
(* Clicks.                                                                 *)
(***************************************************************************)
\* The row is loaded, and everything up to the claim decides from this copy.
Click(h, a) ==
    /\ clicks < MaxClicks
    /\ Working(h, "idle")
    /\ state[a] # "none"
    /\ clicks' = clicks + 1
    /\ was' = [was EXCEPT ![h] = state[a]]
    /\ job' = [job EXCEPT ![h] = a]
    /\ Goto(h, "decide")
    /\ clash' = IF \E g \in Handler : job[g] = a THEN clash \cup {a} ELSE clash
    /\ UNCHANGED <<kind, expired, row, items, salesforce, lead, answer, todo,
                   ok, vis, settled, credited, crashes>>

Reconcilable(h) ==
    /\ kind[job[h]] \in {"members", "campaign"}
    /\ was[h] \in {"unknown", "committing"}

\* Another person, channel or token, or a payload that changed.
TurnAway(h) ==
    /\ Working(h, "decide")
    /\ End(h)
    /\ UNCHANGED <<fixed, row, items, salesforce>>

\* The row is marked without a look at what became of it meanwhile.
ExpiredClick(h) ==
    /\ Working(h, "decide")
    /\ was[h] = "ready" /\ job[h] \in expired
    /\ Fail(h, "expired")

Added(a) == {o \in Lead : item[<<a, o>>] = "added"}

\* stored_action_result: the button was used before.
Replay(h) ==
    /\ Goto(h, "reply")
    /\ ok' = [ok EXCEPT ![h] = Added(job[h])]
    /\ UNCHANGED <<state, task, was, answer, todo, vis, settled>>

\* Leads that were rejected or snoozed meanwhile: nothing is claimed.
Ineligible(h) ==
    /\ Working(h, "decide")
    /\ was[h] = "ready" /\ job[h] \notin expired /\ kind[job[h]] = "members"
    /\ Replay(h)
    /\ UNCHANGED <<fixed, started, attempt, returned, items, salesforce>>

\* Mutant of BeginCommit: an update without the state in its WHERE clause.
AnyClaim(h) ==
    /\ Working(h, "decide")
    /\ was[h] = "ready" /\ job[h] \notin expired
    /\ Finish(job[h], "committing")
    /\ Goto(h, "committed")
    /\ UNCHANGED <<fixed, started, attempt, returned, items, salesforce, task,
                   work>>

\* _begin_commit compares and sets; whoever comes second replays.
BeginCommit(h) ==
    /\ Working(h, "decide")
    /\ was[h] = "ready" /\ job[h] \notin expired
    /\ IF state[job[h]] = "ready"
       THEN /\ Finish(job[h], "committing")
            /\ Goto(h, "committed")
            /\ UNCHANGED <<task, work>>
       ELSE Replay(h)
    /\ UNCHANGED <<fixed, started, attempt, returned, items, salesforce>>

Again(h) ==
    /\ Working(h, "decide")
    /\ was[h] # "ready" /\ ~Reconcilable(h)
    /\ Replay(h)
    /\ UNCHANGED <<fixed, started, attempt, returned, items, salesforce>>

\* Every organization reported as added gets its outcome, once.
Reply(h) ==
    /\ Working(h, "reply")
    /\ credited' = IF ok[h] # {} /\ kind[job[h]] = "members"
                   THEN credited \cup Of(job[h], Added(job[h])) ELSE credited
    /\ End(h)
    /\ UNCHANGED <<kind, expired, row, items, salesforce, clash, clicks,
                   crashes>>

Cancel(a) ==
    /\ state[a] = "ready"
    /\ Finish(a, "cancelled")
    /\ UNCHANGED <<fixed, started, attempt, returned, items, salesforce,
                   local>>

---------------------------------------------------------------------------
(***************************************************************************)
(* Requests to Salesforce.                                                 *)
(***************************************************************************)
\* _begin_attempt: the row says a write has started before the POST goes out.
BeginAttempt(a, o) ==
    /\ attempt' = [attempt EXCEPT ![<<a, o>>] = "in_flight"]
    /\ started' = [started EXCEPT ![a] = TRUE]

Send(a, o, creates) ==
    /\ sent' = [sent EXCEPT ![<<a, o>>] = @ + 1]
    /\ written' = IF creates THEN written \cup {<<a, o>>} ELSE written

FinishAttempt(a, o) ==
    attempt' = [attempt EXCEPT ![<<a, o>>] = "response_received"]

Disabled(h) ==
    /\ Working(h, "committed")
    /\ Fail(h, "failed")

\* The batch's frozen selection, its mapping to items or its writer org does
\* not hold any more.
FrozenScopeRefused(h) ==
    /\ Working(h, "committed") /\ kind[job[h]] = "members"
    /\ Fail(h, "failed")

\* verify_write_scope runs before each POST, not before the first only.
Refused(h) ==
    /\ pc[h] \in PostPc
    /\ Fail(h, "failed")

\* The connection fails before or after the POST took effect.
Lost(h) ==
    /\ pc[h] \in PostPc \cup BackPc
    /\ Fail(h, "unknown")

\* A read fails: a timeout counts as unknown whatever was sent.
ReadFails(h) ==
    /\ \/ pc[h] \in {"before", "named"}
       \/ pc[h] = "committed" /\ kind[job[h]] = "members"
    /\ \/ Fail(h, "unknown")
       \/ ~started[job[h]] /\ Fail(h, "failed")

\* A POST of a single record: created, created but without an id, or rejected.
PostOne(h, o, back) ==
    /\ \E r \in {"ok", "noid", "rejected"} :
         /\ answer' = [answer EXCEPT ![h] = r]
         /\ Send(job[h], o, r # "rejected")
    /\ Goto(h, back)
    /\ UNCHANGED <<fixed, row, items, member, label, task, was, todo, ok, vis,
                   settled>>

---------------------------------------------------------------------------
(***************************************************************************)
(* Campaign members: execute_membership.                                   *)
(***************************************************************************)
\* The batch's frozen selection and writer org hold; then the status is read.
EnsureStatus(h) ==
    /\ Working(h, "committed") /\ kind[job[h]] = "members"
    /\ IF label THEN Goto(h, "leads") /\ UNCHANGED <<attempt, started>>
       ELSE Goto(h, "status_post") /\ BeginAttempt(job[h], "status")
    /\ UNCHANGED <<fixed, state, returned, items, salesforce, task, work>>

PostStatus(h) ==
    /\ Working(h, "status_post")
    /\ \E r \in {"ok", "rejected"} :
         /\ answer' = [answer EXCEPT ![h] = r]
         /\ label' = (label \/ r = "ok")
         /\ Send(job[h], "status", r = "ok")
    /\ Goto(h, "status_back")
    /\ UNCHANGED <<fixed, row, items, member, task, was, todo, ok, vis,
                   settled>>

\* The new status is read back before members are given it.
StatusBack(h) ==
    /\ Working(h, "status_back")
    /\ FinishAttempt(job[h], "status")
    /\ \/ /\ answer[h] = "rejected"
          /\ Finish(job[h], "failed") /\ End(h)
       \/ /\ answer[h] = "ok"
          /\ Finish(job[h], "unknown") /\ End(h)
       \/ /\ answer[h] = "ok"
          /\ Goto(h, "leads")
          /\ UNCHANGED <<state, task, work>>
    /\ UNCHANGED <<fixed, started, returned, items, salesforce>>

CreateLeads(h) ==
    LET new == With(job[h], {"create"}) IN
    /\ Working(h, "leads")
    /\ todo' = [todo EXCEPT ![h] = new]
    /\ ok' = [ok EXCEPT ![h] = {}]
    /\ IF new = {} THEN Goto(h, "leads_in") /\ UNCHANGED <<attempt, started>>
       ELSE Goto(h, "leads_post") /\ BeginAttempt(job[h], "leads")
    /\ UNCHANGED <<fixed, state, returned, items, salesforce, task, was, answer,
                   vis, settled>>

\* allOrNone is off: any of the records may be rejected.
PostLeads(h) ==
    /\ Working(h, "leads_post")
    /\ \E made \in SUBSET todo[h] :
         /\ ok' = [ok EXCEPT ![h] = made]
         /\ Send(job[h], "leads", made # {})
    /\ Goto(h, "leads_back")
    /\ UNCHANGED <<fixed, row, items, member, label, task, was, answer, todo,
                   vis, settled>>

LeadsBack(h) ==
    /\ Working(h, "leads_back")
    /\ FinishAttempt(job[h], "leads")
    /\ Goto(h, "leads_in")
    /\ UNCHANGED <<fixed, state, started, returned, items, salesforce, task,
                   work>>

\* One new record at a time: rejected, not readable yet, or verified.
LeadIn(h, o) ==
    LET a == job[h] IN
    /\ Working(h, "leads_in") /\ o \in todo[h]
    /\ todo' = [todo EXCEPT ![h] = @ \ {o}]
    /\ IF o \notin ok[h] THEN SetItems(a, {o}, "failed") /\ UNCHANGED <<rec,
                                                                        ok>>
       ELSE /\ rec' = rec \cup {<<a, o>>}
            /\ \/ SetItems(a, {o}, "lead_created") /\ UNCHANGED ok
               \/ SetItems(a, {o}, "unknown") /\ ok' = [ok EXCEPT ![h] = @ \ {o}]
    /\ UNCHANGED <<fixed, row, op, mem, salesforce, pc, task, was, answer, vis,
                   settled>>

\* From here ok holds the items that go on the campaign.
StoreIds(h) ==
    LET a == job[h]
        os == With(a, {"existing"}) \cup ok[h]
    IN
    /\ Working(h, "leads_in") /\ todo[h] = {}
    /\ rec' = rec \cup Of(a, os)
    /\ ok' = [ok EXCEPT ![h] = os]
    /\ Goto(h, "before")
    /\ UNCHANGED <<fixed, row, op, item, mem, salesforce, task, was, answer,
                   todo, vis, settled>>

\* A query sees some of the members there are.
Seen(a, os) == SUBSET {o \in os : OnCampaign(a, o)}

ReadBefore(h) ==
    /\ Working(h, "before")
    /\ \E v \in Seen(job[h], ok[h]) :
         /\ todo' = [todo EXCEPT ![h] = v]
         /\ ok' = [ok EXCEPT ![h] = @ \ v]
    /\ Goto(h, "present")
    /\ UNCHANGED <<fixed, row, items, salesforce, task, was, answer, vis,
                   settled>>

Credit(ours) == IF ours THEN "added" ELSE "already_present"

\* _mark_verified_member keeps the member's id with the item.
MarkVerified(a, o, s) ==
    /\ SetItems(a, {o}, s)
    /\ mem' = mem \cup {<<a, o>>}

AlreadyPresent(h, o) ==
    /\ Working(h, "present") /\ o \in todo[h]
    /\ MarkVerified(job[h], o, "already_present")
    /\ todo' = [todo EXCEPT ![h] = @ \ {o}]
    /\ UNCHANGED <<fixed, row, op, rec, salesforce, pc, task, was, answer, ok,
                   vis, settled>>

CreateMembers(h) ==
    /\ Working(h, "present") /\ todo[h] = {}
    /\ todo' = [todo EXCEPT ![h] = ok[h]]
    /\ IF ok[h] = {} THEN Goto(h, "outcome") /\ UNCHANGED <<attempt, started>>
       ELSE Goto(h, "members_post") /\ BeginAttempt(job[h], "members")
    /\ UNCHANGED <<fixed, state, returned, items, salesforce, task, was,
                   answer, ok, vis, settled>>

\* A record that is a member already is rejected as a duplicate.
PostMembers(h) ==
    LET a == job[h] IN
    /\ Working(h, "members_post")
    /\ \E made \in SUBSET {o \in todo[h] : ~OnCampaign(a, o)} :
         /\ ok' = [ok EXCEPT ![h] = made]
         /\ member' = [r \in Record |->
                         IF \E o \in made : r = RecordOf(a, o) THEN a ELSE member[r]]
         /\ Send(a, "members", made # {})
    /\ Goto(h, "members_back")
    /\ UNCHANGED <<fixed, row, items, label, task, was, answer, todo, vis,
                   settled>>

MembersBack(h) ==
    /\ Working(h, "members_back")
    /\ FinishAttempt(job[h], "members")
    /\ Goto(h, "pend")
    /\ UNCHANGED <<fixed, state, started, returned, items, salesforce, task,
                   work>>

\* One transaction marks every posted item, with the member id it was given.
Pend(h) ==
    LET a == job[h] IN
    /\ Working(h, "pend")
    /\ SetItems(a, todo[h], "verification_pending")
    /\ mem' = (mem \ Of(a, todo[h])) \cup Of(a, ok[h])
    /\ Goto(h, "poll")
    /\ UNCHANGED <<fixed, row, op, rec, salesforce, task, work>>

Poll(h) ==
    /\ Working(h, "poll")
    /\ \E v \in Seen(job[h], todo[h]) : vis' = [vis EXCEPT ![h] = v]
    /\ Goto(h, "outcome")
    /\ UNCHANGED <<fixed, row, items, salesforce, task, was, answer, todo, ok,
                   settled>>

\* Mutant of Outcome: the answer to the POST is believed without a readback.
TrustAnswer(h, o) ==
    /\ Working(h, "outcome") /\ o \in todo[h]
    /\ MarkVerified(job[h], o, Credit(o \in ok[h]))
    /\ todo' = [todo EXCEPT ![h] = @ \ {o}]
    /\ UNCHANGED <<fixed, row, op, rec, salesforce, pc, task, was, answer, ok,
                   vis, settled>>

\* Only a readback makes a member; an invisible one is unknown if it was
\* created and failed if it was rejected.
Outcome(h, o) ==
    LET a == job[h] IN
    /\ Working(h, "outcome") /\ o \in todo[h]
    /\ IF o \in vis[h]
       THEN MarkVerified(a, o, Credit(o \in ok[h]))
       ELSE /\ SetItems(a, {o}, IF o \in ok[h] THEN "unknown" ELSE "failed")
            /\ UNCHANGED mem
    /\ todo' = [todo EXCEPT ![h] = @ \ {o}]
    /\ UNCHANGED <<fixed, row, op, rec, salesforce, pc, task, was, answer, ok,
                   vis, settled>>

\* Unknown if any item is, or is still to be read; partial if any failed.
Verdict(a) ==
    LET outcome == {item[<<a, o>>] : o \in Mine(a)} IN
    IF outcome \cap {"unknown", "verification_pending"} # {} THEN "unknown"
    ELSE IF "failed" \in outcome THEN "partial" ELSE "complete"

\* _finish_membership counts the items, then writes the action's state.
Count(h) ==
    /\ pc[h] \in {"outcome", "rec_items"} /\ todo[h] = {}
    /\ was' = [was EXCEPT ![h] = Verdict(job[h])]
    /\ ok' = [ok EXCEPT ![h] = Added(job[h])]
    /\ vis' = [vis EXCEPT ![h] = {}]
    /\ settled' = [settled EXCEPT ![h] = {}]
    /\ Goto(h, IF pc[h] = "outcome" THEN "write" ELSE "rec_write")
    /\ UNCHANGED <<fixed, row, items, salesforce, task, answer, todo>>

Write(h) ==
    /\ pc[h] \in {"write", "rec_write"}
    /\ Finish(job[h], was[h])
    /\ Goto(h, IF pc[h] = "rec_write" /\ was[h] # "unknown" THEN "close" ELSE "reply")
    /\ UNCHANGED <<fixed, started, attempt, returned, items, salesforce, task,
                   work>>

---------------------------------------------------------------------------
(***************************************************************************)
(* reconcile_membership: no POST.                                          *)
(***************************************************************************)
\* The items are read once: those with a member id, and those that are final.
Reconcile(h) ==
    LET a == job[h] IN
    /\ Working(h, "decide") /\ Reconcilable(h) /\ kind[a] = "members"
    /\ todo' = [todo EXCEPT ![h] = {o \in Mine(a) : <<a, o>> \in rec}]
    /\ ok' = [ok EXCEPT ![h] = {o \in Mine(a) : <<a, o>> \in mem}]
    /\ settled' = [settled EXCEPT ![h] =
                     {o \in Mine(a) : item[<<a, o>>] \in
                                         {"failed", "already_present", "added"}}]
    /\ Goto(h, "rec_poll")
    /\ UNCHANGED <<fixed, row, items, salesforce, task, was, answer, vis>>

\* Mutant of PollAgain: items without a Salesforce id are passed over.
PollKnown(h) ==
    LET a == job[h] IN
    /\ Working(h, "rec_poll")
    /\ \E v \in Seen(a, todo[h]) : vis' = [vis EXCEPT ![h] = v]
    /\ Goto(h, "rec_items")
    /\ UNCHANGED <<fixed, row, items, salesforce, task, was, answer, todo, ok,
                   settled>>

PollAgain(h) ==
    LET a == job[h] IN
    /\ Working(h, "rec_poll")
    /\ \E v \in Seen(a, todo[h]) : vis' = [vis EXCEPT ![h] = v]
    /\ todo' = [todo EXCEPT ![h] = Mine(a)]
    /\ Goto(h, "rec_items")
    /\ UNCHANGED <<fixed, row, items, salesforce, task, was, answer, ok,
                   settled>>

\* A visible member that has an id here counts as added.
Settle(h, o) ==
    LET a == job[h] IN
    /\ Working(h, "rec_items") /\ o \in todo[h]
    /\ todo' = [todo EXCEPT ![h] = @ \ {o}]
    /\ IF o \in vis[h]
       THEN MarkVerified(a, o, Credit(o \in ok[h]))
       ELSE /\ UNCHANGED mem
            /\ IF o \in settled[h] THEN UNCHANGED item ELSE SetItems(a, {o}, "unknown")
    /\ UNCHANGED <<fixed, row, op, rec, salesforce, pc, task, was, answer, ok,
                   vis, settled>>

CloseAttempts(h) ==
    LET x == <<job[h], "members">> IN
    /\ Working(h, "close")
    /\ attempt' = [attempt EXCEPT ![x] =
                     IF @ = "in_flight" THEN "reconciled_present" ELSE @]
    /\ Goto(h, "reply")
    /\ UNCHANGED <<fixed, state, started, returned, items, salesforce, task,
                   work>>

---------------------------------------------------------------------------
(***************************************************************************)
(* A campaign: execute_campaign_creation, reconcile_campaign_creation.     *)
(***************************************************************************)
StartCampaign(h) ==
    /\ Working(h, "committed") /\ kind[job[h]] = "campaign"
    /\ BeginAttempt(job[h], "campaign")
    /\ Goto(h, "campaign_post")
    /\ UNCHANGED <<fixed, state, returned, items, salesforce, task, work>>

PostCampaign(h) ==
    /\ Working(h, "campaign_post")
    /\ PostOne(h, "campaign", "campaign_back")

\* The id Salesforce answered with is kept before anything else.
CampaignBack(h) ==
    LET a == job[h] IN
    /\ Working(h, "campaign_back")
    /\ FinishAttempt(a, "campaign")
    /\ returned' = IF answer[h] = "ok" THEN returned \cup {a} ELSE returned
    /\ Goto(h, "campaign_in")
    /\ UNCHANGED <<fixed, state, started, items, salesforce, task, work>>

\* Rejected, without an id, not visible or verified.
CampaignIn(h) ==
    /\ Working(h, "campaign_in")
    /\ \E s \in CASE answer[h] = "rejected" -> {"failed"}
                 [] answer[h] = "noid" -> {"unknown"}
                 [] OTHER -> {"unknown", "complete"} :
         Fail(h, s)

\* The returned id is read, looked up, and the finding written.
ReconcileCampaign(h) ==
    LET a == job[h] IN
    /\ Working(h, "decide") /\ Reconcilable(h) /\ kind[a] = "campaign"
    /\ answer' = [answer EXCEPT ![h] = IF a \in returned THEN "ok" ELSE "none"]
    /\ Goto(h, "rec_campaign")
    /\ UNCHANGED <<fixed, row, items, salesforce, task, was, todo, ok, vis,
                   settled>>

CampaignFound(h) ==
    /\ Working(h, "rec_campaign")
    /\ \/ Fail(h, "unknown")
       \/ answer[h] = "ok" /\ Fail(h, "complete")

---------------------------------------------------------------------------
(***************************************************************************)
(* A contact record: confirm_contact_record.                               *)
(***************************************************************************)
Attaches(a) == With(a, {"attach"}) # {}

StartContact(h) ==
    LET a == job[h] IN
    /\ Working(h, "committed") /\ kind[a] = "contact"
    /\ started' = [started EXCEPT ![a] = TRUE]
    /\ Goto(h, IF Attaches(a) THEN "note_post" ELSE "lead_post")
    /\ UNCHANGED <<fixed, state, attempt, returned, items, salesforce, task,
                   work>>

PostLead(h) == Working(h, "lead_post") /\ PostOne(h, "lead", "lead_back")

FailItem(h, s) ==
    /\ Finish(job[h], s)
    /\ SetItems(job[h], Mine(job[h]), "failed")
    /\ End(h)
    /\ UNCHANGED <<fixed, started, attempt, returned, op, rec, mem,
                   salesforce>>

LeadBack(h) ==
    LET a == job[h] IN
    /\ Working(h, "lead_back")
    /\ \/ answer[h] = "rejected" /\ FailItem(h, "failed")
       \/ answer[h] = "noid" /\ Fail(h, "unknown")
       \/ /\ answer[h] = "ok"
          /\ SetItems(a, Mine(a), "lead_created")
          /\ rec' = rec \cup Of(a, Mine(a))
          /\ Goto(h, "named")
          /\ UNCHANGED <<fixed, row, op, mem, salesforce, task, work>>

\* The new Lead is read for its name and link before the note.
ReadLead(h) ==
    /\ Working(h, "named")
    /\ Goto(h, "note_post")
    /\ UNCHANGED <<fixed, row, items, salesforce, task, work>>

\* A note is two records: itself and its link to the Lead.
PostNote(h) == Working(h, "note_post") /\ PostOne(h, "note", "note_back")

PostLink(h) == Working(h, "link_post") /\ PostOne(h, "link", "link_back")

NoteRejected(h) ==
    IF Attaches(job[h]) THEN FailItem(h, "failed") ELSE Fail(h, "partial")

NoteDone(h) ==
    LET a == job[h] IN
    /\ SetItems(a, Mine(a), "added")
    /\ rec' = rec \cup Of(a, Mine(a))
    /\ was' = [was EXCEPT ![h] = "complete"]
    /\ Goto(h, "write")
    /\ UNCHANGED <<fixed, row, op, mem, salesforce, task, answer, todo, ok,
                   vis, settled>>

NoteBack(h) ==
    /\ Working(h, "note_back")
    /\ \/ answer[h] = "rejected" /\ NoteRejected(h)
       \/ /\ answer[h] = "noid"
          /\ IF Attaches(job[h]) THEN Fail(h, "unknown") ELSE NoteDone(h)
       \/ /\ answer[h] = "ok"
          /\ Goto(h, "link_post")
          /\ UNCHANGED <<fixed, row, items, salesforce, task, work>>

LinkBack(h) ==
    /\ Working(h, "link_back")
    /\ IF answer[h] = "rejected" THEN NoteRejected(h) ELSE NoteDone(h)

---------------------------------------------------------------------------
\* A preview's time to live runs out; it matters while somebody may ask.
Expire(a) ==
    /\ a \notin expired
    /\ \/ state[a] = "ready"
       \/ \E h \in Handler : Working(h, "decide") /\ job[h] = a /\ was[h] = "ready"
    /\ expired' = expired \cup {a}
    /\ UNCHANGED <<kind, row, items, salesforce, local, history>>

\* Somebody puts a known record on the campaign by hand.
Enrol(o) ==
    /\ \E a \in Action : op[<<a, o>>] = "existing"
    /\ member[o] = NoAction
    /\ member' = [member EXCEPT ![o] = Human]
    /\ UNCHANGED <<fixed, row, items, label, sent, written, local>>

Crash(h) ==
    /\ crashes < MaxCrashes
    /\ ~Working(h, "idle")
    /\ End(h)
    /\ crashes' = crashes + 1
    /\ UNCHANGED <<kind, expired, row, items, salesforce, credited, clash,
                   clicks>>

Preview ==
    \/ \E a \in Action : PrepareMembers(a) \/ PrepareCampaign(a) \/ Cancel(a)
    \/ \E h \in Handler, a \in Action, o \in Lead : AskContact(h, a, o)
    \/ \E h \in Handler : StoreContact(h)

ClickStep(h) ==
    \/ \E a \in Action : Click(h, a)
    \/ TurnAway(h) \/ Ineligible(h) \/ ExpiredClick(h)
    \/ BeginCommit(h) \/ Again(h) \/ Reply(h)

MembersStep(h) ==
    \/ EnsureStatus(h) \/ PostStatus(h) \/ StatusBack(h)
    \/ CreateLeads(h) \/ PostLeads(h) \/ LeadsBack(h) \/ StoreIds(h)
    \/ ReadBefore(h) \/ CreateMembers(h) \/ PostMembers(h) \/ MembersBack(h)
    \/ Pend(h) \/ Poll(h) \/ Count(h) \/ Write(h)
    \/ Reconcile(h) \/ PollAgain(h) \/ CloseAttempts(h)
    \/ \E o \in Lead : \/ LeadIn(h, o) \/ AlreadyPresent(h, o) \/ Outcome(h, o)
                       \/ Settle(h, o)

CampaignStep(h) ==
    \/ StartCampaign(h) \/ PostCampaign(h) \/ CampaignBack(h) \/ CampaignIn(h)
    \/ ReconcileCampaign(h) \/ CampaignFound(h)

ContactStep(h) ==
    \/ StartContact(h) \/ PostLead(h) \/ LeadBack(h) \/ ReadLead(h)
    \/ PostNote(h) \/ NoteBack(h) \/ PostLink(h) \/ LinkBack(h)

Next ==
    \/ Preview
    \/ \E h \in Handler : \/ ClickStep(h) \/ Disabled(h) \/ FrozenScopeRefused(h)
                          \/ Refused(h) \/ Lost(h) \/ ReadFails(h)
                          \/ MembersStep(h) \/ CampaignStep(h) \/ ContactStep(h)
                          \/ Crash(h)
    \/ \E a \in Action : Expire(a)
    \/ \E o \in Lead : Enrol(o)

Spec == Init /\ [][Next]_vars

---------------------------------------------------------------------------
\* Whatever is clicked, reconciled or lost, no POST of an action goes out
\* twice (confirm_action: "retries/double-clicks cannot duplicate"); and an
\* action whose buttons are still open, or that was cancelled, has sent
\* nothing: a cancel and a confirm of one card cannot both go through.
OnlyWhatWasApproved ==
    /\ TypeOK
    /\ \A x \in Action \X Op : sent[x] <= 1
    /\ \A a \in Action : state[a] \in {"none", "ready", "cancelled"} =>
         \A o \in Op : sent[<<a, o>>] = 0

OnIt == {"added", "already_present"}

\* An item reported on the campaign is on it, whatever answers, retries and
\* late reconciliations came between; and a member this action created is
\* never written down as a failure (execute, reconcile_membership).
ItemsTellTheTruth ==
    \A a \in Action, o \in Lead : kind[a] = "members" =>
        /\ item[<<a, o>>] \in OnIt => OnCampaign(a, o)
        /\ item[<<a, o>>] = "failed" => member[RecordOf(a, o)] # a

\* As long as no two threads worked on it at once, a membership action that
\* is complete has every organization on the campaign, whatever was lost or
\* crashed and however it was reconciled.
CompleteIsWhole ==
    \A a \in Action :
        kind[a] = "members" /\ state[a] = "complete" /\ a \notin clash
            => \A o \in Mine(a) : item[<<a, o>>] \in OnIt
================================================================================
