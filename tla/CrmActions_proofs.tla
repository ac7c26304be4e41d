--------------------------- MODULE CrmActions_proofs ---------------------------
(***************************************************************************)
(* Theorems about CrmActions for any number of actions, organizations,     *)
(* threads, clicks and crashes, and any kinds of action.                   *)
(***************************************************************************)
EXTENDS CrmActions, TLAPS

\* Where a claimed action is executed, by kind.
MembersRun == {"status_post", "status_back", "leads", "leads_post", "leads_back",
               "leads_in", "before", "present", "members_post", "members_back",
               "pend", "poll", "outcome"}
CampaignRun == {"campaign_post", "campaign_back", "campaign_in"}
ContactRun == {"lead_post", "lead_back", "named", "note_post", "note_back",
               "link_post", "link_back"}
Run == {"committed"} \cup MembersRun \cup CampaignRun \cup ContactRun
Retry == {"rec_poll", "rec_items", "rec_write", "close"}

\* The places of a run from which a POST is still to come.
BeforeStatus == {"committed", "status_post"}
BeforeLeads == BeforeStatus \cup {"status_back", "leads", "leads_post"}
BeforeMembers == BeforeLeads \cup {"leads_back", "leads_in", "before", "present",
                                   "members_post"}
BeforeCampaign == {"committed", "campaign_post"}
BeforeLead == {"committed", "lead_post"}
BeforeNote == BeforeLead \cup {"lead_back", "named", "note_post"}
BeforeLink == BeforeNote \cup {"note_back", "link_post"}

Runs(h) == pc[h] \in Run

\* A thread executes what its action's kind calls for.
KindInv == \A h \in Handler :
    /\ pc[h] \in MembersRun \cup Retry => kind[job[h]] = "members"
    /\ pc[h] \in CampaignRun \cup {"rec_campaign"} => kind[job[h]] = "campaign"
    /\ pc[h] \in ContactRun \cup {"lookup"} => kind[job[h]] = "contact"

\* One thread at a time prepares or executes an action: nobody is in an action
\* that is not stored but the thread that prepares it, a run has claimed its
\* row, and no claimed row is open again.
ClaimInv ==
    /\ \A a \in Action : state[a] = "none" =>
         /\ \A o \in Lead : op[<<a, o>>] = "none"
         /\ \A h \in Handler : job[h] = a => pc[h] = "lookup"
    /\ \A h \in Handler : pc[h] = "lookup" =>
         state[job[h]] = "none" /\ lead[h] \in Lead
    /\ \A h, g \in Handler : pc[h] = "lookup" /\ job[h] = job[g] => h = g
    /\ \A h, g \in Handler : Runs(h) /\ Runs(g) /\ job[h] = job[g] => h = g
    /\ \A h \in Handler : Runs(h) =>
         state[job[h]] \notin {"none", "ready", "cancelled"}
    /\ \A h \in Handler : pc[h] \in {"write", "rec_write"} =>
         was[h] \in {"unknown", "partial", "complete"}

\* What was posted: nothing before the claim, and nothing of what a thread is
\* still to post.
SentInv ==
    /\ \A a \in Action, o \in Op : sent[<<a, o>>] <= 1
    /\ \A a \in Action : state[a] \in {"none", "ready", "cancelled"} =>
         \A o \in Op : sent[<<a, o>>] = 0
    /\ \A h \in Handler :
         /\ pc[h] \in BeforeStatus => sent[<<job[h], "status">>] = 0
         /\ pc[h] \in BeforeLeads => sent[<<job[h], "leads">>] = 0
         /\ pc[h] \in BeforeMembers => sent[<<job[h], "members">>] = 0
         /\ pc[h] \in BeforeCampaign => sent[<<job[h], "campaign">>] = 0
         /\ pc[h] \in BeforeLead => sent[<<job[h], "lead">>] = 0
         /\ pc[h] \in BeforeNote => sent[<<job[h], "note">>] = 0
         /\ pc[h] \in BeforeLink => sent[<<job[h], "link">>] = 0

\* Where a thread has organizations listed.
Listed == {"leads_post", "leads_back", "leads_in", "before", "present",
           "members_post", "members_back", "pend", "poll", "outcome"}

\* What is listed belongs to the action.
ScopeInv ==
    /\ \A a \in Action, o \in Lead : kind[a] = "members" =>
         op[<<a, o>>] \in {"none", "existing", "create"}
    /\ \A h \in Handler : pc[h] \in Listed \cup {"rec_items"} =>
         todo[h] \subseteq Mine(job[h]) /\ ok[h] \subseteq Mine(job[h])
    /\ \A h \in Handler : pc[h] = "rec_poll" => ok[h] \subseteq Mine(job[h])

\* What is on the campaign, and what a thread at work believes of it.
Failed(a, o) == item[<<a, o>>] = "failed"
ByUs(a, o) == member[RecordOf(a, o)] = a

\* Nothing has failed before the records were made; what goes on the campaign
\* has not failed; after the POST what this action put there is in ok; and
\* what a thread saw there is there.
Truth(g) ==
    /\ pc[g] \in {"committed", "status_post", "status_back", "leads"}
         /\ kind[job[g]] = "members" =>
         \A o \in Lead : ~Failed(job[g], o)
    /\ pc[g] \in Listed => \A o \in todo[g] \cup ok[g] : ~Failed(job[g], o)
    /\ pc[g] \in {"leads_post", "leads_back", "leads_in"} =>
         \A o \in Lead : op[<<job[g], o>>] = "existing" =>
                            ~Failed(job[g], o) /\ o \notin todo[g]
    /\ pc[g] = "members_post" => todo[g] = ok[g]
    /\ pc[g] \in {"members_back", "pend", "poll", "outcome"} =>
         \A o \in Lead : ByUs(job[g], o) => o \in ok[g]
    /\ pc[g] = "present" => \A o \in todo[g] : OnCampaign(job[g], o)
    /\ IF pc[g] \in {"outcome", "rec_items"}
       THEN \A o \in vis[g] : OnCampaign(job[g], o) ELSE vis[g] = {}

\* Reports are true; members are made by a POST of their action only; and
\* nothing has failed of an action that was not claimed.
TruthInv ==
    /\ ItemsTellTheTruth
    /\ \A a \in Action, r \in Record : member[r] = a => sent[<<a, "members">>] # 0
    /\ \A a \in Action :
         kind[a] = "members" /\ state[a] \in {"none", "ready", "cancelled"} =>
         \A o \in Lead : ~Failed(a, o)
    /\ \A g \in Handler : Truth(g)

\* A thread that has a membership action to itself. Every organization of the
\* action is still on one of the thread's lists or has its outcome; the row is
\* as this thread left it; and what it read as final still is.
Done(a, o) == item[<<a, o>>] \in OnIt \cup {"unknown", "failed"}
Alone(h) == job[h] \in Action \ clash /\ kind[job[h]] = "members"

Unlisted(h, o) ==
    /\ op[<<job[h], o>>] # "none" /\ o \notin todo[h] /\ ~Done(job[h], o)

Whole(h) ==
    Alone(h) =>
      /\ pc[h] = "decide" =>
           \/ was[h] = state[job[h]]
           \/ was[h] = "ready" /\ state[job[h]] = "cancelled"
      /\ Runs(h) => state[job[h]] = "committing"
      /\ pc[h] \in {"write", "rec_poll", "rec_items", "rec_write"} =>
           state[job[h]] \in {"committing", "unknown"}
      /\ pc[h] \in {"leads_post", "leads_back"} => \A o \in Lead :
           ~Unlisted(h, o) \/ op[<<job[h], o>>] = "existing"
      /\ pc[h] = "leads_in" => \A o \in Lead :
           ~Unlisted(h, o) \/ op[<<job[h], o>>] = "existing" \/ o \in ok[h]
      /\ pc[h] = "before" => \A o \in Lead :
           op[<<job[h], o>>] = "none" \/ o \in ok[h] \/ Done(job[h], o)
      /\ pc[h] = "present" => \A o \in Lead : ~Unlisted(h, o) \/ o \in ok[h]
      /\ pc[h] \in {"members_post", "members_back", "pend", "poll", "outcome",
                    "rec_items"} => \A o \in Lead : ~Unlisted(h, o)
      /\ pc[h] \in {"rec_poll", "rec_items"} =>
           \A o \in settled[h] : item[<<job[h], o>>] \in OnIt \cup {"failed"}
      /\ pc[h] \in {"write", "rec_write"} /\ was[h] = "complete" =>
           \A o \in Lead :
             op[<<job[h], o>>] # "none" => item[<<job[h], o>>] \in OnIt

WholeInv ==
    /\ \A h, g \in Handler :
         job[h] \in Action \ clash /\ job[h] = job[g] => h = g
    /\ CompleteIsWhole
    /\ \A h \in Handler : Whole(h)

CrmInv == TypeOK /\ KindInv /\ ClaimInv /\ SentInv /\ ScopeInv /\ TruthInv /\ WholeInv

---------------------------------------------------------------------------
(***************************************************************************)
(* Types.                                                                  *)
(***************************************************************************)
LEMMA EndTypes ==
    ASSUME LocalOK, NEW h \in Handler, End(h)
    PROVE  LocalOK'
BY CrmAssumption DEF LocalOK, End, Goto, Point, State

LEMMA GoTypes ==
    ASSUME LocalOK, NEW h \in Handler, NEW l \in Point \ {"idle"}, pc[h] # "idle",
           Goto(h, l), job' = job, lead' = lead
    PROVE  /\ pc' \in [Handler -> Point] /\ job' \in [Handler -> Action \cup {NoAction}]
           /\ \A g \in Handler : pc'[g] = "idle" <=> job'[g] = NoAction
           /\ lead' \in [Handler -> Lead \cup {NoLead}]
BY DEF LocalOK, Goto

\* What a step of a thread that goes on keeps typed.
WorkOK ==
    /\ was \in [Handler -> State]
    /\ answer \in [Handler -> {"none", "ok", "noid", "rejected"}]
    /\ todo \in [Handler -> SUBSET Lead] /\ ok \in [Handler -> SUBSET Lead]
    /\ vis \in [Handler -> SUBSET Lead] /\ settled \in [Handler -> SUBSET Lead]

LEMMA SetItemsTypes ==
    ASSUME ItemsOK, NEW a \in Action, NEW os, NEW s \in ItemState \ {"none"},
           \A o \in os : o \in Lead => op[<<a, o>>] # "none",
           SetItems(a, os, s), op' = op
    PROVE  /\ item' \in [Item -> ItemState]
           /\ \A i \in Item : op'[i] = "none" <=> item'[i] = "none"
BY DEF ItemsOK, SetItems, Item

\* Storing an action touches items only to make them ready.
LEMMA StoreItems ==
    ASSUME NEW a, NEW ops, NEW s, Store(a, ops, s)
    PROVE  \A b \in Action, o \in Lead :
             item'[<<b, o>>] \in {item[<<b, o>>], "ready"}
BY DEF Store, Item

\* The items of an action are those with an operation.
LEMMA MineIs ==
    ASSUME ItemsOK, NEW a \in Action
    PROVE  Mine(a) = {o \in Lead : op[<<a, o>>] # "none"}
<1>1. \A o \in Lead : <<a, o>> \in Item
  BY DEF Item
<1>2. QED
  BY <1>1 DEF ItemsOK, Mine, With

\* A thread that is at work has an action.
LEMMA BusyHasJob ==
    ASSUME LocalOK, NEW h \in Handler, pc[h] # "idle"
    PROVE  job[h] \in Action
BY DEF LocalOK

LEMMA SendTypes ==
    ASSUME SalesforceOK, NEW a \in Action, NEW o \in Op, NEW c, Send(a, o, c)
    PROVE  sent' \in [Action \X Op -> Nat] /\ written' \subseteq Action \X Op
BY DEF SalesforceOK, Send

LEMMA BeginTypes ==
    ASSUME RowsOK, NEW a \in Action, NEW o \in Op, BeginAttempt(a, o)
    PROVE  /\ started' \in [Action -> BOOLEAN]
           /\ attempt' \in [Action \X Op -> {"none", "in_flight", "response_received",
                                     "reconciled_present"}]
BY DEF RowsOK, BeginAttempt

LEMMA CountTypes ==
    ASSUME NEW a \in Action
    PROVE  /\ Verdict(a) \in {"unknown", "partial", "complete"}
           /\ Added(a) \subseteq Lead /\ Mine(a) \subseteq Lead
           /\ \A ops : With(a, ops) \subseteq Lead
           /\ \A os, v : v \in Seen(a, os) => v \subseteq os
BY DEF Verdict, Added, Mine, With, Seen

LEMMA RowsStep ==
    ASSUME TypeOK, [Next]_vars
    PROVE  RowsOK'
<1> USE DEF TypeOK, RowsOK, LocalOK, State, Finish, Op, fixed, history, row,
       items, salesforce, task, work, local, Goto, Working
<1>1. ASSUME NEW a \in Action, PrepareMembers(a)
      PROVE  RowsOK'
  BY <1>1 DEF PrepareMembers, Store, Delivered, Slice
<1>2. ASSUME NEW a \in Action, PrepareCampaign(a) \/ Cancel(a)
      PROVE  RowsOK'
  BY <1>2 DEF PrepareCampaign, Open, Cancel
<1>3. ASSUME NEW h \in Handler, NEW a \in Action, NEW o \in Lead,
             AskContact(h, a, o)
      PROVE  RowsOK'
  BY <1>3 DEF AskContact, Stale, Pending
<1>4. ASSUME NEW h \in Handler, StoreContact(h)
      PROVE  RowsOK'
  BY <1>4 DEF StoreContact, Store, Modes, End
<1>5. ASSUME NEW h \in Handler, NEW a \in Action, Click(h, a)
      PROVE  RowsOK'
  BY <1>5 DEF Click
<1>6. ASSUME NEW h \in Handler,
             TurnAway(h) \/ Ineligible(h) \/ ExpiredClick(h) \/ BeginCommit(h)
      PROVE  RowsOK'
  BY <1>6 DEF TurnAway, End, Ineligible, Replay, ExpiredClick, Fail,
     BeginCommit
<1>7. ASSUME NEW h \in Handler,
             Again(h) \/ Reply(h) \/ Disabled(h) \/ FrozenScopeRefused(h)
      PROVE  RowsOK'
  BY <1>7 DEF Again, Replay, Reply, End, Disabled, Fail, FrozenScopeRefused
<1>8. ASSUME NEW h \in Handler,
             Refused(h) \/ Lost(h) \/ ReadFails(h) \/ Crash(h)
      PROVE  RowsOK'
  BY <1>8 DEF Refused, Fail, End, Lost, ReadFails, Crash
<1>9. ASSUME NEW h \in Handler, EnsureStatus(h)
      PROVE  RowsOK'
  <2>1. kind' = kind /\ expired' = expired /\ state' = state /\ returned' = returned
    BY <1>9 DEF EnsureStatus
  <2>2. job[h] \in Action
    BY <1>9, BusyHasJob DEF EnsureStatus
  <2>3. QED
    BY <1>9, <2>1, <2>2, BeginTypes DEF EnsureStatus
<1>10. ASSUME NEW h \in Handler,
             PostStatus(h) \/ StatusBack(h) \/ CreateLeads(h) \/ PostLeads(h)
      PROVE  RowsOK'
  <2>1. CASE PostStatus(h)
    BY <2>1 DEF PostStatus
  <2>2. CASE StatusBack(h)
    BY <2>2 DEF StatusBack, End, FinishAttempt
  <2>3. CASE CreateLeads(h)
    BY <2>3 DEF CreateLeads, BeginAttempt
  <2>4. CASE PostLeads(h)
    BY <2>4 DEF PostLeads
  <2>5. QED
    BY <1>10, <2>1, <2>2, <2>3, <2>4
<1>11. ASSUME NEW h \in Handler,
             LeadsBack(h) \/ StoreIds(h) \/ ReadBefore(h) \/ CreateMembers(h)
      PROVE  RowsOK'
  <2>1. CASE LeadsBack(h)
    BY <2>1 DEF LeadsBack, FinishAttempt
  <2>2. CASE StoreIds(h)
    BY <2>2 DEF StoreIds
  <2>3. CASE ReadBefore(h)
    BY <2>3 DEF ReadBefore
  <2>4. CASE CreateMembers(h)
    BY <2>4 DEF CreateMembers, BeginAttempt
  <2>5. QED
    BY <1>11, <2>1, <2>2, <2>3, <2>4
<1>12. ASSUME NEW h \in Handler,
             PostMembers(h) \/ MembersBack(h) \/ Pend(h) \/ Poll(h)
      PROVE  RowsOK'
  BY <1>12 DEF PostMembers, MembersBack, FinishAttempt, Pend, Poll
<1>13. ASSUME NEW h \in Handler,
             Count(h) \/ Write(h) \/ Reconcile(h) \/ PollAgain(h)
      PROVE  RowsOK'
  BY <1>13 DEF Count, Write, Reconcile, PollAgain
<1>14. ASSUME NEW h \in Handler, CloseAttempts(h)
      PROVE  RowsOK'
  BY <1>14 DEF CloseAttempts
<1>15. ASSUME NEW h \in Handler, NEW o \in Lead,
             LeadIn(h, o) \/ AlreadyPresent(h, o) \/ Outcome(h, o) \/
             Settle(h, o)
      PROVE  RowsOK'
  BY <1>15 DEF LeadIn, AlreadyPresent, Outcome, Settle
<1>16. ASSUME NEW h \in Handler, StartCampaign(h)
      PROVE  RowsOK'
  BY <1>16 DEF StartCampaign, BeginAttempt
<1>17. ASSUME NEW h \in Handler, PostCampaign(h)
      PROVE  RowsOK'
  BY <1>17 DEF PostCampaign, PostOne
<1>18. ASSUME NEW h \in Handler, CampaignBack(h)
      PROVE  RowsOK'
  BY <1>18 DEF CampaignBack, FinishAttempt
<1>19. ASSUME NEW h \in Handler, CampaignIn(h)
      PROVE  RowsOK'
  BY <1>19 DEF CampaignIn, Fail, End
<1>20. ASSUME NEW h \in Handler, ReconcileCampaign(h)
      PROVE  RowsOK'
  BY <1>20 DEF ReconcileCampaign
<1>21. ASSUME NEW h \in Handler, CampaignFound(h)
      PROVE  RowsOK'
  BY <1>21 DEF CampaignFound, Fail, End
<1>22. ASSUME NEW h \in Handler,
             StartContact(h) \/ PostLead(h) \/ LeadBack(h) \/ ReadLead(h)
      PROVE  RowsOK'
  <2>1. CASE StartContact(h)
    BY <2>1 DEF StartContact
  <2>2. CASE PostLead(h)
    BY <2>2 DEF PostLead, PostOne
  <2>3. CASE LeadBack(h)
    BY <2>3 DEF LeadBack, FailItem, Fail, End
  <2>4. CASE ReadLead(h)
    BY <2>4 DEF ReadLead
  <2>5. QED
    BY <1>22, <2>1, <2>2, <2>3, <2>4
<1>23. ASSUME NEW h \in Handler,
             PostNote(h) \/ NoteBack(h) \/ PostLink(h) \/ LinkBack(h)
      PROVE  RowsOK'
  BY <1>23 DEF PostNote, PostOne, NoteBack, NoteRejected, NoteDone, FailItem,
     Fail, End, PostLink, LinkBack
<1>24. ASSUME NEW a \in Action, Expire(a)
      PROVE  RowsOK'
  BY <1>24 DEF Expire
<1>25. ASSUME NEW o \in Lead, Enrol(o)
      PROVE  RowsOK'
  BY <1>25 DEF Enrol
<1>26. CASE UNCHANGED vars
  BY <1>26 DEF vars
<1>27. QED
  BY <1>1, <1>2, <1>3, <1>4, <1>5, <1>6, <1>7, <1>8, <1>9, <1>10, <1>11,
     <1>12, <1>13, <1>14, <1>15, <1>16, <1>17, <1>18, <1>19, <1>20, <1>21,
     <1>22, <1>23, <1>24, <1>25, <1>26
     DEF Next, Preview, ClickStep, MembersStep, CampaignStep, ContactStep

LEMMA SalesforceStep ==
    ASSUME TypeOK, [Next]_vars
    PROVE  SalesforceOK'
<1> USE DEF TypeOK, SalesforceOK, LocalOK, fixed, history, row, items,
       salesforce, task, work, local, Goto, Working
<1>1. ASSUME NEW a \in Action,
             PrepareMembers(a) \/ PrepareCampaign(a) \/ Cancel(a)
      PROVE  SalesforceOK'
  BY <1>1 DEF PrepareMembers, Store, Delivered, Slice, PrepareCampaign, Open,
     Cancel
<1>2. ASSUME NEW h \in Handler, NEW a \in Action, NEW o \in Lead,
             AskContact(h, a, o)
      PROVE  SalesforceOK'
  BY <1>2 DEF AskContact, Stale, Pending
<1>3. ASSUME NEW h \in Handler, StoreContact(h)
      PROVE  SalesforceOK'
  BY <1>3 DEF StoreContact, Store, Modes, End
<1>4. ASSUME NEW h \in Handler, NEW a \in Action, Click(h, a)
      PROVE  SalesforceOK'
  BY <1>4 DEF Click
<1>5. ASSUME NEW h \in Handler,
             TurnAway(h) \/ Ineligible(h) \/ ExpiredClick(h) \/ BeginCommit(h)
      PROVE  SalesforceOK'
  BY <1>5 DEF TurnAway, End, Ineligible, Replay, ExpiredClick, Fail,
     BeginCommit
<1>6. ASSUME NEW h \in Handler,
             Again(h) \/ Reply(h) \/ Disabled(h) \/ FrozenScopeRefused(h)
      PROVE  SalesforceOK'
  BY <1>6 DEF Again, Replay, Reply, End, Disabled, Fail, FrozenScopeRefused
<1>7. ASSUME NEW h \in Handler,
             Refused(h) \/ Lost(h) \/ ReadFails(h) \/ Crash(h)
      PROVE  SalesforceOK'
  BY <1>7 DEF Refused, Fail, End, Lost, ReadFails, Crash
<1>8. ASSUME NEW h \in Handler, EnsureStatus(h)
      PROVE  SalesforceOK'
  BY <1>8 DEF EnsureStatus, BeginAttempt
<1>9. ASSUME NEW h \in Handler, PostStatus(h)
      PROVE  SalesforceOK'
  BY SendTypes, <1>9 DEF PostStatus, Op
<1>10. ASSUME NEW h \in Handler, StatusBack(h) \/ CreateLeads(h)
      PROVE  SalesforceOK'
  BY <1>10 DEF StatusBack, End, FinishAttempt, CreateLeads, BeginAttempt
<1>11. ASSUME NEW h \in Handler, PostLeads(h)
      PROVE  SalesforceOK'
  BY SendTypes, <1>11 DEF PostLeads, Op
<1>12. ASSUME NEW h \in Handler,
             LeadsBack(h) \/ StoreIds(h) \/ ReadBefore(h) \/ CreateMembers(h)
      PROVE  SalesforceOK'
  BY <1>12 DEF LeadsBack, FinishAttempt, StoreIds, ReadBefore, CreateMembers,
     BeginAttempt
<1>13. ASSUME NEW h \in Handler, PostMembers(h)
      PROVE  SalesforceOK'
  BY SendTypes, <1>13 DEF PostMembers, Op
<1>14. ASSUME NEW h \in Handler,
             MembersBack(h) \/ Pend(h) \/ Poll(h) \/ Count(h)
      PROVE  SalesforceOK'
  BY <1>14 DEF MembersBack, FinishAttempt, Pend, Poll, Count
<1>15. ASSUME NEW h \in Handler,
             Write(h) \/ Reconcile(h) \/ PollAgain(h) \/ CloseAttempts(h)
      PROVE  SalesforceOK'
  BY <1>15 DEF Write, Reconcile, PollAgain, CloseAttempts
<1>16. ASSUME NEW h \in Handler, NEW o \in Lead,
             LeadIn(h, o) \/ AlreadyPresent(h, o) \/ Outcome(h, o) \/
             Settle(h, o)
      PROVE  SalesforceOK'
  BY <1>16 DEF LeadIn, AlreadyPresent, Outcome, Settle
<1>17. ASSUME NEW h \in Handler, StartCampaign(h)
      PROVE  SalesforceOK'
  BY <1>17 DEF StartCampaign, BeginAttempt
<1>18. ASSUME NEW h \in Handler, PostCampaign(h)
      PROVE  SalesforceOK'
  BY SendTypes, <1>18 DEF PostCampaign, PostOne, Op
<1>19. ASSUME NEW h \in Handler,
             CampaignBack(h) \/ CampaignIn(h) \/ ReconcileCampaign(h) \/
             CampaignFound(h)
      PROVE  SalesforceOK'
  BY <1>19 DEF CampaignBack, FinishAttempt, CampaignIn, Fail, End,
     ReconcileCampaign, CampaignFound
<1>20. ASSUME NEW h \in Handler, StartContact(h)
      PROVE  SalesforceOK'
  BY <1>20 DEF StartContact
<1>21. ASSUME NEW h \in Handler, PostLead(h)
      PROVE  SalesforceOK'
  BY SendTypes, <1>21 DEF PostLead, PostOne, Op
<1>22. ASSUME NEW h \in Handler, LeadBack(h) \/ ReadLead(h)
      PROVE  SalesforceOK'
  BY <1>22 DEF LeadBack, FailItem, Fail, End, ReadLead
<1>23. ASSUME NEW h \in Handler, PostNote(h)
      PROVE  SalesforceOK'
  BY SendTypes, <1>23 DEF PostNote, PostOne, Op
<1>24. ASSUME NEW h \in Handler, NoteBack(h)
      PROVE  SalesforceOK'
  BY <1>24 DEF NoteBack, NoteRejected, NoteDone, FailItem, Fail, End
<1>25. ASSUME NEW h \in Handler, PostLink(h)
      PROVE  SalesforceOK'
  BY SendTypes, <1>25 DEF PostLink, PostOne, Op
<1>26. ASSUME NEW h \in Handler, LinkBack(h)
      PROVE  SalesforceOK'
  BY <1>26 DEF LinkBack, NoteRejected, NoteDone, FailItem, Fail, End
<1>27. ASSUME NEW a \in Action, Expire(a)
      PROVE  SalesforceOK'
  BY <1>27 DEF Expire
<1>28. ASSUME NEW o \in Lead, Enrol(o)
      PROVE  SalesforceOK'
  BY <1>28 DEF Enrol
<1>29. CASE UNCHANGED vars
  BY <1>29 DEF vars
<1>30. QED
  BY <1>1, <1>2, <1>3, <1>4, <1>5, <1>6, <1>7, <1>8, <1>9, <1>10, <1>11,
     <1>12, <1>13, <1>14, <1>15, <1>16, <1>17, <1>18, <1>19, <1>20, <1>21,
     <1>22, <1>23, <1>24, <1>25, <1>26, <1>27, <1>28, <1>29
     DEF Next, Preview, ClickStep, MembersStep, CampaignStep, ContactStep

LEMMA HistoryStep ==
    ASSUME TypeOK, [Next]_vars
    PROVE  HistoryOK'
<1> USE DEF TypeOK, HistoryOK, LocalOK, fixed, history, row, items,
       salesforce, task, work, local, Goto, Working
<1>1. ASSUME NEW a \in Action,
             PrepareMembers(a) \/ PrepareCampaign(a) \/ Cancel(a)
      PROVE  HistoryOK'
  BY <1>1 DEF PrepareMembers, Store, Delivered, Slice, PrepareCampaign, Open,
     Cancel
<1>2. ASSUME NEW h \in Handler, NEW a \in Action, NEW o \in Lead,
             AskContact(h, a, o)
      PROVE  HistoryOK'
  BY <1>2 DEF AskContact, Stale, Pending
<1>3. ASSUME NEW h \in Handler, StoreContact(h)
      PROVE  HistoryOK'
  BY <1>3 DEF StoreContact, Store, Modes, End
<1>4. ASSUME NEW h \in Handler, NEW a \in Action, Click(h, a)
      PROVE  HistoryOK'
  BY CrmAssumption, <1>4 DEF Click
<1>5. ASSUME NEW h \in Handler,
             TurnAway(h) \/ Ineligible(h) \/ ExpiredClick(h) \/ BeginCommit(h)
      PROVE  HistoryOK'
  BY <1>5 DEF TurnAway, End, Ineligible, Replay, ExpiredClick, Fail,
     BeginCommit
<1>6. ASSUME NEW h \in Handler, Again(h)
      PROVE  HistoryOK'
  BY <1>6 DEF Again, Replay
<1>7. ASSUME NEW h \in Handler, Reply(h)
      PROVE  HistoryOK'
  BY <1>7 DEF Reply, End, Of, Item, Added
<1>8. ASSUME NEW h \in Handler,
             Disabled(h) \/ FrozenScopeRefused(h) \/ Refused(h) \/ Lost(h)
      PROVE  HistoryOK'
  BY <1>8 DEF Disabled, Fail, End, FrozenScopeRefused, Refused, Lost
<1>9. ASSUME NEW h \in Handler, ReadFails(h)
      PROVE  HistoryOK'
  BY <1>9 DEF ReadFails, Fail, End
<1>10. ASSUME NEW h \in Handler, Crash(h)
      PROVE  HistoryOK'
  BY CrmAssumption, <1>10 DEF Crash, End
<1>11. ASSUME NEW h \in Handler,
             EnsureStatus(h) \/ PostStatus(h) \/ StatusBack(h) \/
             CreateLeads(h)
      PROVE  HistoryOK'
  BY <1>11 DEF EnsureStatus, BeginAttempt, PostStatus, StatusBack, End,
     FinishAttempt, CreateLeads
<1>12. ASSUME NEW h \in Handler,
             PostLeads(h) \/ LeadsBack(h) \/ StoreIds(h) \/ ReadBefore(h)
      PROVE  HistoryOK'
  BY <1>12 DEF PostLeads, LeadsBack, FinishAttempt, StoreIds, ReadBefore
<1>13. ASSUME NEW h \in Handler,
             CreateMembers(h) \/ PostMembers(h) \/ MembersBack(h) \/ Pend(h)
      PROVE  HistoryOK'
  BY <1>13 DEF CreateMembers, BeginAttempt, PostMembers, MembersBack,
     FinishAttempt, Pend
<1>14. ASSUME NEW h \in Handler,
             Poll(h) \/ Count(h) \/ Write(h) \/ Reconcile(h)
      PROVE  HistoryOK'
  BY <1>14 DEF Poll, Count, Write, Reconcile
<1>15. ASSUME NEW h \in Handler, PollAgain(h) \/ CloseAttempts(h)
      PROVE  HistoryOK'
  BY <1>15 DEF PollAgain, CloseAttempts
<1>16. ASSUME NEW h \in Handler, NEW o \in Lead,
             LeadIn(h, o) \/ AlreadyPresent(h, o) \/ Outcome(h, o) \/
             Settle(h, o)
      PROVE  HistoryOK'
  BY <1>16 DEF LeadIn, AlreadyPresent, Outcome, Settle
<1>17. ASSUME NEW h \in Handler,
             StartCampaign(h) \/ PostCampaign(h) \/ CampaignBack(h) \/
             CampaignIn(h)
      PROVE  HistoryOK'
  BY <1>17 DEF StartCampaign, BeginAttempt, PostCampaign, PostOne,
     CampaignBack, FinishAttempt, CampaignIn, Fail, End
<1>18. ASSUME NEW h \in Handler,
             ReconcileCampaign(h) \/ CampaignFound(h) \/ StartContact(h) \/
             PostLead(h)
      PROVE  HistoryOK'
  BY <1>18 DEF ReconcileCampaign, CampaignFound, Fail, End, StartContact,
     PostLead, PostOne
<1>19. ASSUME NEW h \in Handler,
             LeadBack(h) \/ ReadLead(h) \/ PostNote(h) \/ NoteBack(h)
      PROVE  HistoryOK'
  BY <1>19 DEF LeadBack, FailItem, Fail, End, ReadLead, PostNote, PostOne,
     NoteBack, NoteRejected, NoteDone
<1>20. ASSUME NEW h \in Handler, PostLink(h) \/ LinkBack(h)
      PROVE  HistoryOK'
  BY <1>20 DEF PostLink, PostOne, LinkBack, NoteRejected, NoteDone, FailItem,
     Fail, End
<1>21. ASSUME NEW a \in Action, Expire(a)
      PROVE  HistoryOK'
  BY <1>21 DEF Expire
<1>22. ASSUME NEW o \in Lead, Enrol(o)
      PROVE  HistoryOK'
  BY <1>22 DEF Enrol
<1>23. CASE UNCHANGED vars
  BY <1>23 DEF vars
<1>24. QED
  BY <1>1, <1>2, <1>3, <1>4, <1>5, <1>6, <1>7, <1>8, <1>9, <1>10, <1>11,
     <1>12, <1>13, <1>14, <1>15, <1>16, <1>17, <1>18, <1>19, <1>20, <1>21,
     <1>22, <1>23
     DEF Next, Preview, ClickStep, MembersStep, CampaignStep, ContactStep

LEMMA LocalStep ==
    ASSUME TypeOK, ScopeInv, [Next]_vars
    PROVE  LocalOK'
<1> USE DEF TypeOK, LocalOK, Point, PostPc, BackPc, State, fixed, history,
       row, items, salesforce, task, work, local, Goto, Working
<1>1. ASSUME NEW a \in Action,
             PrepareMembers(a) \/ PrepareCampaign(a) \/ Cancel(a)
      PROVE  LocalOK'
  BY <1>1 DEF PrepareMembers, Store, Delivered, Slice, PrepareCampaign, Open,
     Cancel
<1>2. ASSUME NEW h \in Handler, NEW a \in Action, NEW o \in Lead,
             AskContact(h, a, o)
      PROVE  LocalOK'
  BY <1>2 DEF AskContact, Stale, Pending
<1>3. ASSUME NEW h \in Handler, StoreContact(h)
      PROVE  LocalOK'
  BY <1>3 DEF StoreContact, Store, Modes, End
<1>4. ASSUME NEW h \in Handler, NEW a \in Action, Click(h, a)
      PROVE  LocalOK'
  <2>1. /\ pc[h] = "idle" /\ pc' = [pc EXCEPT ![h] = "decide"]
        /\ job' = [job EXCEPT ![h] = a] /\ was' = [was EXCEPT ![h] = state[a]]
        /\ UNCHANGED <<lead, answer, todo, ok, vis, settled>>
    BY <1>4 DEF Click
  <2>2. state[a] \in State /\ a # NoAction
    BY CrmAssumption DEF RowsOK
  <2>3. QED
    BY <2>1, <2>2
<1>5. ASSUME NEW h \in Handler, TurnAway(h)
      PROVE  LocalOK'
  BY <1>5 DEF TurnAway, End
<1>6. ASSUME NEW h \in Handler, Ineligible(h)
      PROVE  LocalOK'
  BY CountTypes, <1>6 DEF Ineligible, Replay
<1>7. ASSUME NEW h \in Handler, ExpiredClick(h)
      PROVE  LocalOK'
  BY <1>7 DEF ExpiredClick, Fail, End
<1>8. ASSUME NEW h \in Handler, BeginCommit(h) \/ Again(h)
      PROVE  LocalOK'
  BY CountTypes, <1>8 DEF BeginCommit, Replay, Again
<1>9. ASSUME NEW h \in Handler,
             Reply(h) \/ Disabled(h) \/ FrozenScopeRefused(h) \/ Refused(h)
      PROVE  LocalOK'
  BY <1>9 DEF Reply, End, Disabled, Fail, FrozenScopeRefused, Refused
<1>10. ASSUME NEW h \in Handler,
             Lost(h) \/ ReadFails(h) \/ Crash(h) \/ EnsureStatus(h)
      PROVE  LocalOK'
  <2>1. LocalOK
    OBVIOUS
  <2>2. CASE Lost(h) \/ ReadFails(h) \/ Crash(h)
    <3>1. End(h)
      BY <2>2 DEF Lost, ReadFails, Crash, Fail
    <3>2. QED
      BY <2>1, <3>1, EndTypes
  <2>3. CASE EnsureStatus(h)
    BY <2>3 DEF EnsureStatus, BeginAttempt
  <2>4. QED
    BY <1>10, <2>2, <2>3
<1>11. ASSUME NEW h \in Handler, PostStatus(h) \/ StatusBack(h)
      PROVE  LocalOK'
  BY <1>11 DEF PostStatus, StatusBack, End, FinishAttempt
<1>12. ASSUME NEW h \in Handler, CreateLeads(h)
      PROVE  LocalOK'
  BY CountTypes, <1>12 DEF CreateLeads, BeginAttempt
<1>13. ASSUME NEW h \in Handler, PostLeads(h) \/ LeadsBack(h)
      PROVE  LocalOK'
  BY <1>13 DEF PostLeads, LeadsBack, FinishAttempt
<1>14. ASSUME NEW h \in Handler, StoreIds(h) \/ ReadBefore(h)
      PROVE  LocalOK'
  BY CountTypes, <1>14 DEF StoreIds, ReadBefore
<1>15. ASSUME NEW h \in Handler,
             CreateMembers(h) \/ PostMembers(h) \/ MembersBack(h) \/ Pend(h)
      PROVE  LocalOK'
  BY <1>15 DEF CreateMembers, BeginAttempt, PostMembers, MembersBack,
     FinishAttempt, Pend
<1>16. ASSUME NEW h \in Handler, Poll(h) \/ Count(h)
      PROVE  LocalOK'
  BY CountTypes, <1>16 DEF Poll, Count
<1>17. ASSUME NEW h \in Handler, Write(h)
      PROVE  LocalOK'
  BY <1>17 DEF Write
<1>18. ASSUME NEW h \in Handler, Reconcile(h)
      PROVE  LocalOK'
  BY CountTypes, <1>18 DEF Reconcile
<1>19. ASSUME NEW h \in Handler, PollAgain(h)
      PROVE  LocalOK'
  BY CountTypes, <1>19 DEF PollAgain
<1>20. ASSUME NEW h \in Handler, CloseAttempts(h)
      PROVE  LocalOK'
  BY <1>20 DEF CloseAttempts
<1>21. ASSUME NEW h \in Handler, NEW o \in Lead,
             LeadIn(h, o) \/ AlreadyPresent(h, o) \/ Outcome(h, o) \/
             Settle(h, o)
      PROVE  LocalOK'
  BY <1>21 DEF LeadIn, AlreadyPresent, Outcome, Settle
<1>22. ASSUME NEW h \in Handler,
             StartCampaign(h) \/ PostCampaign(h) \/ CampaignBack(h) \/
             CampaignIn(h)
      PROVE  LocalOK'
  BY <1>22 DEF StartCampaign, BeginAttempt, PostCampaign, PostOne,
     CampaignBack, FinishAttempt, CampaignIn, Fail, End
<1>23. ASSUME NEW h \in Handler,
             ReconcileCampaign(h) \/ CampaignFound(h) \/ StartContact(h) \/
             PostLead(h)
      PROVE  LocalOK'
  BY <1>23 DEF ReconcileCampaign, CampaignFound, Fail, End, StartContact,
     PostLead, PostOne
<1>24. ASSUME NEW h \in Handler,
             LeadBack(h) \/ ReadLead(h) \/ PostNote(h) \/ NoteBack(h)
      PROVE  LocalOK'
  BY <1>24 DEF LeadBack, FailItem, Fail, End, ReadLead, PostNote, PostOne,
     NoteBack, NoteRejected, NoteDone
<1>25. ASSUME NEW h \in Handler, PostLink(h) \/ LinkBack(h)
      PROVE  LocalOK'
  BY <1>25 DEF PostLink, PostOne, LinkBack, NoteRejected, NoteDone, FailItem,
     Fail, End
<1>26. ASSUME NEW a \in Action, Expire(a)
      PROVE  LocalOK'
  BY <1>26 DEF Expire
<1>27. ASSUME NEW o \in Lead, Enrol(o)
      PROVE  LocalOK'
  BY <1>27 DEF Enrol
<1>28. CASE UNCHANGED vars
  BY <1>28 DEF vars
<1>29. QED
  BY <1>1, <1>2, <1>3, <1>4, <1>5, <1>6, <1>7, <1>8, <1>9, <1>10, <1>11,
     <1>12, <1>13, <1>14, <1>15, <1>16, <1>17, <1>18, <1>19, <1>20, <1>21,
     <1>22, <1>23, <1>24, <1>25, <1>26, <1>27, <1>28
     DEF Next, Preview, ClickStep, MembersStep, CampaignStep, ContactStep

LEMMA ItemsStep ==
    ASSUME TypeOK, ClaimInv, ScopeInv, [Next]_vars
    PROVE  ItemsOK'
<1> USE DEF TypeOK, ItemsOK, LocalOK, fixed, history, row, items, salesforce,
       task, work, local, Goto, Working
<1>1. ASSUME NEW a \in Action, PrepareMembers(a)
      PROVE  ItemsOK'
  BY <1>1 DEF PrepareMembers, Store, Delivered, Slice, ClaimInv, OperationOf,
     Item, ItemState
<1>2. ASSUME NEW a \in Action, PrepareCampaign(a) \/ Cancel(a)
      PROVE  ItemsOK'
  BY <1>2 DEF PrepareCampaign, Open, Cancel
<1>3. ASSUME NEW h \in Handler, NEW a \in Action, NEW o \in Lead,
             AskContact(h, a, o)
      PROVE  ItemsOK'
  BY <1>3 DEF AskContact, Stale, Pending
<1>4. ASSUME NEW h \in Handler, StoreContact(h)
      PROVE  ItemsOK'
  <2>1. job[h] \in Action /\ state[job[h]] = "none"
    BY <1>4, BusyHasJob DEF StoreContact, ClaimInv
  <2>2. \A o \in Lead : op[<<job[h], o>>] = "none"
    BY <2>1 DEF ClaimInv
  <2>3. CASE UNCHANGED items
    BY <2>3
  <2>4. ASSUME NEW how \in Modes, UNCHANGED <<rec, mem>>,
               Store(job[h], [o \in Lead |-> IF o = lead[h] THEN how ELSE "none"],
                     "ready")
        PROVE  ItemsOK'
    BY <2>1, <2>2, <2>4 DEF Store, Modes, Item, ItemState
  <2>5. QED
    BY <1>4, <2>3, <2>4 DEF StoreContact
<1>5. ASSUME NEW h \in Handler, NEW a \in Action, Click(h, a)
      PROVE  ItemsOK'
  BY <1>5 DEF Click
<1>6. ASSUME NEW h \in Handler,
             TurnAway(h) \/ Ineligible(h) \/ ExpiredClick(h) \/ BeginCommit(h)
      PROVE  ItemsOK'
  BY <1>6 DEF TurnAway, End, Ineligible, Replay, ExpiredClick, Fail,
     BeginCommit
<1>7. ASSUME NEW h \in Handler,
             Again(h) \/ Reply(h) \/ Disabled(h) \/ FrozenScopeRefused(h)
      PROVE  ItemsOK'
  BY <1>7 DEF Again, Replay, Reply, End, Disabled, Fail, FrozenScopeRefused
<1>8. ASSUME NEW h \in Handler,
             Refused(h) \/ Lost(h) \/ ReadFails(h) \/ Crash(h)
      PROVE  ItemsOK'
  BY <1>8 DEF Refused, Fail, End, Lost, ReadFails, Crash
<1>9. ASSUME NEW h \in Handler,
             EnsureStatus(h) \/ PostStatus(h) \/ StatusBack(h) \/
             CreateLeads(h)
      PROVE  ItemsOK'
  BY <1>9 DEF EnsureStatus, BeginAttempt, PostStatus, StatusBack, End,
     FinishAttempt, CreateLeads
<1>10. ASSUME NEW h \in Handler, PostLeads(h) \/ LeadsBack(h)
      PROVE  ItemsOK'
  BY <1>10 DEF PostLeads, LeadsBack, FinishAttempt
<1>11. ASSUME NEW h \in Handler, StoreIds(h)
      PROVE  ItemsOK'
  BY <1>11 DEF StoreIds, With, Of, Item
<1>12. ASSUME NEW h \in Handler,
             ReadBefore(h) \/ CreateMembers(h) \/ PostMembers(h) \/
             MembersBack(h)
      PROVE  ItemsOK'
  BY <1>12 DEF ReadBefore, CreateMembers, BeginAttempt, PostMembers,
     MembersBack, FinishAttempt
<1>13. ASSUME NEW h \in Handler, Pend(h)
      PROVE  ItemsOK'
  <2>1. job[h] \in Action /\ todo[h] \subseteq Mine(job[h]) /\ ok[h] \subseteq Lead
    BY <1>13, BusyHasJob DEF Pend, ScopeInv, Listed
  <2>2. \A o \in todo[h] : op[<<job[h], o>>] # "none"
    BY <2>1, MineIs
  <2>3. QED
    BY <1>13, <2>1, <2>2, SetItemsTypes DEF Pend, ItemState, Item, Of
<1>14. ASSUME NEW h \in Handler,
             Poll(h) \/ Count(h) \/ Write(h) \/ Reconcile(h)
      PROVE  ItemsOK'
  BY <1>14 DEF Poll, Count, Write, Reconcile
<1>15. ASSUME NEW h \in Handler, PollAgain(h) \/ CloseAttempts(h)
      PROVE  ItemsOK'
  BY <1>15 DEF PollAgain, CloseAttempts
<1>16. ASSUME NEW h \in Handler, NEW o \in Lead, LeadIn(h, o)
      PROVE  ItemsOK'
  <2>1. job[h] \in Action /\ o \in Mine(job[h])
    BY <1>16, BusyHasJob DEF LeadIn, ScopeInv, Listed
  <2>2. op[<<job[h], o>>] # "none" /\ op' = op
    BY <1>16, <2>1, MineIs DEF LeadIn
  <2>3. item' = item \/ \E s \in ItemState \ {"none"} : SetItems(job[h], {o}, s)
    BY <1>16 DEF LeadIn, MarkVerified, Credit, ItemState
  <2>4. /\ item' \in [Item -> ItemState]
        /\ \A i \in Item : op'[i] = "none" <=> item'[i] = "none"
    BY <2>1, <2>2, <2>3, SetItemsTypes
  <2>5. rec' \subseteq Item /\ mem' \subseteq Item
    BY <1>16, <2>1 DEF LeadIn, MarkVerified, Item
  <2>6. QED
    BY <2>2, <2>4, <2>5
<1>17. ASSUME NEW h \in Handler, NEW o \in Lead, AlreadyPresent(h, o)
      PROVE  ItemsOK'
  <2>1. job[h] \in Action /\ o \in Mine(job[h])
    BY <1>17, BusyHasJob DEF AlreadyPresent, ScopeInv, Listed
  <2>2. op[<<job[h], o>>] # "none" /\ op' = op
    BY <1>17, <2>1, MineIs DEF AlreadyPresent
  <2>3. item' = item \/ \E s \in ItemState \ {"none"} : SetItems(job[h], {o}, s)
    BY <1>17 DEF AlreadyPresent, MarkVerified, Credit, ItemState
  <2>4. /\ item' \in [Item -> ItemState]
        /\ \A i \in Item : op'[i] = "none" <=> item'[i] = "none"
    BY <2>1, <2>2, <2>3, SetItemsTypes
  <2>5. rec' \subseteq Item /\ mem' \subseteq Item
    BY <1>17, <2>1 DEF AlreadyPresent, MarkVerified, Item
  <2>6. QED
    BY <2>2, <2>4, <2>5
<1>18. ASSUME NEW h \in Handler, NEW o \in Lead, Outcome(h, o)
      PROVE  ItemsOK'
  <2>1. job[h] \in Action /\ o \in Mine(job[h])
    BY <1>18, BusyHasJob DEF Outcome, ScopeInv, Listed
  <2>2. op[<<job[h], o>>] # "none" /\ op' = op
    BY <1>18, <2>1, MineIs DEF Outcome
  <2>3. item' = item \/ \E s \in ItemState \ {"none"} : SetItems(job[h], {o}, s)
    BY <1>18 DEF Outcome, MarkVerified, Credit, ItemState
  <2>4. /\ item' \in [Item -> ItemState]
        /\ \A i \in Item : op'[i] = "none" <=> item'[i] = "none"
    BY <2>1, <2>2, <2>3, SetItemsTypes
  <2>5. rec' \subseteq Item /\ mem' \subseteq Item
    BY <1>18, <2>1 DEF Outcome, MarkVerified, Item
  <2>6. QED
    BY <2>2, <2>4, <2>5
<1>19. ASSUME NEW h \in Handler, NEW o \in Lead, Settle(h, o)
      PROVE  ItemsOK'
  <2>1. job[h] \in Action /\ o \in Mine(job[h])
    BY <1>19, BusyHasJob DEF Settle, ScopeInv, Listed
  <2>2. op[<<job[h], o>>] # "none" /\ op' = op
    BY <1>19, <2>1, MineIs DEF Settle
  <2>3. item' = item \/ \E s \in ItemState \ {"none"} : SetItems(job[h], {o}, s)
    BY <1>19 DEF Settle, MarkVerified, Credit, ItemState
  <2>4. /\ item' \in [Item -> ItemState]
        /\ \A i \in Item : op'[i] = "none" <=> item'[i] = "none"
    BY <2>1, <2>2, <2>3, SetItemsTypes
  <2>5. rec' \subseteq Item /\ mem' \subseteq Item
    BY <1>19, <2>1 DEF Settle, MarkVerified, Item
  <2>6. QED
    BY <2>2, <2>4, <2>5
<1>20. ASSUME NEW h \in Handler,
             StartCampaign(h) \/ PostCampaign(h) \/ CampaignBack(h) \/
             CampaignIn(h)
      PROVE  ItemsOK'
  BY <1>20 DEF StartCampaign, BeginAttempt, PostCampaign, PostOne,
     CampaignBack, FinishAttempt, CampaignIn, Fail, End
<1>21. ASSUME NEW h \in Handler,
             ReconcileCampaign(h) \/ CampaignFound(h) \/ StartContact(h) \/
             PostLead(h)
      PROVE  ItemsOK'
  BY <1>21 DEF ReconcileCampaign, CampaignFound, Fail, End, StartContact,
     PostLead, PostOne
<1>22. ASSUME NEW h \in Handler, LeadBack(h)
      PROVE  ItemsOK'
  <2>1. job[h] \in Action /\ Mine(job[h]) \subseteq Lead
    BY <1>22, BusyHasJob, CountTypes DEF LeadBack
  <2>2. \A o \in Mine(job[h]) : op[<<job[h], o>>] # "none"
    BY <2>1, MineIs
  <2>3. QED
    BY <1>22, <2>1, <2>2, SetItemsTypes DEF LeadBack, FailItem, Fail, End,
       ItemState, Item, Of
<1>23. ASSUME NEW h \in Handler, ReadLead(h) \/ PostNote(h)
      PROVE  ItemsOK'
  BY <1>23 DEF ReadLead, PostNote, PostOne
<1>24. ASSUME NEW h \in Handler, NoteBack(h)
      PROVE  ItemsOK'
  <2>1. job[h] \in Action /\ Mine(job[h]) \subseteq Lead
    BY <1>24, BusyHasJob, CountTypes DEF NoteBack
  <2>2. \A o \in Mine(job[h]) : op[<<job[h], o>>] # "none"
    BY <2>1, MineIs
  <2>3. QED
    BY <1>24, <2>1, <2>2, SetItemsTypes DEF NoteBack, NoteRejected, NoteDone,
       FailItem, Fail, End, ItemState, Item, Of
<1>25. ASSUME NEW h \in Handler, PostLink(h)
      PROVE  ItemsOK'
  BY <1>25 DEF PostLink, PostOne
<1>26. ASSUME NEW h \in Handler, LinkBack(h)
      PROVE  ItemsOK'
  <2>1. job[h] \in Action /\ Mine(job[h]) \subseteq Lead
    BY <1>26, BusyHasJob, CountTypes DEF LinkBack
  <2>2. \A o \in Mine(job[h]) : op[<<job[h], o>>] # "none"
    BY <2>1, MineIs
  <2>3. QED
    BY <1>26, <2>1, <2>2, SetItemsTypes DEF LinkBack, NoteRejected, NoteDone,
       FailItem, Fail, End, ItemState, Item, Of
<1>27. ASSUME NEW a \in Action, Expire(a)
      PROVE  ItemsOK'
  BY <1>27 DEF Expire
<1>28. ASSUME NEW o \in Lead, Enrol(o)
      PROVE  ItemsOK'
  BY <1>28 DEF Enrol
<1>29. CASE UNCHANGED vars
  BY <1>29 DEF vars
<1>30. QED
  BY <1>1, <1>2, <1>3, <1>4, <1>5, <1>6, <1>7, <1>8, <1>9, <1>10, <1>11,
     <1>12, <1>13, <1>14, <1>15, <1>16, <1>17, <1>18, <1>19, <1>20, <1>21,
     <1>22, <1>23, <1>24, <1>25, <1>26, <1>27, <1>28, <1>29
     DEF Next, Preview, ClickStep, MembersStep, CampaignStep, ContactStep

\* Threads are at the places of their action's kind.
LEMMA KindStep ==
    ASSUME TypeOK, KindInv, [Next]_vars
    PROVE  KindInv'
<1> USE DEF TypeOK, RowsOK, LocalOK, fixed, history, row, items, salesforce,
   task, work, local, KindInv, MembersRun, CampaignRun, ContactRun, Retry,
   End, Goto, Working
<1>1. CASE Preview
  BY <1>1 DEF Preview, PrepareMembers, PrepareCampaign, Cancel, AskContact,
     StoreContact, KindInv, End, Goto, Working
<1>2. ASSUME NEW h \in Handler, ClickStep(h)
      PROVE  KindInv'
  BY <1>2 DEF ClickStep, Click, TurnAway, Ineligible, ExpiredClick,
     BeginCommit, Again, Reply, Replay, Fail, KindInv, End, Goto, Working,
     MembersRun, CampaignRun, ContactRun, Retry
<1>3. ASSUME NEW h \in Handler, Disabled(h) \/ FrozenScopeRefused(h)
                          \/ Refused(h) \/ Lost(h) \/ ReadFails(h) \/ Crash(h)
      PROVE  KindInv'
  BY <1>3 DEF Disabled, FrozenScopeRefused, Refused, Lost, ReadFails, Crash,
     Fail, KindInv, End, Goto, Working
<1>4. ASSUME NEW h \in Handler, MembersStep(h)
      PROVE  KindInv'
  <2>1. CASE \/ EnsureStatus(h) \/ PostStatus(h) \/ StatusBack(h)
             \/ CreateLeads(h) \/ PostLeads(h) \/ LeadsBack(h) \/ StoreIds(h)
    BY <2>1 DEF EnsureStatus, PostStatus, StatusBack, CreateLeads, PostLeads,
       LeadsBack, StoreIds
  <2>2. CASE \/ ReadBefore(h) \/ CreateMembers(h) \/ PostMembers(h)
             \/ MembersBack(h) \/ Pend(h) \/ Poll(h) \/ Count(h) \/ Write(h)
    BY <2>2 DEF ReadBefore, CreateMembers, PostMembers, MembersBack, Pend,
       Poll, Count, Write
  <2>3. CASE Reconcile(h) \/ PollAgain(h) \/ CloseAttempts(h)
    BY <2>3 DEF Reconcile, PollAgain, CloseAttempts
  <2>4. CASE \E o \in Lead : \/ LeadIn(h, o) \/ AlreadyPresent(h, o)
                            \/ Outcome(h, o) \/ Settle(h, o)
    BY <2>4 DEF LeadIn, AlreadyPresent, Outcome, Settle
  <2>5. QED
    BY <1>4, <2>1, <2>2, <2>3, <2>4 DEF MembersStep
<1>5. ASSUME NEW h \in Handler, CampaignStep(h) \/ ContactStep(h)
      PROVE  KindInv'
  BY <1>5 DEF CampaignStep, ContactStep, StartCampaign, PostCampaign,
     CampaignBack, CampaignIn, ReconcileCampaign, CampaignFound, StartContact,
     PostLead, LeadBack, ReadLead, PostNote, NoteBack, PostLink, LinkBack,
     PostOne, NoteRejected, NoteDone, FailItem, Fail, Reconcilable, KindInv,
     End, Goto, Working, MembersRun, CampaignRun, ContactRun, Retry
<1>6. QED
  BY <1>1, <1>2, <1>3, <1>4, <1>5 DEF Next, Expire, Enrol, KindInv, vars

\* A thread ends and writes at most what its execution came to.
Closing(h) ==
    /\ op' = op /\ pc[h] # "idle" /\ End(h)
    /\ \/ state' = state
       \/ /\ pc[h] # "lookup"
          /\ \E s \in State \ {"none", "ready", "cancelled"} :
               state' = [state EXCEPT ![job[h]] = s]

LEMMA ClaimClosing ==
    ASSUME TypeOK, ClaimInv, NEW h \in Handler, Closing(h)
    PROVE  ClaimInv'
<1>1. /\ job[h] \in Action /\ pc'[h] = "idle" /\ job'[h] = NoAction
      /\ NoAction \notin Action
      /\ \A g \in Handler \ {h} : /\ pc'[g] = pc[g] /\ job'[g] = job[g]
                                  /\ was'[g] = was[g] /\ lead'[g] = lead[g]
      /\ op' = op
  BY CrmAssumption DEF Closing, End, Goto, TypeOK, LocalOK
<1>2. \A b \in Action : \/ state'[b] = state[b]
                       \/ /\ state'[b] \notin {"none", "ready", "cancelled"}
                          /\ b = job[h] /\ pc[h] # "lookup"
  BY <1>1 DEF Closing, TypeOK, RowsOK
<1>3. \A b \in Action : state'[b] \in {"none", "ready", "cancelled"} =>
        state'[b] = state[b]
  BY <1>2
<1>4. \A g \in Handler \ {h} : pc[g] = "lookup" => job[g] # job[h]
  BY DEF ClaimInv, Closing
<1>5. \A g \in Handler : pc[g] # "idle" => job[g] \in Action
  BY BusyHasJob DEF TypeOK
<1>6. (\A a \in Action : state[a] = "none" =>
         /\ \A o \in Lead : op[<<a, o>>] = "none"
         /\ \A g \in Handler : job[g] = a => pc[g] = "lookup")'
  BY <1>1, <1>3 DEF ClaimInv
<1>7. (\A g \in Handler : pc[g] = "lookup" => state[job[g]] = "none" /\ lead[g] \in Lead)'
  BY <1>1, <1>2, <1>4, <1>5 DEF ClaimInv
<1>8. /\ (\A k, g \in Handler : pc[k] = "lookup" /\ job[k] = job[g] => k = g)'
      /\ (\A k, g \in Handler : Runs(k) /\ Runs(g) /\ job[k] = job[g] => k = g)'
  BY <1>1, <1>5 DEF ClaimInv, Runs, Run, MembersRun, CampaignRun, ContactRun
<1>9. (\A g \in Handler : Runs(g) => state[job[g]] \notin {"none", "ready", "cancelled"})'
  BY <1>1, <1>3, <1>5 DEF ClaimInv, Runs, Run, MembersRun, CampaignRun,
     ContactRun
<1>10. (\A g \in Handler : pc[g] \in {"write", "rec_write"} =>
         was[g] \in {"unknown", "partial", "complete"})'
  BY <1>1 DEF ClaimInv
<1>11. QED
  BY <1>6, <1>7, <1>8, <1>9, <1>10 DEF ClaimInv

LEMMA ClaimStep ==
    ASSUME TypeOK, ClaimInv, KindInv, [Next]_vars
    PROVE  ClaimInv'
<1> USE DEF TypeOK, RowsOK, LocalOK, ClaimInv, Finish, Run, MembersRun,
       CampaignRun, ContactRun, Runs, fixed, history, row, items, salesforce,
       task, work, local, Goto, Working
<1>1. ASSUME NEW a \in Action, PrepareMembers(a)
      PROVE  ClaimInv'
  BY <1>1 DEF PrepareMembers, Store, Delivered, Slice, Item, KindInv
<1>2. ASSUME NEW a \in Action, PrepareCampaign(a)
      PROVE  ClaimInv'
  <2>1. /\ \A b \in Action :
              \/ state'[b] = state[b]
              \/ state[b] = "ready" /\ state'[b] = "expired"
              \/ b = a /\ state[b] = "none" /\ state'[b] = "ready"
        /\ UNCHANGED <<pc, job, lead, was, op>>
    BY <1>2 DEF PrepareCampaign, Open
  <2>2. \A g \in Handler : job[g] # a
    BY <1>2 DEF PrepareCampaign, KindInv
  <2>3. \A g \in Handler : pc[g] # "idle" => job[g] \in Action
    BY BusyHasJob
  <2>4. \A b \in Action : state'[b] = "none" => state[b] = "none"
    BY <2>1
  <2>5. (\A b \in Action : state[b] = "none" =>
           /\ \A o \in Lead : op[<<b, o>>] = "none"
           /\ \A g \in Handler : job[g] = b => pc[g] = "lookup")'
    BY <2>1, <2>4
  <2>6. (\A g \in Handler :
           pc[g] = "lookup" => state[job[g]] = "none" /\ lead[g] \in Lead)'
    BY <2>1, <2>2, <2>3
  <2>7. (\A g \in Handler :
           Runs(g) => state[job[g]] \notin {"none", "ready", "cancelled"})'
    BY <2>1, <2>2, <2>3
  <2>8. QED
    BY <2>1, <2>5, <2>6, <2>7
<1>3. ASSUME NEW a \in Action, Cancel(a)
      PROVE  ClaimInv'
  BY <1>3 DEF Cancel
<1>4. ASSUME NEW h \in Handler, NEW a \in Action, NEW o \in Lead,
             AskContact(h, a, o)
      PROVE  ClaimInv'
  <2>1. /\ \A b \in Action : \/ state'[b] = state[b]
                             \/ state[b] = "ready" /\ state'[b] = "expired"
        /\ pc[h] = "idle" /\ state[a] = "none" /\ state'[a] = "none" /\ op' = op
        /\ \A g \in Handler : job[g] # a
        /\ was' = was
    BY <1>4 DEF AskContact, Stale, Pending
  <2>2. \/ UNCHANGED <<pc, task>>
        \/ /\ pc' = [pc EXCEPT ![h] = "lookup"] /\ job' = [job EXCEPT ![h] = a]
           /\ lead' = [lead EXCEPT ![h] = o]
    BY <1>4 DEF AskContact
  <2>3. \A g \in Handler : pc[g] # "idle" => job[g] \in Action
    BY BusyHasJob
  <2>4. CASE UNCHANGED <<pc, task>>
    BY <2>1, <2>3, <2>4
  <2>5. CASE /\ pc' = [pc EXCEPT ![h] = "lookup"] /\ job' = [job EXCEPT ![h] = a]
             /\ lead' = [lead EXCEPT ![h] = o]
    BY <2>1, <2>3, <2>5
  <2>6. QED
    BY <2>2, <2>4, <2>5
<1>5. ASSUME NEW h \in Handler, StoreContact(h)
      PROVE  ClaimInv'
  <2>1. /\ pc[h] = "lookup" /\ End(h) /\ job[h] \in Action /\ state[job[h]] = "none"
        /\ \A g \in Handler \ {h} : job[g] # job[h]
    BY <1>5, BusyHasJob DEF StoreContact
  <2>2. CASE UNCHANGED <<row, items>>
    <3>1. Closing(h)
      BY <2>1, <2>2 DEF Closing
    <3>2. QED
      BY <3>1, ClaimClosing
  <2>3. CASE ~UNCHANGED <<row, items>>
    <3>1. PICK how \in Modes :
                 Store(job[h], [o \in Lead |-> IF o = lead[h] THEN how ELSE "none"],
                       "ready")
      BY <1>5, <2>3 DEF StoreContact
    <3>2. /\ state' = [state EXCEPT ![job[h]] = "ready"]
          /\ \A b \in Action \ {job[h]}, o \in Lead : op'[<<b, o>>] = op[<<b, o>>]
      BY <3>1 DEF Store, Item
    <3>3. /\ pc'[h] = "idle" /\ job'[h] = NoAction /\ NoAction \notin Action
          /\ \A g \in Handler \ {h} : /\ pc'[g] = pc[g] /\ job'[g] = job[g]
                                      /\ was'[g] = was[g] /\ lead'[g] = lead[g]
      BY <2>1, CrmAssumption DEF End
    <3>4. \A g \in Handler : pc[g] # "idle" => job[g] \in Action
      BY BusyHasJob
    <3>5. \A b \in Action : state'[b] = "none" => state[b] = "none" /\ b # job[h]
      BY <2>1, <3>2
    <3>6. (\A b \in Action : state[b] = "none" =>
             /\ \A o \in Lead : op[<<b, o>>] = "none"
             /\ \A g \in Handler : job[g] = b => pc[g] = "lookup")'
      BY <3>2, <3>3, <3>5
    <3>7. (\A g \in Handler :
             pc[g] = "lookup" => state[job[g]] = "none" /\ lead[g] \in Lead)'
      <4>1. \A b \in Action \ {job[h]} : state'[b] = state[b]
        BY <2>1, <3>2
      <4>2. \A g \in Handler \ {h} : pc[g] = "lookup" =>
              /\ job[g] \in Action \ {job[h]}
              /\ state[job[g]] = "none" /\ lead[g] \in Lead
        BY <2>1, <3>4
      <4>3. QED
        BY <3>3, <4>1, <4>2
    <3>8. /\ ~Runs(h)'
           /\ \A g \in Handler \ {h} : /\ Runs(g)' <=> Runs(g)
                                       /\ Runs(g) => state'[job[g]] = state[job[g]]
      <4>1. \A g \in Handler : Runs(g) => pc[g] # "idle"
        OBVIOUS
      <4>2. \A g \in Handler \ {h} : Runs(g) =>
              job[g] \in Action /\ job[g] # job[h]
        BY <2>1, <3>4, <4>1
      <4>3. \A b \in Action \ {job[h]} : state'[b] = state[b]
        BY <2>1, <3>2
      <4>4. \A g \in Handler \ {h} : Runs(g) => state'[job[g]] = state[job[g]]
        BY <4>2, <4>3
      <4>5. \A g \in Handler \ {h} : Runs(g)' <=> Runs(g)
        BY <3>3
      <4>6. ~Runs(h)'
        BY <3>3
      <4>7. QED
        BY <4>4, <4>5, <4>6
    <3>9. (\A g \in Handler :
             Runs(g) => state[job[g]] \notin {"none", "ready", "cancelled"})'
      <4>1. \A g \in Handler : Runs(g) => state[job[g]] \notin {"none", "ready", "cancelled"}
        BY DEF ClaimInv
      <4>2. QED
        BY <3>3, <3>8, <4>1
    <3>10. /\ (\A k, g \in Handler : pc[k] = "lookup" /\ job[k] = job[g] => k = g)'
          /\ (\A k, g \in Handler : Runs(k) /\ Runs(g) /\ job[k] = job[g] => k = g)'
      <4>1. (\A k, g \in Handler : pc[k] = "lookup" /\ job[k] = job[g] => k = g)'
        BY <2>1, <3>3, <3>4
      <4>2. (\A k, g \in Handler : Runs(k) /\ Runs(g) /\ job[k] = job[g] => k = g)'
        BY <3>3, <3>8
      <4>3. QED
        BY <4>1, <4>2
    <3>11. (\A g \in Handler : pc[g] \in {"write", "rec_write"} =>
             was[g] \in {"unknown", "partial", "complete"})'
      BY <3>3
    <3>12. QED
      BY <3>6, <3>7, <3>9, <3>10, <3>11
  <2>4. QED
    BY <2>2, <2>3
<1>6. ASSUME NEW h \in Handler, NEW a \in Action, Click(h, a)
      PROVE  ClaimInv'
  BY <1>6 DEF Click
<1>7. ASSUME NEW h \in Handler, TurnAway(h)
      PROVE  ClaimInv'
  <2>1. Closing(h)
    BY <1>7 DEF Closing, State, PostPc, BackPc, TurnAway
  <2>2. QED
    BY <2>1, ClaimClosing
<1>8. ASSUME NEW h \in Handler, Ineligible(h)
      PROVE  ClaimInv'
  BY <1>8 DEF Ineligible, Replay
<1>9. ASSUME NEW h \in Handler, ExpiredClick(h)
      PROVE  ClaimInv'
  <2>1. Closing(h)
    BY <1>9 DEF Closing, State, PostPc, BackPc, ExpiredClick, Fail
  <2>2. QED
    BY <2>1, ClaimClosing
<1>10. ASSUME NEW h \in Handler, BeginCommit(h) \/ Again(h)
      PROVE  ClaimInv'
  <2>1. CASE BeginCommit(h)
    <3>1. CASE state[job[h]] = "ready"
      <4>1. /\ pc[h] = "decide" /\ pc' = [pc EXCEPT ![h] = "committed"]
            /\ state' = [state EXCEPT ![job[h]] = "committing"]
            /\ job[h] \in Action /\ UNCHANGED <<op, job, lead, was>>
        BY <2>1, <3>1 DEF BeginCommit
      <4>2. \A g \in Handler : Runs(g) => job[g] # job[h]
        BY <3>1
      <4>3. \A g \in Handler \ {h} : pc'[g] = pc[g]
        BY <4>1
      <4>4. QED
        BY <3>1, <4>1, <4>2, <4>3
    <3>2. CASE state[job[h]] # "ready"
      BY <2>1, <3>2 DEF BeginCommit, Replay
    <3>3. QED
      BY <3>1, <3>2
  <2>2. CASE Again(h)
    BY <2>2 DEF Replay, Again
  <2>3. QED
    BY <1>10, <2>1, <2>2
<1>11. ASSUME NEW h \in Handler, Reply(h)
      PROVE  ClaimInv'
  <2>1. Closing(h)
    BY <1>11 DEF Closing, State, PostPc, BackPc, Reply
  <2>2. QED
    BY <2>1, ClaimClosing
<1>12. ASSUME NEW h \in Handler, Disabled(h)
      PROVE  ClaimInv'
  <2>1. Closing(h)
    BY <1>12 DEF Closing, State, PostPc, BackPc, Disabled, Fail
  <2>2. QED
    BY <2>1, ClaimClosing
<1>13. ASSUME NEW h \in Handler, FrozenScopeRefused(h)
      PROVE  ClaimInv'
  <2>1. Closing(h)
    BY <1>13 DEF Closing, State, PostPc, BackPc, FrozenScopeRefused, Fail
  <2>2. QED
    BY <2>1, ClaimClosing
<1>14. ASSUME NEW h \in Handler, Refused(h)
      PROVE  ClaimInv'
  <2>1. Closing(h)
    BY <1>14 DEF Closing, State, PostPc, BackPc, Refused, Fail
  <2>2. QED
    BY <2>1, ClaimClosing
<1>15. ASSUME NEW h \in Handler, Lost(h)
      PROVE  ClaimInv'
  <2>1. Closing(h)
    BY <1>15 DEF Closing, State, PostPc, BackPc, Lost, Fail
  <2>2. QED
    BY <2>1, ClaimClosing
<1>16. ASSUME NEW h \in Handler, ReadFails(h)
      PROVE  ClaimInv'
  <2>1. Closing(h)
    BY <1>16 DEF Closing, State, PostPc, BackPc, ReadFails, Fail
  <2>2. QED
    BY <2>1, ClaimClosing
<1>17. ASSUME NEW h \in Handler, Crash(h)
      PROVE  ClaimInv'
  <2>1. Closing(h)
    BY <1>17 DEF Closing, State, PostPc, BackPc, Crash
  <2>2. QED
    BY <2>1, ClaimClosing
<1>18. ASSUME NEW h \in Handler, EnsureStatus(h)
      PROVE  ClaimInv'
  <2>1. /\ pc[h] = "committed" /\ UNCHANGED <<state, op, job, lead, was>>
        /\ pc' = [pc EXCEPT ![h] = "leads"] \/ pc' = [pc EXCEPT ![h] = "status_post"]
    BY <1>18 DEF EnsureStatus, BeginAttempt
  <2>2. QED
    BY <2>1
<1>19. ASSUME NEW h \in Handler, PostStatus(h)
      PROVE  ClaimInv'
  BY <1>19 DEF PostStatus
<1>20. ASSUME NEW h \in Handler, StatusBack(h)
      PROVE  ClaimInv'
  <2>1. CASE End(h)
    <3>1. Closing(h)
      BY <1>20, <2>1 DEF Closing, State, StatusBack, FinishAttempt
    <3>2. QED
      BY <3>1, ClaimClosing
  <2>2. CASE ~End(h)
    BY <1>20, <2>2 DEF StatusBack, FinishAttempt
  <2>3. QED
    BY <2>1, <2>2
<1>21. ASSUME NEW h \in Handler,
             CreateLeads(h) \/ PostLeads(h) \/ LeadsBack(h) \/ StoreIds(h)
      PROVE  ClaimInv'
  BY <1>21 DEF CreateLeads, BeginAttempt, PostLeads, LeadsBack,
     FinishAttempt, StoreIds
<1>22. ASSUME NEW h \in Handler,
             ReadBefore(h) \/ CreateMembers(h) \/ PostMembers(h) \/
             MembersBack(h)
      PROVE  ClaimInv'
  <2>1. CASE ReadBefore(h)
    BY <2>1 DEF ReadBefore
  <2>2. CASE CreateMembers(h)
    BY <2>2 DEF CreateMembers, BeginAttempt
  <2>3. CASE PostMembers(h)
    BY <2>3 DEF PostMembers
  <2>4. CASE MembersBack(h)
    BY <2>4 DEF MembersBack, FinishAttempt
  <2>5. QED
    BY <1>22, <2>1, <2>2, <2>3, <2>4
<1>23. ASSUME NEW h \in Handler, Pend(h) \/ Poll(h)
      PROVE  ClaimInv'
  BY <1>23 DEF Pend, Poll
<1>24. ASSUME NEW h \in Handler, Count(h)
      PROVE  ClaimInv'
  BY CountTypes, <1>24 DEF Count
<1>25. ASSUME NEW h \in Handler,
             Write(h) \/ Reconcile(h) \/ PollAgain(h) \/ CloseAttempts(h)
      PROVE  ClaimInv'
  <2>1. CASE Write(h)
    BY <2>1 DEF Write
  <2>2. CASE Reconcile(h)
    BY <2>2 DEF Reconcile
  <2>3. CASE PollAgain(h)
    BY <2>3 DEF PollAgain
  <2>4. CASE CloseAttempts(h)
    BY <2>4 DEF CloseAttempts
  <2>5. QED
    BY <1>25, <2>1, <2>2, <2>3, <2>4
<1>26. ASSUME NEW h \in Handler, NEW o \in Lead,
             LeadIn(h, o) \/ AlreadyPresent(h, o) \/ Outcome(h, o) \/
             Settle(h, o)
      PROVE  ClaimInv'
  BY <1>26 DEF LeadIn, AlreadyPresent, Outcome, Settle
<1>27. ASSUME NEW h \in Handler,
             StartCampaign(h) \/ PostCampaign(h) \/ CampaignBack(h)
      PROVE  ClaimInv'
  <2>1. CASE StartCampaign(h)
    BY <2>1 DEF StartCampaign, BeginAttempt
  <2>2. CASE PostCampaign(h)
    BY <2>2 DEF PostCampaign, PostOne
  <2>3. CASE CampaignBack(h)
    BY <2>3 DEF CampaignBack, FinishAttempt
  <2>4. QED
    BY <1>27, <2>1, <2>2, <2>3
<1>28. ASSUME NEW h \in Handler, CampaignIn(h)
      PROVE  ClaimInv'
  <2>1. Closing(h)
    BY <1>28 DEF Closing, State, PostPc, BackPc, CampaignIn, Fail
  <2>2. QED
    BY <2>1, ClaimClosing
<1>29. ASSUME NEW h \in Handler, ReconcileCampaign(h)
      PROVE  ClaimInv'
  BY <1>29 DEF ReconcileCampaign
<1>30. ASSUME NEW h \in Handler, CampaignFound(h)
      PROVE  ClaimInv'
  <2>1. Closing(h)
    BY <1>30 DEF Closing, State, PostPc, BackPc, CampaignFound, Fail
  <2>2. QED
    BY <2>1, ClaimClosing
<1>31. ASSUME NEW h \in Handler, StartContact(h) \/ PostLead(h)
      PROVE  ClaimInv'
  BY <1>31 DEF StartContact, PostLead, PostOne
<1>32. ASSUME NEW h \in Handler, LeadBack(h)
      PROVE  ClaimInv'
  <2>1. CASE End(h)
    <3>1. Closing(h)
      BY <1>32, <2>1 DEF Closing, State, LeadBack, FailItem, Fail
    <3>2. QED
      BY <3>1, ClaimClosing
  <2>2. CASE ~End(h)
    BY <1>32, <2>2 DEF LeadBack, FailItem, Fail
  <2>3. QED
    BY <2>1, <2>2
<1>33. ASSUME NEW h \in Handler, ReadLead(h) \/ PostNote(h)
      PROVE  ClaimInv'
  BY <1>33 DEF ReadLead, PostNote, PostOne
<1>34. ASSUME NEW h \in Handler, NoteBack(h)
      PROVE  ClaimInv'
  <2>1. CASE End(h)
    <3>1. Closing(h)
      BY <1>34, <2>1 DEF Closing, State, NoteBack, NoteRejected, NoteDone,
         FailItem, Fail
    <3>2. QED
      BY <3>1, ClaimClosing
  <2>2. CASE ~End(h)
    <3>1. ~NoteRejected(h) /\ ~Fail(h, "unknown")
      BY <2>2 DEF NoteRejected, FailItem, Fail
    <3>2. /\ Working(h, "note_back")
          /\ \/ NoteDone(h)
             \/ /\ Goto(h, "link_post")
                /\ UNCHANGED <<fixed, row, items, salesforce, task, work>>
      BY <1>34, <3>1 DEF NoteBack
    <3>3. CASE NoteDone(h)
      BY <3>2, <3>3 DEF NoteDone
    <3>4. CASE ~NoteDone(h)
      BY <3>2, <3>4
    <3>5. QED
      BY <3>3, <3>4
  <2>3. QED
    BY <2>1, <2>2
<1>35. ASSUME NEW h \in Handler, PostLink(h)
      PROVE  ClaimInv'
  BY <1>35 DEF PostLink, PostOne
<1>36. ASSUME NEW h \in Handler, LinkBack(h)
      PROVE  ClaimInv'
  <2>1. CASE answer[h] = "rejected"
    <3>1. Closing(h)
      BY <1>36, <2>1 DEF Closing, State, LinkBack, NoteRejected, FailItem, Fail
    <3>2. QED
      BY <3>1, ClaimClosing
  <2>2. CASE answer[h] # "rejected"
    <3>1. /\ pc[h] = "link_back" /\ pc' = [pc EXCEPT ![h] = "write"]
          /\ was' = [was EXCEPT ![h] = "complete"]
          /\ UNCHANGED <<job, lead, op, state>>
      BY <1>36, <2>2 DEF LinkBack, NoteDone
    <3>2. QED
      BY <3>1
  <2>3. QED
    BY <2>1, <2>2
<1>37. ASSUME NEW a \in Action, Expire(a)
      PROVE  ClaimInv'
  BY <1>37 DEF Expire
<1>38. ASSUME NEW o \in Lead, Enrol(o)
      PROVE  ClaimInv'
  BY <1>38 DEF Enrol
<1>39. CASE UNCHANGED vars
  BY <1>39 DEF vars
<1>40. QED
  BY <1>1, <1>2, <1>3, <1>4, <1>5, <1>6, <1>7, <1>8, <1>9, <1>10, <1>11,
     <1>12, <1>13, <1>14, <1>15, <1>16, <1>17, <1>18, <1>19, <1>20, <1>21,
     <1>22, <1>23, <1>24, <1>25, <1>26, <1>27, <1>28, <1>29, <1>30, <1>31,
     <1>32, <1>33, <1>34, <1>35, <1>36, <1>37, <1>38, <1>39
     DEF Next, Preview, ClickStep, MembersStep, CampaignStep, ContactStep


---------------------------------------------------------------------------
(***************************************************************************)
(* What was posted.                                                        *)
(***************************************************************************)
Unsent == {"none", "ready", "cancelled"}

\* From l no POST is to come that was not to come from p.
Later(p, l) ==
    /\ l \in BeforeStatus => p \in BeforeStatus
    /\ l \in BeforeLeads => p \in BeforeLeads
    /\ l \in BeforeMembers => p \in BeforeMembers
    /\ l \in BeforeCampaign => p \in BeforeCampaign
    /\ l \in BeforeLead => p \in BeforeLead
    /\ l \in BeforeNote => p \in BeforeNote
    /\ l \in BeforeLink => p \in BeforeLink

Far(l) == l \notin BeforeMembers \cup BeforeCampaign \cup BeforeLink

\* A thread comes no nearer to a POST than it was, unless nothing was sent.
Onward(g) ==
    \/ job'[g] = job[g] /\ Later(pc[g], pc'[g])
    \/ Far(pc'[g])
    \/ job'[g] \in Action /\ state[job'[g]] \in Unsent

\* No action is opened again that may have sent something.
Wary == \A a \in Action : state'[a] \in Unsent => state[a] \in Unsent

Quiet == sent' = sent /\ Wary /\ \A g \in Handler : Onward(g)

LEMMA LaterSame == \A p : Later(p, p)
BY DEF Later

LEMMA NearIsRun ==
    /\ \A l : l \in BeforeMembers \cup BeforeCampaign \cup BeforeLink => l \in Run
    /\ "committed" \in Run
    /\ BeforeStatus \subseteq BeforeMembers /\ BeforeLeads \subseteq BeforeMembers
    /\ BeforeLead \subseteq BeforeLink /\ BeforeNote \subseteq BeforeLink
BY DEF BeforeStatus, BeforeLeads, BeforeMembers, BeforeCampaign, BeforeLead,
   BeforeNote, BeforeLink, Run, MembersRun, CampaignRun, ContactRun

\* What one thread may still post.
Unposted(g) ==
    /\ pc[g] \in BeforeStatus => sent[<<job[g], "status">>] = 0
    /\ pc[g] \in BeforeLeads => sent[<<job[g], "leads">>] = 0
    /\ pc[g] \in BeforeMembers => sent[<<job[g], "members">>] = 0
    /\ pc[g] \in BeforeCampaign => sent[<<job[g], "campaign">>] = 0
    /\ pc[g] \in BeforeLead => sent[<<job[g], "lead">>] = 0
    /\ pc[g] \in BeforeNote => sent[<<job[g], "note">>] = 0
    /\ pc[g] \in BeforeLink => sent[<<job[g], "link">>] = 0

LEMMA UnpostedIs ==
    SentInv <=> /\ \A a \in Action, o \in Op : sent[<<a, o>>] <= 1
                /\ \A a \in Action : state[a] \in Unsent =>
                     \A o \in Op : sent[<<a, o>>] = 0
                /\ \A h \in Handler : Unposted(h)
BY DEF SentInv, Unposted, Unsent

LEMMA QuietKeeps ==
    ASSUME TypeOK, SentInv, Quiet
    PROVE  SentInv'
<1>1. sent' = sent /\ Wary /\ \A g \in Handler : Onward(g)
  BY DEF Quiet
<1>2. (\A a \in Action, o \in Op : sent[<<a, o>>] <= 1)'
  BY <1>1 DEF SentInv
<1>3. (\A a \in Action : state[a] \in Unsent => \A o \in Op : sent[<<a, o>>] = 0)'
  BY <1>1, UnpostedIs DEF Wary, Unsent
<1>4. ASSUME NEW g \in Handler
      PROVE  Unposted(g)'
  <2>1. CASE job'[g] = job[g] /\ Later(pc[g], pc'[g])
    BY <1>1, <2>1, UnpostedIs DEF Unposted, Later
  <2>2. CASE Far(pc'[g])
    BY <2>2, NearIsRun DEF Far, Unposted
  <2>3. CASE job'[g] \in Action /\ state[job'[g]] \in Unsent
    <3>1. \A o \in Op : sent'[<<job'[g], o>>] = 0
      BY <1>1, <2>3, UnpostedIs
    <3>2. QED
      BY <3>1 DEF Unposted, Op
  <2>4. QED
    BY <1>1, <2>1, <2>2, <2>3 DEF Onward
<1>5. QED
  BY <1>2, <1>3, <1>4, UnpostedIs DEF SentInv, Unsent, Unposted

\* A thread of a run posts.
Posts(h, o) ==
    /\ o \in Op /\ pc[h] \in Run /\ sent[<<job[h], o>>] = 0
    /\ sent' = [sent EXCEPT ![<<job[h], o>>] = @ + 1]
    /\ state' = state /\ job' = job
    /\ \A g \in Handler \ {h} : pc'[g] = pc[g]
    /\ Later(pc[h], pc'[h])
    /\ o = "status" => pc'[h] \notin BeforeStatus
    /\ o = "leads" => pc'[h] \notin BeforeLeads
    /\ o = "members" => pc'[h] \notin BeforeMembers
    /\ o = "campaign" => pc'[h] \notin BeforeCampaign
    /\ o = "lead" => pc'[h] \notin BeforeLead
    /\ o = "note" => pc'[h] \notin BeforeNote
    /\ o = "link" => pc'[h] \notin BeforeLink

LEMMA PostKeeps ==
    ASSUME TypeOK, ClaimInv, SentInv, NEW h \in Handler, NEW o \in Op, Posts(h, o)
    PROVE  SentInv'
<1>0. job[h] \in Action /\ Runs(h)
  BY BusyHasJob DEF Posts, TypeOK, Runs, Run, MembersRun, CampaignRun,
     ContactRun
<1>1. \A a \in Action, x \in Op :
         sent'[<<a, x>>] = IF a = job[h] /\ x = o THEN 1 ELSE sent[<<a, x>>]
  BY <1>0 DEF Posts, TypeOK, SalesforceOK
<1>2. ASSUME NEW a \in Action, NEW x \in Op
      PROVE  sent'[<<a, x>>] <= 1
  BY <1>1, UnpostedIs
<1>3. ASSUME NEW a \in Action, state'[a] \in Unsent, NEW x \in Op
      PROVE  sent'[<<a, x>>] = 0
  <2>1. a # job[h] /\ sent[<<a, x>>] = 0
    BY <1>0, <1>3, UnpostedIs DEF ClaimInv, Posts, Unsent
  <2>2. QED
    BY <1>1, <2>1
<1>4. \A g \in Handler \ {h} : Runs(g) => job[g] # job[h]
  BY <1>0 DEF ClaimInv
<1>5. ASSUME NEW g \in Handler
      PROVE  Unposted(g)'
  <2>1. CASE g # h
    <3>1. pc'[g] = pc[g] /\ job'[g] = job[g] /\ Unposted(g)
      BY <2>1, UnpostedIs DEF Posts
    <3>2. CASE ~Runs(g)
      <4>1. Far(pc'[g])
        BY <3>1, <3>2, NearIsRun DEF Far, Runs
      <4>2. QED
        BY <4>1, NearIsRun DEF Far, Unposted
    <3>3. CASE Runs(g)
      <4>1. job[g] \in Action
        BY <3>3, BusyHasJob DEF TypeOK, Runs, Run, MembersRun, CampaignRun,
           ContactRun
      <4>2. \A x \in Op : sent'[<<job[g], x>>] = sent[<<job[g], x>>]
        BY <1>1, <1>4, <2>1, <3>3, <4>1
      <4>3. QED
        BY <3>1, <4>2 DEF Unposted, Op
    <3>4. QED
      BY <3>2, <3>3
  <2>2. CASE g = h
    <3>1. job'[h] = job[h] /\ Later(pc[h], pc'[h]) /\ Unposted(h)
      BY UnpostedIs DEF Posts
    <3>2. \A x \in Op \ {o} : sent'[<<job[h], x>>] = sent[<<job[h], x>>]
      BY <1>0, <1>1
    <3>3. QED
      BY <2>2, <3>1, <3>2 DEF Posts, Later, Unposted, Op
  <2>3. QED
    BY <2>1, <2>2
<1>6. QED
  BY <1>2, <1>3, <1>5, UnpostedIs DEF SentInv, Unsent, Unposted

LEMMA WaryStep ==
    ASSUME TypeOK, ClaimInv, [Next]_vars
    PROVE  Wary
<1> USE DEF TypeOK, RowsOK, LocalOK, Finish, Wary, Unsent, fixed, history,
       row, items, salesforce, task, work, local, Goto, Working
<1>1. ASSUME NEW a \in Action,
             PrepareMembers(a) \/ PrepareCampaign(a) \/ Cancel(a)
      PROVE  Wary
  BY <1>1 DEF PrepareMembers, Store, Delivered, Slice, PrepareCampaign, Open,
     Cancel
<1>2. ASSUME NEW h \in Handler, NEW a \in Action, NEW o \in Lead,
             AskContact(h, a, o)
      PROVE  Wary
  BY <1>2 DEF AskContact, Stale, Pending
<1>3. ASSUME NEW h \in Handler, StoreContact(h)
      PROVE  Wary
  BY <1>3 DEF StoreContact, Store, Modes, End, ClaimInv
<1>4. ASSUME NEW h \in Handler, NEW a \in Action, Click(h, a)
      PROVE  Wary
  BY <1>4 DEF Click
<1>5. ASSUME NEW h \in Handler,
             TurnAway(h) \/ Ineligible(h) \/ ExpiredClick(h) \/ BeginCommit(h)
      PROVE  Wary
  BY <1>5 DEF TurnAway, End, Ineligible, Replay, ExpiredClick, Fail,
     BeginCommit
<1>6. ASSUME NEW h \in Handler,
             Again(h) \/ Reply(h) \/ Disabled(h) \/ FrozenScopeRefused(h)
      PROVE  Wary
  BY <1>6 DEF Again, Replay, Reply, End, Disabled, Fail, FrozenScopeRefused
<1>7. ASSUME NEW h \in Handler,
             Refused(h) \/ Lost(h) \/ ReadFails(h) \/ Crash(h)
      PROVE  Wary
  BY <1>7 DEF Refused, Fail, End, Lost, ReadFails, Crash
<1>8. ASSUME NEW h \in Handler,
             EnsureStatus(h) \/ PostStatus(h) \/ StatusBack(h) \/
             CreateLeads(h)
      PROVE  Wary
  BY <1>8 DEF EnsureStatus, BeginAttempt, PostStatus, StatusBack, End,
     FinishAttempt, CreateLeads
<1>9. ASSUME NEW h \in Handler,
             PostLeads(h) \/ LeadsBack(h) \/ StoreIds(h) \/ ReadBefore(h)
      PROVE  Wary
  BY <1>9 DEF PostLeads, LeadsBack, FinishAttempt, StoreIds, ReadBefore
<1>10. ASSUME NEW h \in Handler,
             CreateMembers(h) \/ PostMembers(h) \/ MembersBack(h) \/ Pend(h)
      PROVE  Wary
  BY <1>10 DEF CreateMembers, BeginAttempt, PostMembers, MembersBack,
     FinishAttempt, Pend
<1>11. ASSUME NEW h \in Handler,
             Poll(h) \/ Count(h) \/ Write(h) \/ Reconcile(h)
      PROVE  Wary
  BY <1>11 DEF Poll, Count, Write, ClaimInv, Reconcile
<1>12. ASSUME NEW h \in Handler, PollAgain(h) \/ CloseAttempts(h)
      PROVE  Wary
  BY <1>12 DEF PollAgain, CloseAttempts
<1>13. ASSUME NEW h \in Handler, NEW o \in Lead,
             LeadIn(h, o) \/ AlreadyPresent(h, o) \/ Outcome(h, o) \/
             Settle(h, o)
      PROVE  Wary
  BY <1>13 DEF LeadIn, AlreadyPresent, Outcome, Settle
<1>14. ASSUME NEW h \in Handler,
             StartCampaign(h) \/ PostCampaign(h) \/ CampaignBack(h) \/
             CampaignIn(h)
      PROVE  Wary
  BY <1>14 DEF StartCampaign, BeginAttempt, PostCampaign, PostOne,
     CampaignBack, FinishAttempt, CampaignIn, Fail, End
<1>15. ASSUME NEW h \in Handler,
             ReconcileCampaign(h) \/ CampaignFound(h) \/ StartContact(h) \/
             PostLead(h)
      PROVE  Wary
  BY <1>15 DEF ReconcileCampaign, CampaignFound, Fail, End, StartContact,
     PostLead, PostOne
<1>16. ASSUME NEW h \in Handler,
             LeadBack(h) \/ ReadLead(h) \/ PostNote(h) \/ NoteBack(h)
      PROVE  Wary
  BY <1>16 DEF LeadBack, FailItem, Fail, End, ReadLead, PostNote, PostOne,
     NoteBack, NoteRejected, NoteDone
<1>17. ASSUME NEW h \in Handler, PostLink(h) \/ LinkBack(h)
      PROVE  Wary
  BY <1>17 DEF PostLink, PostOne, LinkBack, NoteRejected, NoteDone, FailItem,
     Fail, End
<1>18. ASSUME NEW a \in Action, Expire(a)
      PROVE  Wary
  BY <1>18 DEF Expire
<1>19. ASSUME NEW o \in Lead, Enrol(o)
      PROVE  Wary
  BY <1>19 DEF Enrol
<1>20. CASE UNCHANGED vars
  BY <1>20 DEF vars
<1>21. QED
  BY <1>1, <1>2, <1>3, <1>4, <1>5, <1>6, <1>7, <1>8, <1>9, <1>10, <1>11,
     <1>12, <1>13, <1>14, <1>15, <1>16, <1>17, <1>18, <1>19, <1>20
     DEF Next, Preview, ClickStep, MembersStep, CampaignStep, ContactStep

LEMMA SentStep ==
    ASSUME TypeOK, ClaimInv, SentInv, [Next]_vars
    PROVE  SentInv'
<1> USE DEF TypeOK, LocalOK, Finish, fixed, history, row, items, salesforce,
       task, work, local, Goto, Working
<1>1. Wary
  BY WaryStep
<1>2. \A g \in Handler : pc'[g] = pc[g] /\ job'[g] = job[g] => Onward(g)
  BY LaterSame DEF Onward
<1>3. ASSUME NEW h \in Handler, sent' = sent, \A g \in Handler \ {h} :
                pc'[g] = pc[g] /\ job'[g] = job[g], Onward(h)
      PROVE  SentInv'
  BY <1>1, <1>2, <1>3, QuietKeeps DEF Quiet
<1>4. ASSUME sent' = sent, pc' = pc, job' = job
      PROVE  SentInv'
  BY <1>1, <1>2, <1>4, QuietKeeps DEF Quiet
<1>5. ASSUME NEW a \in Action, PrepareMembers(a)
      PROVE  SentInv'
  BY <1>4, <1>5 DEF PrepareMembers, Store, Delivered, Slice
<1>6. ASSUME NEW a \in Action, PrepareCampaign(a)
      PROVE  SentInv'
  BY <1>4, <1>6 DEF PrepareCampaign, Open
<1>7. ASSUME NEW a \in Action, Cancel(a)
      PROVE  SentInv'
  BY <1>4, <1>7 DEF Cancel
<1>8. ASSUME NEW h \in Handler, NEW a \in Action, NEW o \in Lead, AskContact(h, a, o)
      PROVE  SentInv'
  <2>1. /\ sent' = sent
        /\ \/ pc' = pc /\ job' = job
           \/ Goto(h, "lookup") /\ job' = [job EXCEPT ![h] = a]
    BY <1>8 DEF AskContact
  <2>2. Far("lookup")
    BY DEF Later, Far, BeforeStatus, BeforeLeads, BeforeMembers,
       BeforeCampaign, BeforeLead, BeforeNote, BeforeLink
  <2>3. QED
    BY <1>3, <1>4, <2>1, <2>2 DEF Onward
<1>9. ASSUME NEW h \in Handler, StoreContact(h)
      PROVE  SentInv'
  <2>1. sent' = sent /\ End(h)
    BY <1>9 DEF StoreContact, Store, Modes
  <2>2. Far("idle")
    BY DEF Later, Far, BeforeStatus, BeforeLeads, BeforeMembers,
       BeforeCampaign, BeforeLead, BeforeNote, BeforeLink
  <2>3. QED
    BY <1>3, <2>1, <2>2 DEF Onward, End
<1>10. ASSUME NEW h \in Handler, NEW a \in Action, Click(h, a)
      PROVE  SentInv'
  <2>1. /\ sent' = sent
        /\ Goto(h, "decide") /\ job' = [job EXCEPT ![h] = a]
    BY <1>10 DEF Click
  <2>2. Far("decide")
    BY DEF Later, Far, BeforeStatus, BeforeLeads, BeforeMembers,
       BeforeCampaign, BeforeLead, BeforeNote, BeforeLink
  <2>3. QED
    BY <1>3, <2>1, <2>2 DEF Onward
<1>11. ASSUME NEW h \in Handler, TurnAway(h)
      PROVE  SentInv'
  <2>1. sent' = sent /\ End(h)
    BY <1>11 DEF TurnAway
  <2>2. Far("idle")
    BY DEF Later, Far, BeforeStatus, BeforeLeads, BeforeMembers,
       BeforeCampaign, BeforeLead, BeforeNote, BeforeLink
  <2>3. QED
    BY <1>3, <2>1, <2>2 DEF Onward, End
<1>12. ASSUME NEW h \in Handler, Ineligible(h)
      PROVE  SentInv'
  <2>1. /\ sent' = sent /\ pc[h] = "decide"
        /\ job' = job /\ Goto(h, "reply")
    BY <1>12 DEF Ineligible, Replay
  <2>2. Far("reply")
    BY DEF Later, Far, BeforeStatus, BeforeLeads, BeforeMembers,
       BeforeCampaign, BeforeLead, BeforeNote, BeforeLink
  <2>3. QED
    BY <1>3, <2>1, <2>2 DEF Onward
<1>13. ASSUME NEW h \in Handler, ExpiredClick(h)
      PROVE  SentInv'
  <2>1. sent' = sent /\ End(h)
    BY <1>13 DEF ExpiredClick, Fail
  <2>2. Far("idle")
    BY DEF Later, Far, BeforeStatus, BeforeLeads, BeforeMembers,
       BeforeCampaign, BeforeLead, BeforeNote, BeforeLink
  <2>3. QED
    BY <1>3, <2>1, <2>2 DEF Onward, End
<1>14. ASSUME NEW h \in Handler, BeginCommit(h)
      PROVE  SentInv'
  <2>1. /\ sent' = sent /\ job' = job /\ job[h] \in Action
        /\ \/ Goto(h, "reply")
           \/ Goto(h, "committed") /\ state[job[h]] = "ready"
    BY <1>14, BusyHasJob DEF BeginCommit, Replay
  <2>2. Far("reply")
    BY DEF Later, Far, BeforeStatus, BeforeLeads, BeforeMembers,
       BeforeCampaign, BeforeLead, BeforeNote, BeforeLink
  <2>3. QED
    BY <1>3, <2>1, <2>2 DEF Onward, Unsent
<1>15. ASSUME NEW h \in Handler, Again(h)
      PROVE  SentInv'
  <2>1. /\ sent' = sent /\ pc[h] = "decide"
        /\ job' = job /\ Goto(h, "reply")
    BY <1>15 DEF Again, Replay
  <2>2. Far("reply")
    BY DEF Later, Far, BeforeStatus, BeforeLeads, BeforeMembers,
       BeforeCampaign, BeforeLead, BeforeNote, BeforeLink
  <2>3. QED
    BY <1>3, <2>1, <2>2 DEF Onward
<1>16. ASSUME NEW h \in Handler, Reply(h)
      PROVE  SentInv'
  <2>1. sent' = sent /\ End(h)
    BY <1>16 DEF Reply
  <2>2. Far("idle")
    BY DEF Later, Far, BeforeStatus, BeforeLeads, BeforeMembers,
       BeforeCampaign, BeforeLead, BeforeNote, BeforeLink
  <2>3. QED
    BY <1>3, <2>1, <2>2 DEF Onward, End
<1>17. ASSUME NEW h \in Handler, Disabled(h)
      PROVE  SentInv'
  <2>1. sent' = sent /\ End(h)
    BY <1>17 DEF Disabled, Fail
  <2>2. Far("idle")
    BY DEF Later, Far, BeforeStatus, BeforeLeads, BeforeMembers,
       BeforeCampaign, BeforeLead, BeforeNote, BeforeLink
  <2>3. QED
    BY <1>3, <2>1, <2>2 DEF Onward, End
<1>18. ASSUME NEW h \in Handler, FrozenScopeRefused(h)
      PROVE  SentInv'
  <2>1. sent' = sent /\ End(h)
    BY <1>18 DEF FrozenScopeRefused, Fail
  <2>2. Far("idle")
    BY DEF Later, Far, BeforeStatus, BeforeLeads, BeforeMembers,
       BeforeCampaign, BeforeLead, BeforeNote, BeforeLink
  <2>3. QED
    BY <1>3, <2>1, <2>2 DEF Onward, End
<1>19. ASSUME NEW h \in Handler, Refused(h)
      PROVE  SentInv'
  <2>1. sent' = sent /\ End(h)
    BY <1>19 DEF Refused, Fail
  <2>2. Far("idle")
    BY DEF Later, Far, BeforeStatus, BeforeLeads, BeforeMembers,
       BeforeCampaign, BeforeLead, BeforeNote, BeforeLink
  <2>3. QED
    BY <1>3, <2>1, <2>2 DEF Onward, End
<1>20. ASSUME NEW h \in Handler, Lost(h)
      PROVE  SentInv'
  <2>1. sent' = sent /\ End(h)
    BY <1>20 DEF Lost, Fail
  <2>2. Far("idle")
    BY DEF Later, Far, BeforeStatus, BeforeLeads, BeforeMembers,
       BeforeCampaign, BeforeLead, BeforeNote, BeforeLink
  <2>3. QED
    BY <1>3, <2>1, <2>2 DEF Onward, End
<1>21. ASSUME NEW h \in Handler, ReadFails(h)
      PROVE  SentInv'
  <2>1. sent' = sent /\ End(h)
    BY <1>21 DEF ReadFails, Fail
  <2>2. Far("idle")
    BY DEF Later, Far, BeforeStatus, BeforeLeads, BeforeMembers,
       BeforeCampaign, BeforeLead, BeforeNote, BeforeLink
  <2>3. QED
    BY <1>3, <2>1, <2>2 DEF Onward, End
<1>22. ASSUME NEW h \in Handler, Crash(h)
      PROVE  SentInv'
  <2>1. sent' = sent /\ End(h)
    BY <1>22 DEF Crash
  <2>2. Far("idle")
    BY DEF Later, Far, BeforeStatus, BeforeLeads, BeforeMembers,
       BeforeCampaign, BeforeLead, BeforeNote, BeforeLink
  <2>3. QED
    BY <1>3, <2>1, <2>2 DEF Onward, End
<1>23. ASSUME NEW h \in Handler, EnsureStatus(h)
      PROVE  SentInv'
  <2>1. /\ sent' = sent /\ pc[h] = "committed"
        /\ job' = job /\ (Goto(h, "leads") \/ Goto(h, "status_post"))
    BY <1>23 DEF EnsureStatus, BeginAttempt
  <2>2. Later("committed", "leads") /\ Later("committed", "status_post")
    BY DEF Later, Far, BeforeStatus, BeforeLeads, BeforeMembers,
       BeforeCampaign, BeforeLead, BeforeNote, BeforeLink
  <2>3. QED
    BY <1>3, <2>1, <2>2 DEF Onward
<1>24. ASSUME NEW h \in Handler, StatusBack(h)
      PROVE  SentInv'
  <2>1. /\ sent' = sent /\ pc[h] = "status_back"
        /\ End(h) \/ (job' = job /\ Goto(h, "leads"))
    BY <1>24 DEF StatusBack, FinishAttempt
  <2>2. Later("status_back", "leads") /\ Far("idle")
    BY DEF Later, Far, BeforeStatus, BeforeLeads, BeforeMembers,
       BeforeCampaign, BeforeLead, BeforeNote, BeforeLink
  <2>3. QED
    BY <1>3, <2>1, <2>2 DEF Onward, End
<1>25. ASSUME NEW h \in Handler, CreateLeads(h)
      PROVE  SentInv'
  <2>1. /\ sent' = sent /\ pc[h] = "leads"
        /\ job' = job /\ (Goto(h, "leads_in") \/ Goto(h, "leads_post"))
    BY <1>25 DEF CreateLeads, BeginAttempt
  <2>2. Later("leads", "leads_in") /\ Later("leads", "leads_post")
    BY DEF Later, Far, BeforeStatus, BeforeLeads, BeforeMembers,
       BeforeCampaign, BeforeLead, BeforeNote, BeforeLink
  <2>3. QED
    BY <1>3, <2>1, <2>2 DEF Onward
<1>26. ASSUME NEW h \in Handler, LeadsBack(h)
      PROVE  SentInv'
  <2>1. /\ sent' = sent /\ pc[h] = "leads_back"
        /\ job' = job /\ Goto(h, "leads_in")
    BY <1>26 DEF LeadsBack, FinishAttempt
  <2>2. Later("leads_back", "leads_in")
    BY DEF Later, Far, BeforeStatus, BeforeLeads, BeforeMembers,
       BeforeCampaign, BeforeLead, BeforeNote, BeforeLink
  <2>3. QED
    BY <1>3, <2>1, <2>2 DEF Onward
<1>27. ASSUME NEW h \in Handler, StoreIds(h)
      PROVE  SentInv'
  <2>1. /\ sent' = sent /\ pc[h] = "leads_in"
        /\ job' = job /\ Goto(h, "before")
    BY <1>27 DEF StoreIds
  <2>2. Later("leads_in", "before")
    BY DEF Later, Far, BeforeStatus, BeforeLeads, BeforeMembers,
       BeforeCampaign, BeforeLead, BeforeNote, BeforeLink
  <2>3. QED
    BY <1>3, <2>1, <2>2 DEF Onward
<1>28. ASSUME NEW h \in Handler, ReadBefore(h)
      PROVE  SentInv'
  <2>1. /\ sent' = sent /\ pc[h] = "before"
        /\ job' = job /\ Goto(h, "present")
    BY <1>28 DEF ReadBefore
  <2>2. Later("before", "present")
    BY DEF Later, Far, BeforeStatus, BeforeLeads, BeforeMembers,
       BeforeCampaign, BeforeLead, BeforeNote, BeforeLink
  <2>3. QED
    BY <1>3, <2>1, <2>2 DEF Onward
<1>29. ASSUME NEW h \in Handler, CreateMembers(h)
      PROVE  SentInv'
  <2>1. /\ sent' = sent /\ pc[h] = "present"
        /\ job' = job /\ (Goto(h, "outcome") \/ Goto(h, "members_post"))
    BY <1>29 DEF CreateMembers, BeginAttempt
  <2>2. Far("outcome") /\ Later("present", "members_post")
    BY DEF Later, Far, BeforeStatus, BeforeLeads, BeforeMembers,
       BeforeCampaign, BeforeLead, BeforeNote, BeforeLink
  <2>3. QED
    BY <1>3, <2>1, <2>2 DEF Onward
<1>30. ASSUME NEW h \in Handler, MembersBack(h)
      PROVE  SentInv'
  <2>1. /\ sent' = sent /\ pc[h] = "members_back"
        /\ job' = job /\ Goto(h, "pend")
    BY <1>30 DEF MembersBack, FinishAttempt
  <2>2. Far("pend")
    BY DEF Later, Far, BeforeStatus, BeforeLeads, BeforeMembers,
       BeforeCampaign, BeforeLead, BeforeNote, BeforeLink
  <2>3. QED
    BY <1>3, <2>1, <2>2 DEF Onward
<1>31. ASSUME NEW h \in Handler, Pend(h)
      PROVE  SentInv'
  <2>1. /\ sent' = sent /\ pc[h] = "pend"
        /\ job' = job /\ Goto(h, "poll")
    BY <1>31 DEF Pend
  <2>2. Far("poll")
    BY DEF Later, Far, BeforeStatus, BeforeLeads, BeforeMembers,
       BeforeCampaign, BeforeLead, BeforeNote, BeforeLink
  <2>3. QED
    BY <1>3, <2>1, <2>2 DEF Onward
<1>32. ASSUME NEW h \in Handler, Poll(h)
      PROVE  SentInv'
  <2>1. /\ sent' = sent /\ pc[h] = "poll"
        /\ job' = job /\ Goto(h, "outcome")
    BY <1>32 DEF Poll
  <2>2. Far("outcome")
    BY DEF Later, Far, BeforeStatus, BeforeLeads, BeforeMembers,
       BeforeCampaign, BeforeLead, BeforeNote, BeforeLink
  <2>3. QED
    BY <1>3, <2>1, <2>2 DEF Onward
<1>33. ASSUME NEW h \in Handler, Count(h)
      PROVE  SentInv'
  <2>1. /\ sent' = sent
        /\ job' = job /\ (Goto(h, "write") \/ Goto(h, "rec_write"))
    BY <1>33 DEF Count
  <2>2. Far("write") /\ Far("rec_write")
    BY DEF Later, Far, BeforeStatus, BeforeLeads, BeforeMembers,
       BeforeCampaign, BeforeLead, BeforeNote, BeforeLink
  <2>3. QED
    BY <1>3, <2>1, <2>2 DEF Onward
<1>34. ASSUME NEW h \in Handler, Write(h)
      PROVE  SentInv'
  <2>1. /\ sent' = sent
        /\ job' = job /\ (Goto(h, "close") \/ Goto(h, "reply"))
    BY <1>34 DEF Write
  <2>2. Far("close") /\ Far("reply")
    BY DEF Later, Far, BeforeStatus, BeforeLeads, BeforeMembers,
       BeforeCampaign, BeforeLead, BeforeNote, BeforeLink
  <2>3. QED
    BY <1>3, <2>1, <2>2 DEF Onward
<1>35. ASSUME NEW h \in Handler, Reconcile(h)
      PROVE  SentInv'
  <2>1. /\ sent' = sent /\ pc[h] = "decide"
        /\ job' = job /\ Goto(h, "rec_poll")
    BY <1>35 DEF Reconcile
  <2>2. Far("rec_poll")
    BY DEF Later, Far, BeforeStatus, BeforeLeads, BeforeMembers,
       BeforeCampaign, BeforeLead, BeforeNote, BeforeLink
  <2>3. QED
    BY <1>3, <2>1, <2>2 DEF Onward
<1>36. ASSUME NEW h \in Handler, PollAgain(h)
      PROVE  SentInv'
  <2>1. /\ sent' = sent /\ pc[h] = "rec_poll"
        /\ job' = job /\ Goto(h, "rec_items")
    BY <1>36 DEF PollAgain
  <2>2. Far("rec_items")
    BY DEF Later, Far, BeforeStatus, BeforeLeads, BeforeMembers,
       BeforeCampaign, BeforeLead, BeforeNote, BeforeLink
  <2>3. QED
    BY <1>3, <2>1, <2>2 DEF Onward
<1>37. ASSUME NEW h \in Handler, CloseAttempts(h)
      PROVE  SentInv'
  <2>1. /\ sent' = sent /\ pc[h] = "close"
        /\ job' = job /\ Goto(h, "reply")
    BY <1>37 DEF CloseAttempts
  <2>2. Far("reply")
    BY DEF Later, Far, BeforeStatus, BeforeLeads, BeforeMembers,
       BeforeCampaign, BeforeLead, BeforeNote, BeforeLink
  <2>3. QED
    BY <1>3, <2>1, <2>2 DEF Onward
<1>38. ASSUME NEW h \in Handler, NEW o \in Lead, LeadIn(h, o)
      PROVE  SentInv'
  BY <1>4, <1>38 DEF LeadIn
<1>39. ASSUME NEW h \in Handler, NEW o \in Lead, AlreadyPresent(h, o)
      PROVE  SentInv'
  BY <1>4, <1>39 DEF AlreadyPresent
<1>40. ASSUME NEW h \in Handler, NEW o \in Lead, Outcome(h, o)
      PROVE  SentInv'
  BY <1>4, <1>40 DEF Outcome
<1>41. ASSUME NEW h \in Handler, NEW o \in Lead, Settle(h, o)
      PROVE  SentInv'
  BY <1>4, <1>41 DEF Settle
<1>42. ASSUME NEW h \in Handler, StartCampaign(h)
      PROVE  SentInv'
  <2>1. /\ sent' = sent /\ pc[h] = "committed"
        /\ job' = job /\ Goto(h, "campaign_post")
    BY <1>42 DEF StartCampaign, BeginAttempt
  <2>2. Later("committed", "campaign_post")
    BY DEF Later, Far, BeforeStatus, BeforeLeads, BeforeMembers,
       BeforeCampaign, BeforeLead, BeforeNote, BeforeLink
  <2>3. QED
    BY <1>3, <2>1, <2>2 DEF Onward
<1>43. ASSUME NEW h \in Handler, CampaignBack(h)
      PROVE  SentInv'
  <2>1. /\ sent' = sent /\ pc[h] = "campaign_back"
        /\ job' = job /\ Goto(h, "campaign_in")
    BY <1>43 DEF CampaignBack, FinishAttempt
  <2>2. Far("campaign_in")
    BY DEF Later, Far, BeforeStatus, BeforeLeads, BeforeMembers,
       BeforeCampaign, BeforeLead, BeforeNote, BeforeLink
  <2>3. QED
    BY <1>3, <2>1, <2>2 DEF Onward
<1>44. ASSUME NEW h \in Handler, CampaignIn(h)
      PROVE  SentInv'
  <2>1. sent' = sent /\ End(h)
    BY <1>44 DEF CampaignIn, Fail
  <2>2. Far("idle")
    BY DEF Later, Far, BeforeStatus, BeforeLeads, BeforeMembers,
       BeforeCampaign, BeforeLead, BeforeNote, BeforeLink
  <2>3. QED
    BY <1>3, <2>1, <2>2 DEF Onward, End
<1>45. ASSUME NEW h \in Handler, ReconcileCampaign(h)
      PROVE  SentInv'
  <2>1. /\ sent' = sent /\ pc[h] = "decide"
        /\ job' = job /\ Goto(h, "rec_campaign")
    BY <1>45 DEF ReconcileCampaign
  <2>2. Far("rec_campaign")
    BY DEF Later, Far, BeforeStatus, BeforeLeads, BeforeMembers,
       BeforeCampaign, BeforeLead, BeforeNote, BeforeLink
  <2>3. QED
    BY <1>3, <2>1, <2>2 DEF Onward
<1>46. ASSUME NEW h \in Handler, CampaignFound(h)
      PROVE  SentInv'
  <2>1. sent' = sent /\ End(h)
    BY <1>46 DEF CampaignFound, Fail
  <2>2. Far("idle")
    BY DEF Later, Far, BeforeStatus, BeforeLeads, BeforeMembers,
       BeforeCampaign, BeforeLead, BeforeNote, BeforeLink
  <2>3. QED
    BY <1>3, <2>1, <2>2 DEF Onward, End
<1>47. ASSUME NEW h \in Handler, StartContact(h)
      PROVE  SentInv'
  <2>1. /\ sent' = sent /\ pc[h] = "committed"
        /\ job' = job /\ (Goto(h, "note_post") \/ Goto(h, "lead_post"))
    BY <1>47 DEF StartContact
  <2>2. Later("committed", "note_post") /\ Later("committed", "lead_post")
    BY DEF Later, Far, BeforeStatus, BeforeLeads, BeforeMembers,
       BeforeCampaign, BeforeLead, BeforeNote, BeforeLink
  <2>3. QED
    BY <1>3, <2>1, <2>2 DEF Onward
<1>48. ASSUME NEW h \in Handler, LeadBack(h)
      PROVE  SentInv'
  <2>1. /\ sent' = sent /\ pc[h] = "lead_back"
        /\ End(h) \/ (job' = job /\ Goto(h, "named"))
    BY <1>48 DEF LeadBack, FailItem, Fail
  <2>2. Later("lead_back", "named") /\ Far("idle")
    BY DEF Later, Far, BeforeStatus, BeforeLeads, BeforeMembers,
       BeforeCampaign, BeforeLead, BeforeNote, BeforeLink
  <2>3. QED
    BY <1>3, <2>1, <2>2 DEF Onward, End
<1>49. ASSUME NEW h \in Handler, ReadLead(h)
      PROVE  SentInv'
  <2>1. /\ sent' = sent /\ pc[h] = "named"
        /\ job' = job /\ Goto(h, "note_post")
    BY <1>49 DEF ReadLead
  <2>2. Later("named", "note_post")
    BY DEF Later, Far, BeforeStatus, BeforeLeads, BeforeMembers,
       BeforeCampaign, BeforeLead, BeforeNote, BeforeLink
  <2>3. QED
    BY <1>3, <2>1, <2>2 DEF Onward
<1>50. ASSUME NEW h \in Handler, NoteBack(h)
      PROVE  SentInv'
  <2>1. /\ sent' = sent /\ pc[h] = "note_back"
        /\ End(h) \/ (job' = job /\ (Goto(h, "link_post") \/ Goto(h, "write")))
    BY <1>50 DEF NoteBack, NoteRejected, NoteDone, FailItem, Fail
  <2>2. Later("note_back", "link_post") /\ Far("write") /\ Far("idle")
    BY DEF Later, Far, BeforeStatus, BeforeLeads, BeforeMembers,
       BeforeCampaign, BeforeLead, BeforeNote, BeforeLink
  <2>3. QED
    BY <1>3, <2>1, <2>2 DEF Onward, End
<1>51. ASSUME NEW h \in Handler, LinkBack(h)
      PROVE  SentInv'
  <2>1. /\ sent' = sent /\ pc[h] = "link_back"
        /\ End(h) \/ (job' = job /\ Goto(h, "write"))
    BY <1>51 DEF LinkBack, NoteRejected, NoteDone, FailItem, Fail
  <2>2. Far("write") /\ Far("idle")
    BY DEF Later, Far, BeforeStatus, BeforeLeads, BeforeMembers,
       BeforeCampaign, BeforeLead, BeforeNote, BeforeLink
  <2>3. QED
    BY <1>3, <2>1, <2>2 DEF Onward, End
<1>52. ASSUME NEW a \in Action, Expire(a)
      PROVE  SentInv'
  BY <1>4, <1>52 DEF Expire
<1>53. ASSUME NEW o \in Lead, Enrol(o)
      PROVE  SentInv'
  BY <1>4, <1>53 DEF Enrol
<1>54. CASE UNCHANGED vars
  BY <1>4, <1>54 DEF vars
<1>55. ASSUME NEW h \in Handler, PostStatus(h)
      PROVE  SentInv'
  <2>1. /\ pc[h] = "status_post" /\ Goto(h, "status_back") /\ job' = job /\ state' = state
        /\ sent' = [sent EXCEPT ![<<job[h], "status">>] = @ + 1]
    BY <1>55 DEF PostStatus, Send
  <2>2. /\ "status_post" \in BeforeStatus /\ "status_back" \notin BeforeStatus
        /\ Later("status_post", "status_back") /\ "status_post" \in Run
    BY DEF Later, Run, MembersRun, CampaignRun, ContactRun,
       BeforeStatus, BeforeLeads, BeforeMembers, BeforeCampaign, BeforeLead,
       BeforeNote, BeforeLink
  <2>3. sent[<<job[h], "status">>] = 0
    BY <2>1, <2>2 DEF SentInv
  <2>4. Posts(h, "status")
    BY <2>1, <2>2, <2>3 DEF Posts, Op
  <2>5. QED
    BY <2>4, PostKeeps DEF Op
<1>56. ASSUME NEW h \in Handler, PostLeads(h)
      PROVE  SentInv'
  <2>1. /\ pc[h] = "leads_post" /\ Goto(h, "leads_back") /\ job' = job /\ state' = state
        /\ sent' = [sent EXCEPT ![<<job[h], "leads">>] = @ + 1]
    BY <1>56 DEF PostLeads, Send
  <2>2. /\ "leads_post" \in BeforeLeads /\ "leads_back" \notin BeforeLeads
        /\ Later("leads_post", "leads_back") /\ "leads_post" \in Run
    BY DEF Later, Run, MembersRun, CampaignRun, ContactRun,
       BeforeStatus, BeforeLeads, BeforeMembers, BeforeCampaign, BeforeLead,
       BeforeNote, BeforeLink
  <2>3. sent[<<job[h], "leads">>] = 0
    BY <2>1, <2>2 DEF SentInv
  <2>4. Posts(h, "leads")
    BY <2>1, <2>2, <2>3 DEF Posts, Op
  <2>5. QED
    BY <2>4, PostKeeps DEF Op
<1>57. ASSUME NEW h \in Handler, PostMembers(h)
      PROVE  SentInv'
  <2>1. /\ pc[h] = "members_post" /\ Goto(h, "members_back") /\ job' = job /\ state' = state
        /\ sent' = [sent EXCEPT ![<<job[h], "members">>] = @ + 1]
    BY <1>57 DEF PostMembers, Send
  <2>2. /\ "members_post" \in BeforeMembers /\ "members_back" \notin BeforeMembers
        /\ Later("members_post", "members_back") /\ "members_post" \in Run
    BY DEF Later, Run, MembersRun, CampaignRun, ContactRun,
       BeforeStatus, BeforeLeads, BeforeMembers, BeforeCampaign, BeforeLead,
       BeforeNote, BeforeLink
  <2>3. sent[<<job[h], "members">>] = 0
    BY <2>1, <2>2 DEF SentInv
  <2>4. Posts(h, "members")
    BY <2>1, <2>2, <2>3 DEF Posts, Op
  <2>5. QED
    BY <2>4, PostKeeps DEF Op
<1>58. ASSUME NEW h \in Handler, PostCampaign(h)
      PROVE  SentInv'
  <2>1. /\ pc[h] = "campaign_post" /\ Goto(h, "campaign_back") /\ job' = job /\ state' = state
        /\ sent' = [sent EXCEPT ![<<job[h], "campaign">>] = @ + 1]
    BY <1>58 DEF PostCampaign, PostOne, Send
  <2>2. /\ "campaign_post" \in BeforeCampaign /\ "campaign_back" \notin BeforeCampaign
        /\ Later("campaign_post", "campaign_back") /\ "campaign_post" \in Run
    BY DEF Later, Run, MembersRun, CampaignRun, ContactRun,
       BeforeStatus, BeforeLeads, BeforeMembers, BeforeCampaign, BeforeLead,
       BeforeNote, BeforeLink
  <2>3. sent[<<job[h], "campaign">>] = 0
    BY <2>1, <2>2 DEF SentInv
  <2>4. Posts(h, "campaign")
    BY <2>1, <2>2, <2>3 DEF Posts, Op
  <2>5. QED
    BY <2>4, PostKeeps DEF Op
<1>59. ASSUME NEW h \in Handler, PostLead(h)
      PROVE  SentInv'
  <2>1. /\ pc[h] = "lead_post" /\ Goto(h, "lead_back") /\ job' = job /\ state' = state
        /\ sent' = [sent EXCEPT ![<<job[h], "lead">>] = @ + 1]
    BY <1>59 DEF PostLead, PostOne, Send
  <2>2. /\ "lead_post" \in BeforeLead /\ "lead_back" \notin BeforeLead
        /\ Later("lead_post", "lead_back") /\ "lead_post" \in Run
    BY DEF Later, Run, MembersRun, CampaignRun, ContactRun,
       BeforeStatus, BeforeLeads, BeforeMembers, BeforeCampaign, BeforeLead,
       BeforeNote, BeforeLink
  <2>3. sent[<<job[h], "lead">>] = 0
    BY <2>1, <2>2 DEF SentInv
  <2>4. Posts(h, "lead")
    BY <2>1, <2>2, <2>3 DEF Posts, Op
  <2>5. QED
    BY <2>4, PostKeeps DEF Op
<1>60. ASSUME NEW h \in Handler, PostNote(h)
      PROVE  SentInv'
  <2>1. /\ pc[h] = "note_post" /\ Goto(h, "note_back") /\ job' = job /\ state' = state
        /\ sent' = [sent EXCEPT ![<<job[h], "note">>] = @ + 1]
    BY <1>60 DEF PostNote, PostOne, Send
  <2>2. /\ "note_post" \in BeforeNote /\ "note_back" \notin BeforeNote
        /\ Later("note_post", "note_back") /\ "note_post" \in Run
    BY DEF Later, Run, MembersRun, CampaignRun, ContactRun,
       BeforeStatus, BeforeLeads, BeforeMembers, BeforeCampaign, BeforeLead,
       BeforeNote, BeforeLink
  <2>3. sent[<<job[h], "note">>] = 0
    BY <2>1, <2>2 DEF SentInv
  <2>4. Posts(h, "note")
    BY <2>1, <2>2, <2>3 DEF Posts, Op
  <2>5. QED
    BY <2>4, PostKeeps DEF Op
<1>61. ASSUME NEW h \in Handler, PostLink(h)
      PROVE  SentInv'
  <2>1. /\ pc[h] = "link_post" /\ Goto(h, "link_back") /\ job' = job /\ state' = state
        /\ sent' = [sent EXCEPT ![<<job[h], "link">>] = @ + 1]
    BY <1>61 DEF PostLink, PostOne, Send
  <2>2. /\ "link_post" \in BeforeLink /\ "link_back" \notin BeforeLink
        /\ Later("link_post", "link_back") /\ "link_post" \in Run
    BY DEF Later, Run, MembersRun, CampaignRun, ContactRun,
       BeforeStatus, BeforeLeads, BeforeMembers, BeforeCampaign, BeforeLead,
       BeforeNote, BeforeLink
  <2>3. sent[<<job[h], "link">>] = 0
    BY <2>1, <2>2 DEF SentInv
  <2>4. Posts(h, "link")
    BY <2>1, <2>2, <2>3 DEF Posts, Op
  <2>5. QED
    BY <2>4, PostKeeps DEF Op
<1>62. QED
  BY <1>5, <1>6, <1>7, <1>8, <1>9, <1>10, <1>11, <1>12, <1>13, <1>14, <1>15,
     <1>16, <1>17, <1>18, <1>19, <1>20, <1>21, <1>22, <1>23, <1>24, <1>25,
     <1>26, <1>27, <1>28, <1>29, <1>30, <1>31, <1>32, <1>33, <1>34, <1>35,
     <1>36, <1>37, <1>38, <1>39, <1>40, <1>41, <1>42, <1>43, <1>44, <1>45,
     <1>46, <1>47, <1>48, <1>49, <1>50, <1>51, <1>52, <1>53, <1>54, <1>55,
     <1>56, <1>57, <1>58, <1>59, <1>60, <1>61
     DEF Next, Preview, ClickStep, MembersStep, CampaignStep, ContactStep


---------------------------------------------------------------------------
(***************************************************************************)
(* A step of one thread disturbs no other, and who is in an action stays.  *)
(***************************************************************************)
OthersStay(h) ==
    \A g \in Handler \ {h} :
        /\ pc'[g] = pc[g] /\ job'[g] = job[g] /\ was'[g] = was[g]
        /\ answer'[g] = answer[g] /\ todo'[g] = todo[g] /\ ok'[g] = ok[g]
        /\ vis'[g] = vis[g] /\ settled'[g] = settled[g]

\* Any step of one thread.
ThreadStep(h) ==
    \/ ClickStep(h) \/ Disabled(h) \/ FrozenScopeRefused(h) \/ Refused(h)
    \/ Lost(h) \/ ReadFails(h) \/ MembersStep(h) \/ CampaignStep(h)
    \/ ContactStep(h) \/ Crash(h) \/ StoreContact(h)
    \/ \E a \in Action, o \in Lead : AskContact(h, a, o)

OpStays ==
    /\ kind' = kind
    /\ \A a \in Action : state[a] # "none" =>
         \A o \in Lead : op'[<<a, o>>] = op[<<a, o>>]

LEMMA OpStep ==
    ASSUME TypeOK, ClaimInv, [Next]_vars
    PROVE  OpStays
<1> USE DEF TypeOK, LocalOK, OpStays, fixed, history, row, items, salesforce,
       task, work, local, Goto, Working
<1>1. ASSUME NEW a \in Action, PrepareMembers(a)
      PROVE  OpStays
  BY <1>1 DEF PrepareMembers, Store, Delivered, Slice, Item, ItemsOK
<1>2. ASSUME NEW a \in Action, PrepareCampaign(a) \/ Cancel(a)
      PROVE  OpStays
  BY <1>2 DEF PrepareCampaign, Open, Cancel
<1>3. ASSUME NEW h \in Handler, NEW a \in Action, NEW o \in Lead,
             AskContact(h, a, o)
      PROVE  OpStays
  BY <1>3 DEF AskContact, Stale, Pending
<1>4. ASSUME NEW h \in Handler, StoreContact(h)
      PROVE  OpStays
  <2>1. job[h] \in Action /\ state[job[h]] = "none" /\ kind' = kind
    BY <1>4, BusyHasJob DEF StoreContact, ClaimInv
  <2>2. \A b \in Action \ {job[h]}, o \in Lead : op'[<<b, o>>] = op[<<b, o>>]
    <3>1. CASE UNCHANGED items
      BY <3>1
    <3>2. ASSUME NEW how \in Modes,
                 Store(job[h], [o \in Lead |-> IF o = lead[h] THEN how ELSE "none"],
                       "ready")
          PROVE  \A b \in Action \ {job[h]}, o \in Lead :
                   op'[<<b, o>>] = op[<<b, o>>]
      BY <3>2 DEF Store, Item
    <3>3. QED
      BY <1>4, <3>1, <3>2 DEF StoreContact
  <2>3. QED
    BY <2>1, <2>2
<1>5. ASSUME NEW h \in Handler, NEW a \in Action, Click(h, a)
      PROVE  OpStays
  BY <1>5 DEF Click
<1>6. ASSUME NEW h \in Handler,
             TurnAway(h) \/ Ineligible(h) \/ ExpiredClick(h) \/ BeginCommit(h)
      PROVE  OpStays
  BY <1>6 DEF TurnAway, End, Ineligible, Replay, ExpiredClick, Fail,
     BeginCommit
<1>7. ASSUME NEW h \in Handler,
             Again(h) \/ Reply(h) \/ Disabled(h) \/ FrozenScopeRefused(h)
      PROVE  OpStays
  BY <1>7 DEF Again, Replay, Reply, End, Disabled, Fail, FrozenScopeRefused
<1>8. ASSUME NEW h \in Handler,
             Refused(h) \/ Lost(h) \/ ReadFails(h) \/ Crash(h)
      PROVE  OpStays
  BY <1>8 DEF Refused, Fail, End, Lost, ReadFails, Crash
<1>9. ASSUME NEW h \in Handler,
             EnsureStatus(h) \/ PostStatus(h) \/ StatusBack(h) \/
             CreateLeads(h)
      PROVE  OpStays
  BY <1>9 DEF EnsureStatus, BeginAttempt, PostStatus, StatusBack, End,
     FinishAttempt, CreateLeads
<1>10. ASSUME NEW h \in Handler,
             PostLeads(h) \/ LeadsBack(h) \/ StoreIds(h) \/ ReadBefore(h)
      PROVE  OpStays
  BY <1>10 DEF PostLeads, LeadsBack, FinishAttempt, StoreIds, ReadBefore
<1>11. ASSUME NEW h \in Handler,
             CreateMembers(h) \/ PostMembers(h) \/ MembersBack(h) \/ Pend(h)
      PROVE  OpStays
  BY <1>11 DEF CreateMembers, BeginAttempt, PostMembers, MembersBack,
     FinishAttempt, Pend
<1>12. ASSUME NEW h \in Handler,
             Poll(h) \/ Count(h) \/ Write(h) \/ Reconcile(h)
      PROVE  OpStays
  BY <1>12 DEF Poll, Count, Write, Reconcile
<1>13. ASSUME NEW h \in Handler, PollAgain(h) \/ CloseAttempts(h)
      PROVE  OpStays
  BY <1>13 DEF PollAgain, CloseAttempts
<1>14. ASSUME NEW h \in Handler, NEW o \in Lead,
             LeadIn(h, o) \/ AlreadyPresent(h, o) \/ Outcome(h, o) \/
             Settle(h, o)
      PROVE  OpStays
  BY <1>14 DEF LeadIn, AlreadyPresent, Outcome, Settle
<1>15. ASSUME NEW h \in Handler,
             StartCampaign(h) \/ PostCampaign(h) \/ CampaignBack(h) \/
             CampaignIn(h)
      PROVE  OpStays
  BY <1>15 DEF StartCampaign, BeginAttempt, PostCampaign, PostOne,
     CampaignBack, FinishAttempt, CampaignIn, Fail, End
<1>16. ASSUME NEW h \in Handler,
             ReconcileCampaign(h) \/ CampaignFound(h) \/ StartContact(h) \/
             PostLead(h)
      PROVE  OpStays
  BY <1>16 DEF ReconcileCampaign, CampaignFound, Fail, End, StartContact,
     PostLead, PostOne
<1>17. ASSUME NEW h \in Handler,
             LeadBack(h) \/ ReadLead(h) \/ PostNote(h) \/ NoteBack(h)
      PROVE  OpStays
  BY <1>17 DEF LeadBack, FailItem, Fail, End, ReadLead, PostNote, PostOne,
     NoteBack, NoteRejected, NoteDone
<1>18. ASSUME NEW h \in Handler, PostLink(h) \/ LinkBack(h)
      PROVE  OpStays
  BY <1>18 DEF PostLink, PostOne, LinkBack, NoteRejected, NoteDone, FailItem,
     Fail, End
<1>19. ASSUME NEW a \in Action, Expire(a)
      PROVE  OpStays
  BY <1>19 DEF Expire
<1>20. ASSUME NEW o \in Lead, Enrol(o)
      PROVE  OpStays
  BY <1>20 DEF Enrol
<1>21. CASE UNCHANGED vars
  BY <1>21 DEF vars
<1>22. QED
  BY <1>1, <1>2, <1>3, <1>4, <1>5, <1>6, <1>7, <1>8, <1>9, <1>10, <1>11,
     <1>12, <1>13, <1>14, <1>15, <1>16, <1>17, <1>18, <1>19, <1>20, <1>21
     DEF Next, Preview, ClickStep, MembersStep, CampaignStep, ContactStep

LEMMA OthersStep ==
    ASSUME TypeOK,
           NEW h \in Handler, ThreadStep(h)
    PROVE  OthersStay(h)
<1> USE DEF TypeOK, LocalOK, OthersStay, fixed, history, row, items,
       salesforce, task, work, local, Goto, Working
<1>1. ASSUME NEW a \in Action, NEW o \in Lead, AskContact(h, a, o)
      PROVE  OthersStay(h)
  BY <1>1 DEF AskContact, Stale, Pending
<1>2. CASE StoreContact(h)
  BY <1>2 DEF StoreContact, Store, Modes, End
<1>3. ASSUME NEW a \in Action, Click(h, a)
      PROVE  OthersStay(h)
  BY <1>3 DEF Click
<1>4. CASE TurnAway(h) \/ Ineligible(h) \/ ExpiredClick(h) \/ BeginCommit(h)
  BY <1>4 DEF TurnAway, End, Ineligible, Replay, ExpiredClick, Fail,
     BeginCommit
<1>5. CASE Again(h) \/ Reply(h) \/ Disabled(h) \/ FrozenScopeRefused(h)
  BY <1>5 DEF Again, Replay, Reply, End, Disabled, Fail, FrozenScopeRefused
<1>6. CASE Refused(h) \/ Lost(h) \/ ReadFails(h) \/ Crash(h)
  BY <1>6 DEF Refused, Fail, End, Lost, ReadFails, Crash
<1>7. CASE EnsureStatus(h) \/ PostStatus(h) \/ StatusBack(h) \/ CreateLeads(h)
  BY <1>7 DEF EnsureStatus, BeginAttempt, PostStatus, StatusBack, End,
     FinishAttempt, CreateLeads
<1>8. CASE PostLeads(h) \/ LeadsBack(h) \/ StoreIds(h) \/ ReadBefore(h)
  BY <1>8 DEF PostLeads, LeadsBack, FinishAttempt, StoreIds, ReadBefore
<1>9. CASE CreateMembers(h) \/ PostMembers(h) \/ MembersBack(h) \/ Pend(h)
  BY <1>9 DEF CreateMembers, BeginAttempt, PostMembers, MembersBack,
     FinishAttempt, Pend
<1>10. CASE Poll(h) \/ Count(h) \/ Write(h) \/ Reconcile(h)
  BY <1>10 DEF Poll, Count, Write, Reconcile
<1>11. CASE PollAgain(h) \/ CloseAttempts(h)
  BY <1>11 DEF PollAgain, CloseAttempts
<1>12. ASSUME NEW o \in Lead,
             LeadIn(h, o) \/ AlreadyPresent(h, o) \/ Outcome(h, o) \/
             Settle(h, o)
      PROVE  OthersStay(h)
  BY <1>12 DEF LeadIn, AlreadyPresent, Outcome, Settle
<1>13. CASE
          StartCampaign(h) \/ PostCampaign(h) \/ CampaignBack(h) \/
          CampaignIn(h)
  BY <1>13 DEF StartCampaign, BeginAttempt, PostCampaign, PostOne,
     CampaignBack, FinishAttempt, CampaignIn, Fail, End
<1>14. CASE
          ReconcileCampaign(h) \/ CampaignFound(h) \/ StartContact(h) \/
          PostLead(h)
  BY <1>14 DEF ReconcileCampaign, CampaignFound, Fail, End, StartContact,
     PostLead, PostOne
<1>15. CASE LeadBack(h) \/ ReadLead(h) \/ PostNote(h) \/ NoteBack(h)
  BY <1>15 DEF LeadBack, FailItem, Fail, End, ReadLead, PostNote, PostOne,
     NoteBack, NoteRejected, NoteDone
<1>16. CASE PostLink(h) \/ LinkBack(h)
  BY <1>16 DEF PostLink, PostOne, LinkBack, NoteRejected, NoteDone, FailItem,
     Fail, End
<1>17. QED
  BY <1>1, <1>2, <1>3, <1>4, <1>5, <1>6, <1>7, <1>8, <1>9, <1>10, <1>11,
     <1>12, <1>13, <1>14, <1>15, <1>16
     DEF ThreadStep, ClickStep, MembersStep, CampaignStep, ContactStep


\* Anything else changes no thread, no outcome of an item and no member's
\* owner but for somebody else's.
World ==
    \/ \E a \in Action : PrepareMembers(a) \/ PrepareCampaign(a) \/ Cancel(a)
                          \/ Expire(a)
    \/ \E o \in Lead : Enrol(o)
    \/ UNCHANGED vars

LEMMA StepIsThread ==
    ASSUME [Next]_vars
    PROVE  (\E h \in Handler : ThreadStep(h)) \/ World
BY DEF Next, Preview, ThreadStep, World

LEMMA WorldLeaves ==
    ASSUME TypeOK, World
    PROVE  /\ UNCHANGED local /\ clash' = clash
           /\ \A a \in Action, o \in Lead : item'[<<a, o>>] \in {item[<<a, o>>], "ready"}
           /\ \A r \in Record : member'[r] \in {member[r], Human}
<1> USE DEF TypeOK, SalesforceOK, fixed, history, row, items, salesforce, local
<1>1. ASSUME NEW a \in Action, PrepareMembers(a)
      PROVE  \A b \in Action, o \in Lead : item'[<<b, o>>] \in {item[<<b, o>>], "ready"}
  BY <1>1 DEF PrepareMembers, Store, Item
<1>2. CASE \E a \in Action : PrepareMembers(a)
  BY <1>1, <1>2 DEF PrepareMembers
<1>3. CASE \E o \in Lead : Enrol(o)
  BY <1>3 DEF Enrol
<1>4. CASE \E a \in Action : PrepareCampaign(a) \/ Cancel(a) \/ Expire(a)
  BY <1>4 DEF PrepareCampaign, Cancel, Expire
<1>5. CASE UNCHANGED vars
  BY <1>5 DEF vars
<1>6. QED
  BY <1>2, <1>3, <1>4, <1>5 DEF World

LEMMA MineStays ==
    ASSUME OpStays, NEW a \in Action, state[a] # "none"
    PROVE  /\ Mine(a)' = Mine(a) /\ \A ops : With(a, ops)' = With(a, ops)
           /\ \A o \in Lead : RecordOf(a, o)' = RecordOf(a, o)
BY DEF OpStays, Mine, With, RecordOf

LEMMA WorksOnStored ==
    ASSUME TypeOK, ClaimInv, NEW g \in Handler, pc[g] \notin {"idle", "lookup"}
    PROVE  job[g] \in Action /\ state[job[g]] # "none"
BY BusyHasJob DEF TypeOK, ClaimInv


---------------------------------------------------------------------------
(***************************************************************************)
(* What a thread has in hand belongs to its action.                        *)
(***************************************************************************)
Scope(g) ==
    /\ pc[g] \in Listed \cup {"rec_items"} =>
         todo[g] \subseteq Mine(job[g]) /\ ok[g] \subseteq Mine(job[g])
    /\ pc[g] = "rec_poll" => ok[g] \subseteq Mine(job[g])

LEMMA MemberOpsStep ==
    ASSUME TypeOK, ClaimInv, KindInv, ScopeInv, [Next]_vars
    PROVE  (\A b \in Action, x \in Lead : kind[b] = "members" =>
               op[<<b, x>>] \in {"none", "existing", "create"})'
<1> USE DEF TypeOK, RowsOK, LocalOK, KindInv, ScopeInv, fixed, history, row,
       items, salesforce, task, work, local, Goto, Working
<1>1. ASSUME NEW a \in Action, PrepareMembers(a)
      PROVE  (\A b \in Action, x \in Lead : kind[b] = "members" =>
               op[<<b, x>>] \in {"none", "existing", "create"})'
  BY <1>1 DEF PrepareMembers, Store, Delivered, Slice, OperationOf, Item
<1>2. ASSUME NEW a \in Action, PrepareCampaign(a) \/ Cancel(a)
      PROVE  (\A b \in Action, x \in Lead : kind[b] = "members" =>
               op[<<b, x>>] \in {"none", "existing", "create"})'
  BY <1>2 DEF PrepareCampaign, Open, Cancel
<1>3. ASSUME NEW h \in Handler, NEW a \in Action, NEW o \in Lead,
             AskContact(h, a, o)
      PROVE  (\A b \in Action, x \in Lead : kind[b] = "members" =>
               op[<<b, x>>] \in {"none", "existing", "create"})'
  BY <1>3 DEF AskContact, Stale, Pending
<1>4. ASSUME NEW h \in Handler, StoreContact(h)
      PROVE  (\A b \in Action, x \in Lead : kind[b] = "members" =>
               op[<<b, x>>] \in {"none", "existing", "create"})'
  <2>1. job[h] \in Action /\ kind[job[h]] = "contact" /\ kind' = kind
    BY <1>4, BusyHasJob DEF StoreContact
  <2>2. ASSUME NEW how \in Modes,
               Store(job[h], [o \in Lead |-> IF o = lead[h] THEN how ELSE "none"],
                     "ready")
        PROVE  \A b \in Action \ {job[h]}, x \in Lead :
                 op'[<<b, x>>] = op[<<b, x>>]
    BY <2>2 DEF Store, Item
  <2>3. op' = op \/ \A b \in Action \ {job[h]}, x \in Lead :
                      op'[<<b, x>>] = op[<<b, x>>]
    BY <1>4, <2>2 DEF StoreContact
  <2>4. QED
    BY <2>1, <2>3
<1>5. ASSUME NEW h \in Handler, NEW a \in Action, Click(h, a)
      PROVE  (\A b \in Action, x \in Lead : kind[b] = "members" =>
               op[<<b, x>>] \in {"none", "existing", "create"})'
  BY <1>5 DEF Click
<1>6. ASSUME NEW h \in Handler,
             TurnAway(h) \/ Ineligible(h) \/ ExpiredClick(h) \/ BeginCommit(h)
      PROVE  (\A b \in Action, x \in Lead : kind[b] = "members" =>
               op[<<b, x>>] \in {"none", "existing", "create"})'
  BY <1>6 DEF TurnAway, End, Ineligible, Replay, ExpiredClick, Fail,
     BeginCommit
<1>7. ASSUME NEW h \in Handler,
             Again(h) \/ Reply(h) \/ Disabled(h) \/ FrozenScopeRefused(h)
      PROVE  (\A b \in Action, x \in Lead : kind[b] = "members" =>
               op[<<b, x>>] \in {"none", "existing", "create"})'
  BY <1>7 DEF Again, Replay, Reply, End, Disabled, Fail, FrozenScopeRefused
<1>8. ASSUME NEW h \in Handler,
             Refused(h) \/ Lost(h) \/ ReadFails(h) \/ Crash(h)
      PROVE  (\A b \in Action, x \in Lead : kind[b] = "members" =>
               op[<<b, x>>] \in {"none", "existing", "create"})'
  BY <1>8 DEF Refused, Fail, End, Lost, ReadFails, Crash
<1>9. ASSUME NEW h \in Handler,
             EnsureStatus(h) \/ PostStatus(h) \/ StatusBack(h) \/
             CreateLeads(h)
      PROVE  (\A b \in Action, x \in Lead : kind[b] = "members" =>
               op[<<b, x>>] \in {"none", "existing", "create"})'
  BY <1>9 DEF EnsureStatus, BeginAttempt, PostStatus, StatusBack, End,
     FinishAttempt, CreateLeads
<1>10. ASSUME NEW h \in Handler,
             PostLeads(h) \/ LeadsBack(h) \/ StoreIds(h) \/ ReadBefore(h)
      PROVE  (\A b \in Action, x \in Lead : kind[b] = "members" =>
               op[<<b, x>>] \in {"none", "existing", "create"})'
  BY <1>10 DEF PostLeads, LeadsBack, FinishAttempt, StoreIds, ReadBefore
<1>11. ASSUME NEW h \in Handler,
             CreateMembers(h) \/ PostMembers(h) \/ MembersBack(h) \/ Pend(h)
      PROVE  (\A b \in Action, x \in Lead : kind[b] = "members" =>
               op[<<b, x>>] \in {"none", "existing", "create"})'
  BY <1>11 DEF CreateMembers, BeginAttempt, PostMembers, MembersBack,
     FinishAttempt, Pend
<1>12. ASSUME NEW h \in Handler,
             Poll(h) \/ Count(h) \/ Write(h) \/ Reconcile(h)
      PROVE  (\A b \in Action, x \in Lead : kind[b] = "members" =>
               op[<<b, x>>] \in {"none", "existing", "create"})'
  BY <1>12 DEF Poll, Count, Write, Reconcile
<1>13. ASSUME NEW h \in Handler, PollAgain(h) \/ CloseAttempts(h)
      PROVE  (\A b \in Action, x \in Lead : kind[b] = "members" =>
               op[<<b, x>>] \in {"none", "existing", "create"})'
  BY <1>13 DEF PollAgain, CloseAttempts
<1>14. ASSUME NEW h \in Handler, NEW o \in Lead,
             LeadIn(h, o) \/ AlreadyPresent(h, o) \/ Outcome(h, o) \/
             Settle(h, o)
      PROVE  (\A b \in Action, x \in Lead : kind[b] = "members" =>
               op[<<b, x>>] \in {"none", "existing", "create"})'
  BY <1>14 DEF LeadIn, AlreadyPresent, Outcome, Settle
<1>15. ASSUME NEW h \in Handler,
             StartCampaign(h) \/ PostCampaign(h) \/ CampaignBack(h) \/
             CampaignIn(h)
      PROVE  (\A b \in Action, x \in Lead : kind[b] = "members" =>
               op[<<b, x>>] \in {"none", "existing", "create"})'
  BY <1>15 DEF StartCampaign, BeginAttempt, PostCampaign, PostOne,
     CampaignBack, FinishAttempt, CampaignIn, Fail, End
<1>16. ASSUME NEW h \in Handler,
             ReconcileCampaign(h) \/ CampaignFound(h) \/ StartContact(h) \/
             PostLead(h)
      PROVE  (\A b \in Action, x \in Lead : kind[b] = "members" =>
               op[<<b, x>>] \in {"none", "existing", "create"})'
  BY <1>16 DEF ReconcileCampaign, CampaignFound, Fail, End, StartContact,
     PostLead, PostOne
<1>17. ASSUME NEW h \in Handler,
             LeadBack(h) \/ ReadLead(h) \/ PostNote(h) \/ NoteBack(h)
      PROVE  (\A b \in Action, x \in Lead : kind[b] = "members" =>
               op[<<b, x>>] \in {"none", "existing", "create"})'
  BY <1>17 DEF LeadBack, FailItem, Fail, End, ReadLead, PostNote, PostOne,
     NoteBack, NoteRejected, NoteDone
<1>18. ASSUME NEW h \in Handler, PostLink(h) \/ LinkBack(h)
      PROVE  (\A b \in Action, x \in Lead : kind[b] = "members" =>
               op[<<b, x>>] \in {"none", "existing", "create"})'
  BY <1>18 DEF PostLink, PostOne, LinkBack, NoteRejected, NoteDone, FailItem,
     Fail, End
<1>19. ASSUME NEW a \in Action, Expire(a)
      PROVE  (\A b \in Action, x \in Lead : kind[b] = "members" =>
               op[<<b, x>>] \in {"none", "existing", "create"})'
  BY <1>19 DEF Expire
<1>20. ASSUME NEW o \in Lead, Enrol(o)
      PROVE  (\A b \in Action, x \in Lead : kind[b] = "members" =>
               op[<<b, x>>] \in {"none", "existing", "create"})'
  BY <1>20 DEF Enrol
<1>21. CASE UNCHANGED vars
  BY <1>21 DEF vars
<1>22. QED
  BY <1>1, <1>2, <1>3, <1>4, <1>5, <1>6, <1>7, <1>8, <1>9, <1>10, <1>11,
     <1>12, <1>13, <1>14, <1>15, <1>16, <1>17, <1>18, <1>19, <1>20, <1>21
     DEF Next, Preview, ClickStep, MembersStep, CampaignStep, ContactStep

LEMMA ScopeOther ==
    ASSUME TypeOK, ClaimInv, ScopeInv, OpStays, NEW g \in Handler,
           UNCHANGED <<pc[g], job[g], todo[g], ok[g]>>
    PROVE  Scope(g)'
<1>1. CASE pc[g] \in {"idle", "lookup"}
  BY <1>1 DEF Scope, Listed
<1>2. CASE pc[g] \notin {"idle", "lookup"}
  <2>1. Mine(job[g])' = Mine(job[g])
    BY <1>2, WorksOnStored, MineStays DEF Mine, With, OpStays
  <2>2. QED
    BY <2>1 DEF Scope, ScopeInv
<1>3. QED
  BY <1>1, <1>2

LEMMA ScopeOwn ==
    ASSUME TypeOK, ClaimInv, KindInv, ScopeInv, OpStays,
           NEW h \in Handler, ThreadStep(h)
    PROVE  Scope(h)'
<1> USE DEF TypeOK, LocalOK, Scope, ScopeInv, Listed, OpStays, Mine, With,
       fixed, history, row, items, salesforce, task, work, local, Goto,
       Working
<1>1. ASSUME NEW a \in Action, NEW o \in Lead, AskContact(h, a, o)
      PROVE  Scope(h)'
  BY <1>1 DEF AskContact, Stale, Pending
<1>2. CASE StoreContact(h)
  BY <1>2 DEF StoreContact, Store, Modes, End
<1>3. ASSUME NEW a \in Action, Click(h, a)
      PROVE  Scope(h)'
  BY <1>3 DEF Click
<1>4. CASE TurnAway(h) \/ Ineligible(h) \/ ExpiredClick(h) \/ BeginCommit(h)
  BY <1>4 DEF TurnAway, End, Ineligible, Replay, ExpiredClick, Fail,
     BeginCommit
<1>5. CASE Again(h) \/ Reply(h) \/ Disabled(h) \/ FrozenScopeRefused(h)
  BY <1>5 DEF Again, Replay, Reply, End, Disabled, Fail, FrozenScopeRefused
<1>6. CASE Refused(h) \/ Lost(h) \/ ReadFails(h) \/ Crash(h)
  BY <1>6 DEF Refused, Fail, End, Lost, ReadFails, Crash
<1>7. CASE EnsureStatus(h) \/ PostStatus(h) \/ StatusBack(h) \/ CreateLeads(h)
  BY <1>7 DEF EnsureStatus, BeginAttempt, PostStatus, StatusBack, End,
     FinishAttempt, CreateLeads
<1>8. CASE PostLeads(h) \/ LeadsBack(h) \/ StoreIds(h)
  BY <1>8 DEF PostLeads, LeadsBack, FinishAttempt, StoreIds
<1>9. CASE ReadBefore(h)
  BY CountTypes, BusyHasJob, <1>9 DEF ReadBefore, Seen
<1>10. CASE CreateMembers(h) \/ PostMembers(h) \/ MembersBack(h) \/ Pend(h)
  BY <1>10 DEF CreateMembers, BeginAttempt, PostMembers, MembersBack,
     FinishAttempt, Pend
<1>11. CASE Poll(h) \/ Count(h) \/ Write(h) \/ Reconcile(h)
  BY <1>11 DEF Poll, Count, Write, Reconcile
<1>12. CASE PollAgain(h) \/ CloseAttempts(h)
  BY <1>12 DEF PollAgain, CloseAttempts
<1>13. ASSUME NEW o \in Lead,
             LeadIn(h, o) \/ AlreadyPresent(h, o) \/ Outcome(h, o) \/
             Settle(h, o)
      PROVE  Scope(h)'
  BY <1>13 DEF LeadIn, AlreadyPresent, Outcome, Settle
<1>14. CASE
          StartCampaign(h) \/ PostCampaign(h) \/ CampaignBack(h) \/
          CampaignIn(h)
  BY <1>14 DEF StartCampaign, BeginAttempt, PostCampaign, PostOne,
     CampaignBack, FinishAttempt, CampaignIn, Fail, End
<1>15. CASE
          ReconcileCampaign(h) \/ CampaignFound(h) \/ StartContact(h) \/
          PostLead(h)
  BY <1>15 DEF ReconcileCampaign, CampaignFound, Fail, End, StartContact,
     PostLead, PostOne
<1>16. CASE LeadBack(h) \/ ReadLead(h) \/ PostNote(h) \/ NoteBack(h)
  BY <1>16 DEF LeadBack, FailItem, Fail, End, ReadLead, PostNote, PostOne,
     NoteBack, NoteRejected, NoteDone
<1>17. CASE PostLink(h) \/ LinkBack(h)
  BY <1>17 DEF PostLink, PostOne, LinkBack, NoteRejected, NoteDone, FailItem,
     Fail, End
<1>18. QED
  BY <1>1, <1>2, <1>3, <1>4, <1>5, <1>6, <1>7, <1>8, <1>9, <1>10, <1>11,
     <1>12, <1>13, <1>14, <1>15, <1>16, <1>17
     DEF ThreadStep, ClickStep, MembersStep, CampaignStep, ContactStep


LEMMA ScopeStep ==
    ASSUME TypeOK, ClaimInv, KindInv, ScopeInv, [Next]_vars
    PROVE  ScopeInv'
<1>1. OpStays
  BY OpStep
<1>2. ASSUME NEW g \in Handler
      PROVE  Scope(g)'
  <2>1. CASE World
    BY <1>1, <2>1, ScopeOther, WorldLeaves DEF local, task, work
  <2>2. ASSUME NEW h \in Handler, ThreadStep(h)
        PROVE  Scope(g)'
    <3>1. CASE g = h
      BY <1>1, <2>2, <3>1, ScopeOwn
    <3>2. CASE g # h
      BY <1>1, <2>2, <3>2, ScopeOther, OthersStep DEF OthersStay
    <3>3. QED
      BY <3>1, <3>2
  <2>3. QED
    BY <2>1, <2>2, StepIsThread
<1>3. (\A a \in Action, o \in Lead : kind[a] = "members" =>
         op[<<a, o>>] \in {"none", "existing", "create"})'
  BY MemberOpsStep
<1>4. QED
  BY <1>2, <1>3 DEF ScopeInv, Scope


---------------------------------------------------------------------------
(***************************************************************************)
(* What becomes of an item and of a member of the campaign.                *)
(***************************************************************************)
LEMMA SetItemsIs ==
    ASSUME NEW a \in Action, NEW os, NEW s, SetItems(a, os, s)
    PROVE  \A b \in Action, x \in Lead :
             item'[<<b, x>>] = IF b = a /\ x \in os THEN s ELSE item[<<b, x>>]
<1>1. ASSUME NEW b \in Action, NEW x \in Lead
      PROVE  item'[<<b, x>>] = IF b = a /\ x \in os THEN s ELSE item[<<b, x>>]
  <2>1. <<b, x>> \in Item /\ <<b, x>>[1] = b /\ <<b, x>>[2] = x
    BY DEF Item
  <2>2. QED
    BY <2>1 DEF SetItems
<1>2. QED
  BY <1>1

\* No two organizations of an action share a record.
LEMMA OwnRecord ==
    ASSUME NEW a \in Action, NEW o \in Lead, NEW x \in Lead,
           RecordOf(a, o) = RecordOf(a, x)
    PROVE  o = x
<1>1. <<a, o>> \notin Lead /\ <<a, x>> \notin Lead
  BY CrmAssumption
<1>2. <<a, o>> = <<a, x>> => o = x
  OBVIOUS
<1>3. QED
  BY <1>1, <1>2 DEF RecordOf

LEMMA RecordIs ==
    ASSUME NEW a \in Action, NEW o \in Lead
    PROVE  RecordOf(a, o) \in Record
BY DEF RecordOf, Record, Item

\* Who is on the campaign stays, as whose it is.
MembersStay == \A r \in Record : member[r] # NoAction => member'[r] = member[r]

\* Only the POST of members of a run makes a member for its action.
MadeBy(h) == \A r \in Record :
    \/ member'[r] = member[r]
    \/ pc[h] = "members_post" /\ member'[r] = job[h]

\* Only a run of membership fails an item of membership.
FailedBy(h) == \A a \in Action, o \in Lead :
    kind[a] = "members" /\ item'[<<a, o>>] = "failed" =>
        \/ item[<<a, o>>] = "failed"
        \/ a = job[h] /\ pc[h] \in {"leads_in", "outcome"}

\* Only what was seen on the campaign is reported on it.
SeenBy == \A a \in Action, o \in Lead :
    kind[a] = "members" /\ item'[<<a, o>>] \in OnIt =>
        item[<<a, o>>] \in OnIt \/ OnCampaign(a, o)

LEMMA MembersStayStep ==
    ASSUME TypeOK, [Next]_vars
    PROVE  MembersStay
<1> USE DEF TypeOK, LocalOK, SalesforceOK, MembersStay, fixed, history, row,
       items, salesforce, task, work, local, Goto, Working
<1>1. ASSUME NEW a \in Action,
             PrepareMembers(a) \/ PrepareCampaign(a) \/ Cancel(a)
      PROVE  MembersStay
  BY <1>1 DEF PrepareMembers, Store, Delivered, Slice, PrepareCampaign, Open,
     Cancel
<1>2. ASSUME NEW h \in Handler, NEW a \in Action, NEW o \in Lead,
             AskContact(h, a, o)
      PROVE  MembersStay
  BY <1>2 DEF AskContact, Stale, Pending
<1>3. ASSUME NEW h \in Handler, StoreContact(h)
      PROVE  MembersStay
  BY <1>3 DEF StoreContact, Store, Modes, End
<1>4. ASSUME NEW h \in Handler, NEW a \in Action, Click(h, a)
      PROVE  MembersStay
  BY <1>4 DEF Click
<1>5. ASSUME NEW h \in Handler,
             TurnAway(h) \/ Ineligible(h) \/ ExpiredClick(h) \/ BeginCommit(h)
      PROVE  MembersStay
  BY <1>5 DEF TurnAway, End, Ineligible, Replay, ExpiredClick, Fail,
     BeginCommit
<1>6. ASSUME NEW h \in Handler,
             Again(h) \/ Reply(h) \/ Disabled(h) \/ FrozenScopeRefused(h)
      PROVE  MembersStay
  BY <1>6 DEF Again, Replay, Reply, End, Disabled, Fail, FrozenScopeRefused
<1>7. ASSUME NEW h \in Handler,
             Refused(h) \/ Lost(h) \/ ReadFails(h) \/ Crash(h)
      PROVE  MembersStay
  BY <1>7 DEF Refused, Fail, End, Lost, ReadFails, Crash
<1>8. ASSUME NEW h \in Handler,
             EnsureStatus(h) \/ PostStatus(h) \/ StatusBack(h) \/
             CreateLeads(h)
      PROVE  MembersStay
  BY <1>8 DEF EnsureStatus, BeginAttempt, PostStatus, StatusBack, End,
     FinishAttempt, CreateLeads
<1>9. ASSUME NEW h \in Handler,
             PostLeads(h) \/ LeadsBack(h) \/ StoreIds(h) \/ ReadBefore(h)
      PROVE  MembersStay
  BY <1>9 DEF PostLeads, LeadsBack, FinishAttempt, StoreIds, ReadBefore
<1>10. ASSUME NEW h \in Handler,
             CreateMembers(h) \/ PostMembers(h) \/ MembersBack(h) \/ Pend(h)
      PROVE  MembersStay
  BY <1>10 DEF CreateMembers, BeginAttempt, PostMembers, OnCampaign,
     MembersBack, FinishAttempt, Pend
<1>11. ASSUME NEW h \in Handler,
             Poll(h) \/ Count(h) \/ Write(h) \/ Reconcile(h)
      PROVE  MembersStay
  BY <1>11 DEF Poll, Count, Write, Reconcile
<1>12. ASSUME NEW h \in Handler, PollAgain(h) \/ CloseAttempts(h)
      PROVE  MembersStay
  BY <1>12 DEF PollAgain, CloseAttempts
<1>13. ASSUME NEW h \in Handler, NEW o \in Lead,
             LeadIn(h, o) \/ AlreadyPresent(h, o) \/ Outcome(h, o) \/
             Settle(h, o)
      PROVE  MembersStay
  BY <1>13 DEF LeadIn, AlreadyPresent, Outcome, Settle
<1>14. ASSUME NEW h \in Handler,
             StartCampaign(h) \/ PostCampaign(h) \/ CampaignBack(h) \/
             CampaignIn(h)
      PROVE  MembersStay
  BY <1>14 DEF StartCampaign, BeginAttempt, PostCampaign, PostOne,
     CampaignBack, FinishAttempt, CampaignIn, Fail, End
<1>15. ASSUME NEW h \in Handler,
             ReconcileCampaign(h) \/ CampaignFound(h) \/ StartContact(h) \/
             PostLead(h)
      PROVE  MembersStay
  BY <1>15 DEF ReconcileCampaign, CampaignFound, Fail, End, StartContact,
     PostLead, PostOne
<1>16. ASSUME NEW h \in Handler,
             LeadBack(h) \/ ReadLead(h) \/ PostNote(h) \/ NoteBack(h)
      PROVE  MembersStay
  BY <1>16 DEF LeadBack, FailItem, Fail, End, ReadLead, PostNote, PostOne,
     NoteBack, NoteRejected, NoteDone
<1>17. ASSUME NEW h \in Handler, PostLink(h) \/ LinkBack(h)
      PROVE  MembersStay
  BY <1>17 DEF PostLink, PostOne, LinkBack, NoteRejected, NoteDone, FailItem,
     Fail, End
<1>18. ASSUME NEW a \in Action, Expire(a)
      PROVE  MembersStay
  BY <1>18 DEF Expire
<1>19. ASSUME NEW o \in Lead, Enrol(o)
      PROVE  MembersStay
  BY <1>19 DEF Enrol
<1>20. CASE UNCHANGED vars
  BY <1>20 DEF vars
<1>21. QED
  BY <1>1, <1>2, <1>3, <1>4, <1>5, <1>6, <1>7, <1>8, <1>9, <1>10, <1>11,
     <1>12, <1>13, <1>14, <1>15, <1>16, <1>17, <1>18, <1>19, <1>20
     DEF Next, Preview, ClickStep, MembersStep, CampaignStep, ContactStep

LEMMA MadeByStep ==
    ASSUME TypeOK,
           NEW h \in Handler, ThreadStep(h)
    PROVE  MadeBy(h)
<1> USE DEF TypeOK, LocalOK, SalesforceOK, MadeBy, fixed, history, row,
       items, salesforce, task, work, local, Goto, Working
<1>1. ASSUME NEW a \in Action, NEW o \in Lead, AskContact(h, a, o)
      PROVE  MadeBy(h)
  BY <1>1 DEF AskContact, Stale, Pending
<1>2. CASE StoreContact(h)
  BY <1>2 DEF StoreContact, Store, Modes, End
<1>3. ASSUME NEW a \in Action, Click(h, a)
      PROVE  MadeBy(h)
  BY <1>3 DEF Click
<1>4. CASE TurnAway(h) \/ Ineligible(h) \/ ExpiredClick(h) \/ BeginCommit(h)
  BY <1>4 DEF TurnAway, End, Ineligible, Replay, ExpiredClick, Fail,
     BeginCommit
<1>5. CASE Again(h) \/ Reply(h) \/ Disabled(h) \/ FrozenScopeRefused(h)
  BY <1>5 DEF Again, Replay, Reply, End, Disabled, Fail, FrozenScopeRefused
<1>6. CASE Refused(h) \/ Lost(h) \/ ReadFails(h) \/ Crash(h)
  BY <1>6 DEF Refused, Fail, End, Lost, ReadFails, Crash
<1>7. CASE EnsureStatus(h) \/ PostStatus(h) \/ StatusBack(h) \/ CreateLeads(h)
  BY <1>7 DEF EnsureStatus, BeginAttempt, PostStatus, StatusBack, End,
     FinishAttempt, CreateLeads
<1>8. CASE PostLeads(h) \/ LeadsBack(h) \/ StoreIds(h) \/ ReadBefore(h)
  BY <1>8 DEF PostLeads, LeadsBack, FinishAttempt, StoreIds, ReadBefore
<1>9. CASE CreateMembers(h) \/ PostMembers(h) \/ MembersBack(h) \/ Pend(h)
  BY <1>9 DEF CreateMembers, BeginAttempt, PostMembers, MembersBack,
     FinishAttempt, Pend
<1>10. CASE Poll(h) \/ Count(h) \/ Write(h) \/ Reconcile(h)
  BY <1>10 DEF Poll, Count, Write, Reconcile
<1>11. CASE PollAgain(h) \/ CloseAttempts(h)
  BY <1>11 DEF PollAgain, CloseAttempts
<1>12. ASSUME NEW o \in Lead,
             LeadIn(h, o) \/ AlreadyPresent(h, o) \/ Outcome(h, o) \/
             Settle(h, o)
      PROVE  MadeBy(h)
  BY <1>12 DEF LeadIn, AlreadyPresent, Outcome, Settle
<1>13. CASE
          StartCampaign(h) \/ PostCampaign(h) \/ CampaignBack(h) \/
          CampaignIn(h)
  BY <1>13 DEF StartCampaign, BeginAttempt, PostCampaign, PostOne,
     CampaignBack, FinishAttempt, CampaignIn, Fail, End
<1>14. CASE
          ReconcileCampaign(h) \/ CampaignFound(h) \/ StartContact(h) \/
          PostLead(h)
  BY <1>14 DEF ReconcileCampaign, CampaignFound, Fail, End, StartContact,
     PostLead, PostOne
<1>15. CASE LeadBack(h) \/ ReadLead(h) \/ PostNote(h) \/ NoteBack(h)
  BY <1>15 DEF LeadBack, FailItem, Fail, End, ReadLead, PostNote, PostOne,
     NoteBack, NoteRejected, NoteDone
<1>16. CASE PostLink(h) \/ LinkBack(h)
  BY <1>16 DEF PostLink, PostOne, LinkBack, NoteRejected, NoteDone, FailItem,
     Fail, End
<1>17. QED
  BY <1>1, <1>2, <1>3, <1>4, <1>5, <1>6, <1>7, <1>8, <1>9, <1>10, <1>11,
     <1>12, <1>13, <1>14, <1>15, <1>16
     DEF ThreadStep, ClickStep, MembersStep, CampaignStep, ContactStep

LEMMA FailedByStep ==
    ASSUME TypeOK, KindInv,
           NEW h \in Handler, ThreadStep(h)
    PROVE  FailedBy(h)
<1> USE DEF TypeOK, LocalOK, FailedBy, fixed, history, row, items,
       salesforce, task, work, local, Goto, Working
<1>1. ASSUME NEW a \in Action, NEW o \in Lead, AskContact(h, a, o)
      PROVE  FailedBy(h)
  BY <1>1 DEF AskContact, Stale, Pending
<1>2. CASE StoreContact(h)
  <2>1. item' = item \/ \E how \in Modes :
                           Store(job[h], [o \in Lead |-> IF o = lead[h] THEN how ELSE "none"],
                                 "ready")
    BY <1>2 DEF StoreContact
  <2>2. \A a \in Action, o \in Lead : item'[<<a, o>>] \in {item[<<a, o>>], "ready"}
    BY <2>1, StoreItems
  <2>3. QED
    BY <2>2
<1>3. ASSUME NEW a \in Action, Click(h, a)
      PROVE  FailedBy(h)
  BY <1>3 DEF Click
<1>4. CASE TurnAway(h) \/ Ineligible(h) \/ ExpiredClick(h) \/ BeginCommit(h)
  BY <1>4 DEF TurnAway, End, Ineligible, Replay, ExpiredClick, Fail,
     BeginCommit
<1>5. CASE Again(h) \/ Reply(h) \/ Disabled(h) \/ FrozenScopeRefused(h)
  BY <1>5 DEF Again, Replay, Reply, End, Disabled, Fail, FrozenScopeRefused
<1>6. CASE Refused(h) \/ Lost(h) \/ ReadFails(h) \/ Crash(h)
  BY <1>6 DEF Refused, Fail, End, Lost, ReadFails, Crash
<1>7. CASE EnsureStatus(h) \/ PostStatus(h) \/ StatusBack(h) \/ CreateLeads(h)
  BY <1>7 DEF EnsureStatus, BeginAttempt, PostStatus, StatusBack, End,
     FinishAttempt, CreateLeads
<1>8. CASE PostLeads(h) \/ LeadsBack(h) \/ StoreIds(h) \/ ReadBefore(h)
  BY <1>8 DEF PostLeads, LeadsBack, FinishAttempt, StoreIds, ReadBefore
<1>9. CASE CreateMembers(h) \/ PostMembers(h) \/ MembersBack(h)
  BY <1>9 DEF CreateMembers, BeginAttempt, PostMembers, MembersBack,
     FinishAttempt
<1>10. CASE Pend(h)
  <2>1. job[h] \in Action
    BY <1>10, BusyHasJob DEF Pend
  <2>2. QED
    BY <1>10, <2>1, SetItemsIs DEF Pend, MarkVerified, Credit
<1>11. CASE Poll(h) \/ Count(h) \/ Write(h) \/ Reconcile(h)
  BY <1>11 DEF Poll, Count, Write, Reconcile
<1>12. CASE PollAgain(h) \/ CloseAttempts(h)
  BY <1>12 DEF PollAgain, CloseAttempts
<1>13. ASSUME NEW o \in Lead, LeadIn(h, o)
      PROVE  FailedBy(h)
  <2>1. job[h] \in Action
    BY <1>13, BusyHasJob DEF LeadIn
  <2>2. QED
    BY <1>13, <2>1, SetItemsIs DEF LeadIn, MarkVerified, Credit
<1>14. ASSUME NEW o \in Lead, AlreadyPresent(h, o)
      PROVE  FailedBy(h)
  <2>1. job[h] \in Action
    BY <1>14, BusyHasJob DEF AlreadyPresent
  <2>2. QED
    BY <1>14, <2>1, SetItemsIs DEF AlreadyPresent, MarkVerified, Credit
<1>15. ASSUME NEW o \in Lead, Outcome(h, o)
      PROVE  FailedBy(h)
  <2>1. job[h] \in Action
    BY <1>15, BusyHasJob DEF Outcome
  <2>2. QED
    BY <1>15, <2>1, SetItemsIs DEF Outcome, MarkVerified, Credit
<1>16. ASSUME NEW o \in Lead, Settle(h, o)
      PROVE  FailedBy(h)
  <2>1. job[h] \in Action
    BY <1>16, BusyHasJob DEF Settle
  <2>2. QED
    BY <1>16, <2>1, SetItemsIs DEF Settle, MarkVerified, Credit
<1>17. CASE
          StartCampaign(h) \/ PostCampaign(h) \/ CampaignBack(h) \/
          CampaignIn(h)
  BY <1>17 DEF StartCampaign, BeginAttempt, PostCampaign, PostOne,
     CampaignBack, FinishAttempt, CampaignIn, Fail, End
<1>18. CASE
          ReconcileCampaign(h) \/ CampaignFound(h) \/ StartContact(h) \/
          PostLead(h)
  BY <1>18 DEF ReconcileCampaign, CampaignFound, Fail, End, StartContact,
     PostLead, PostOne
<1>19. CASE LeadBack(h)
  <2>1. pc[h] = "lead_back" /\ kind[job[h]] # "members" /\ job[h] \in Action
    BY <1>19, BusyHasJob DEF LeadBack, KindInv, ContactRun
  <2>2. item' = item \/ \E s \in ItemState, os \in SUBSET Lead : SetItems(job[h], os, s)
    BY <1>19, <2>1, CountTypes DEF LeadBack, FailItem, Fail, End, ItemState
  <2>3. QED
    BY <2>1, <2>2, SetItemsIs
<1>20. CASE ReadLead(h) \/ PostNote(h)
  BY <1>20 DEF ReadLead, PostNote, PostOne
<1>21. CASE NoteBack(h)
  <2>1. pc[h] = "note_back" /\ kind[job[h]] # "members" /\ job[h] \in Action
    BY <1>21, BusyHasJob DEF NoteBack, KindInv, ContactRun
  <2>2. item' = item \/ \E s \in ItemState, os \in SUBSET Lead : SetItems(job[h], os, s)
    BY <1>21, <2>1, CountTypes DEF NoteBack, NoteRejected, NoteDone, FailItem,
       Fail, End, ItemState
  <2>3. QED
    BY <2>1, <2>2, SetItemsIs
<1>22. CASE PostLink(h)
  BY <1>22 DEF PostLink, PostOne
<1>23. CASE LinkBack(h)
  <2>1. pc[h] = "link_back" /\ kind[job[h]] # "members" /\ job[h] \in Action
    BY <1>23, BusyHasJob DEF LinkBack, KindInv, ContactRun
  <2>2. item' = item \/ \E s \in ItemState, os \in SUBSET Lead : SetItems(job[h], os, s)
    BY <1>23, <2>1, CountTypes DEF LinkBack, NoteRejected, NoteDone, FailItem,
       Fail, End, ItemState
  <2>3. QED
    BY <2>1, <2>2, SetItemsIs
<1>24. QED
  BY <1>1, <1>2, <1>3, <1>4, <1>5, <1>6, <1>7, <1>8, <1>9, <1>10, <1>11,
     <1>12, <1>13, <1>14, <1>15, <1>16, <1>17, <1>18, <1>19, <1>20, <1>21,
     <1>22, <1>23
     DEF ThreadStep, ClickStep, MembersStep, CampaignStep, ContactStep

LEMMA SeenByStep ==
    ASSUME TypeOK, KindInv, TruthInv, [Next]_vars
    PROVE  SeenBy
<1> USE DEF TypeOK, LocalOK, SeenBy, fixed, history, row, items, salesforce,
       task, work, local, Goto, Working
<1>1. ASSUME NEW a \in Action, PrepareMembers(a)
      PROVE  SeenBy
  <2>1. \A b \in Action, o \in Lead : item'[<<b, o>>] \in {item[<<b, o>>], "ready"}
    BY <1>1 DEF PrepareMembers, Store, Item
  <2>2. QED
    BY <2>1 DEF OnIt
<1>2. ASSUME NEW a \in Action, PrepareCampaign(a) \/ Cancel(a)
      PROVE  SeenBy
  BY <1>2 DEF PrepareCampaign, Open, Cancel
<1>3. ASSUME NEW h \in Handler, NEW a \in Action, NEW o \in Lead,
             AskContact(h, a, o)
      PROVE  SeenBy
  BY <1>3 DEF AskContact, Stale, Pending
<1>4. ASSUME NEW h \in Handler, StoreContact(h)
      PROVE  SeenBy
  <2>1. item' = item \/ \E how \in Modes :
                           Store(job[h], [o \in Lead |-> IF o = lead[h] THEN how ELSE "none"],
                                 "ready")
    BY <1>4 DEF StoreContact
  <2>2. \A a \in Action, o \in Lead : item'[<<a, o>>] \in {item[<<a, o>>], "ready"}
    BY <2>1, StoreItems
  <2>3. QED
    BY <2>2 DEF OnIt
<1>5. ASSUME NEW h \in Handler, NEW a \in Action, Click(h, a)
      PROVE  SeenBy
  BY <1>5 DEF Click
<1>6. ASSUME NEW h \in Handler,
             TurnAway(h) \/ Ineligible(h) \/ ExpiredClick(h) \/ BeginCommit(h)
      PROVE  SeenBy
  BY <1>6 DEF TurnAway, End, Ineligible, Replay, ExpiredClick, Fail,
     BeginCommit
<1>7. ASSUME NEW h \in Handler,
             Again(h) \/ Reply(h) \/ Disabled(h) \/ FrozenScopeRefused(h)
      PROVE  SeenBy
  BY <1>7 DEF Again, Replay, Reply, End, Disabled, Fail, FrozenScopeRefused
<1>8. ASSUME NEW h \in Handler,
             Refused(h) \/ Lost(h) \/ ReadFails(h) \/ Crash(h)
      PROVE  SeenBy
  BY <1>8 DEF Refused, Fail, End, Lost, ReadFails, Crash
<1>9. ASSUME NEW h \in Handler,
             EnsureStatus(h) \/ PostStatus(h) \/ StatusBack(h) \/
             CreateLeads(h)
      PROVE  SeenBy
  BY <1>9 DEF EnsureStatus, BeginAttempt, PostStatus, StatusBack, End,
     FinishAttempt, CreateLeads
<1>10. ASSUME NEW h \in Handler,
             PostLeads(h) \/ LeadsBack(h) \/ StoreIds(h) \/ ReadBefore(h)
      PROVE  SeenBy
  BY <1>10 DEF PostLeads, LeadsBack, FinishAttempt, StoreIds, ReadBefore
<1>11. ASSUME NEW h \in Handler,
             CreateMembers(h) \/ PostMembers(h) \/ MembersBack(h)
      PROVE  SeenBy
  BY <1>11 DEF CreateMembers, BeginAttempt, PostMembers, MembersBack,
     FinishAttempt
<1>12. ASSUME NEW h \in Handler, Pend(h)
      PROVE  SeenBy
  <2>1. job[h] \in Action
    BY <1>12, BusyHasJob DEF Pend
  <2>2. QED
    BY <1>12, <2>1, SetItemsIs DEF Pend, MarkVerified, Credit, OnIt, TruthInv,
       Truth
<1>13. ASSUME NEW h \in Handler,
             Poll(h) \/ Count(h) \/ Write(h) \/ Reconcile(h)
      PROVE  SeenBy
  BY <1>13 DEF Poll, Count, Write, Reconcile
<1>14. ASSUME NEW h \in Handler, PollAgain(h) \/ CloseAttempts(h)
      PROVE  SeenBy
  BY <1>14 DEF PollAgain, CloseAttempts
<1>15. ASSUME NEW h \in Handler, NEW o \in Lead, LeadIn(h, o)
      PROVE  SeenBy
  <2>1. job[h] \in Action
    BY <1>15, BusyHasJob DEF LeadIn
  <2>2. QED
    BY <1>15, <2>1, SetItemsIs DEF LeadIn, MarkVerified, Credit, OnIt,
       TruthInv, Truth
<1>16. ASSUME NEW h \in Handler, NEW o \in Lead, AlreadyPresent(h, o)
      PROVE  SeenBy
  <2>1. job[h] \in Action
    BY <1>16, BusyHasJob DEF AlreadyPresent
  <2>2. QED
    BY <1>16, <2>1, SetItemsIs DEF AlreadyPresent, MarkVerified, Credit, OnIt,
       TruthInv, Truth
<1>17. ASSUME NEW h \in Handler, NEW o \in Lead, Outcome(h, o)
      PROVE  SeenBy
  <2>1. job[h] \in Action
    BY <1>17, BusyHasJob DEF Outcome
  <2>2. QED
    BY <1>17, <2>1, SetItemsIs DEF Outcome, MarkVerified, Credit, OnIt,
       TruthInv, Truth
<1>18. ASSUME NEW h \in Handler, NEW o \in Lead, Settle(h, o)
      PROVE  SeenBy
  <2>1. job[h] \in Action
    BY <1>18, BusyHasJob DEF Settle
  <2>2. QED
    BY <1>18, <2>1, SetItemsIs DEF Settle, MarkVerified, Credit, OnIt,
       TruthInv, Truth
<1>19. ASSUME NEW h \in Handler,
             StartCampaign(h) \/ PostCampaign(h) \/ CampaignBack(h) \/
             CampaignIn(h)
      PROVE  SeenBy
  BY <1>19 DEF StartCampaign, BeginAttempt, PostCampaign, PostOne,
     CampaignBack, FinishAttempt, CampaignIn, Fail, End
<1>20. ASSUME NEW h \in Handler,
             ReconcileCampaign(h) \/ CampaignFound(h) \/ StartContact(h) \/
             PostLead(h)
      PROVE  SeenBy
  BY <1>20 DEF ReconcileCampaign, CampaignFound, Fail, End, StartContact,
     PostLead, PostOne
<1>21. ASSUME NEW h \in Handler, LeadBack(h)
      PROVE  SeenBy
  <2>1. pc[h] = "lead_back" /\ kind[job[h]] # "members" /\ job[h] \in Action
    BY <1>21, BusyHasJob DEF LeadBack, KindInv, ContactRun
  <2>2. item' = item \/ \E s \in ItemState, os \in SUBSET Lead : SetItems(job[h], os, s)
    BY <1>21, <2>1, CountTypes DEF LeadBack, FailItem, Fail, End, ItemState
  <2>3. QED
    BY <2>1, <2>2, SetItemsIs
<1>22. ASSUME NEW h \in Handler, ReadLead(h) \/ PostNote(h)
      PROVE  SeenBy
  BY <1>22 DEF ReadLead, PostNote, PostOne
<1>23. ASSUME NEW h \in Handler, NoteBack(h)
      PROVE  SeenBy
  <2>1. pc[h] = "note_back" /\ kind[job[h]] # "members" /\ job[h] \in Action
    BY <1>23, BusyHasJob DEF NoteBack, KindInv, ContactRun
  <2>2. item' = item \/ \E s \in ItemState, os \in SUBSET Lead : SetItems(job[h], os, s)
    BY <1>23, <2>1, CountTypes DEF NoteBack, NoteRejected, NoteDone, FailItem,
       Fail, End, ItemState
  <2>3. QED
    BY <2>1, <2>2, SetItemsIs
<1>24. ASSUME NEW h \in Handler, PostLink(h)
      PROVE  SeenBy
  BY <1>24 DEF PostLink, PostOne
<1>25. ASSUME NEW h \in Handler, LinkBack(h)
      PROVE  SeenBy
  <2>1. pc[h] = "link_back" /\ kind[job[h]] # "members" /\ job[h] \in Action
    BY <1>25, BusyHasJob DEF LinkBack, KindInv, ContactRun
  <2>2. item' = item \/ \E s \in ItemState, os \in SUBSET Lead : SetItems(job[h], os, s)
    BY <1>25, <2>1, CountTypes DEF LinkBack, NoteRejected, NoteDone, FailItem,
       Fail, End, ItemState
  <2>3. QED
    BY <2>1, <2>2, SetItemsIs
<1>26. ASSUME NEW a \in Action, Expire(a)
      PROVE  SeenBy
  BY <1>26 DEF Expire
<1>27. ASSUME NEW o \in Lead, Enrol(o)
      PROVE  SeenBy
  BY <1>27 DEF Enrol
<1>28. CASE UNCHANGED vars
  BY <1>28 DEF vars
<1>29. QED
  BY <1>1, <1>2, <1>3, <1>4, <1>5, <1>6, <1>7, <1>8, <1>9, <1>10, <1>11,
     <1>12, <1>13, <1>14, <1>15, <1>16, <1>17, <1>18, <1>19, <1>20, <1>21,
     <1>22, <1>23, <1>24, <1>25, <1>26, <1>27, <1>28
     DEF Next, Preview, ClickStep, MembersStep, CampaignStep, ContactStep


LEMMA FailedStays ==
    ASSUME TypeOK, ClaimInv, KindInv, TruthInv, NEW h \in Handler, ThreadStep(h),
           NEW a \in Action, kind[a] = "members",
           a # job[h] \/ pc[h] \notin {"leads_in", "outcome"}
    PROVE  \A o \in Lead : Failed(a, o)' => Failed(a, o)
BY FailedByStep DEF FailedBy, Failed

\* What a thread believes survives what others do.
LEMMA TruthOther ==
    ASSUME TypeOK, ClaimInv, KindInv, ScopeInv, TruthInv, OpStays, MembersStay,
           NEW g \in Handler,
           UNCHANGED <<pc[g], job[g], todo[g], ok[g], vis[g]>>,
           pc[g] \in Run /\ kind[job[g]] = "members" =>
                            /\ \A o \in Lead : Failed(job[g], o)' => Failed(job[g], o)
                            /\ \A o \in Lead : ByUs(job[g], o)' => ByUs(job[g], o)
    PROVE  Truth(g)'
<1>1. CASE pc[g] \notin Run \cup {"rec_items"}
  <2>1. Truth(g)
    BY DEF TruthInv
  <2>2. QED
    BY <1>1, <2>1 DEF Truth, Listed, Run, MembersRun
<1>2. CASE pc[g] \in Run \cup {"rec_items"}
  <2>1. job[g] \in Action /\ state[job[g]] # "none"
    BY <1>2, WorksOnStored DEF Run, MembersRun, CampaignRun, ContactRun
  <2>2. /\ \A o \in Lead : op'[<<job[g], o>>] = op[<<job[g], o>>]
        /\ \A o \in Lead : OnCampaign(job[g], o) => OnCampaign(job[g], o)'
    BY <2>1, RecordIs, MineStays DEF OpStays, MembersStay, OnCampaign, RecordOf
  <2>3. /\ pc[g] \in {"committed"} \cup MembersRun => pc[g] \in Run
        /\ pc[g] \in MembersRun => kind[job[g]] = "members"
    BY DEF Run, KindInv
  <2>4. Truth(g) /\ todo[g] \subseteq Lead /\ ok[g] \subseteq Lead /\ vis[g] \subseteq Lead
    BY DEF TruthInv, TypeOK, LocalOK
  <2>5. (IF pc[g] \in {"outcome", "rec_items"}
         THEN \A o \in vis[g] : OnCampaign(job[g], o) ELSE vis[g] = {})'
    BY <2>2, <2>4 DEF Truth, OnCampaign, RecordOf
  <2>6. (pc[g] = "present" => \A o \in todo[g] : OnCampaign(job[g], o))'
    BY <2>2, <2>4 DEF Truth, OnCampaign, RecordOf
  <2>7. (pc[g] \in {"committed", "status_post", "status_back", "leads"}
              /\ kind[job[g]] = "members" =>
              \A o \in Lead : ~Failed(job[g], o))'
    BY <2>3, <2>4 DEF Truth, Failed, MembersRun, OpStays
  <2>8. (pc[g] \in Listed => \A o \in todo[g] \cup ok[g] : ~Failed(job[g], o))'
    BY <2>3, <2>4 DEF Truth, Failed, MembersRun, Listed
  <2>9. (pc[g] \in {"leads_post", "leads_back", "leads_in"} =>
         \A o \in Lead : op[<<job[g], o>>] = "existing" =>
                            ~Failed(job[g], o) /\ o \notin todo[g])'
    BY <2>2, <2>3, <2>4 DEF Truth, Failed, MembersRun
  <2>10. (pc[g] \in {"members_back", "pend", "poll", "outcome"} =>
         \A o \in Lead : ByUs(job[g], o) => o \in ok[g])'
    BY <2>3, <2>4 DEF Truth, ByUs, MembersRun
  <2>11. QED
    BY <2>4, <2>5, <2>6, <2>7, <2>8, <2>9, <2>10 DEF Truth
<1>3. QED
  BY <1>1, <1>2

LEMMA TruthOwn ==
    ASSUME TypeOK, ClaimInv, KindInv, SentInv, ScopeInv, TruthInv,
           NEW h \in Handler, ThreadStep(h)
    PROVE  Truth(h)'
<1> USE DEF TypeOK, LocalOK, Truth, TruthInv, Listed, fixed, history, row,
       items, salesforce, task, work, local, Goto, Working
<1>1. ASSUME NEW a \in Action, NEW o \in Lead, AskContact(h, a, o)
      PROVE  Truth(h)'
  BY <1>1 DEF AskContact, Stale, Pending, Failed, OnCampaign, ByUs, RecordOf
<1>2. CASE StoreContact(h)
  BY <1>2 DEF StoreContact, Store, Modes, End, Failed, OnCampaign, ByUs,
     RecordOf
<1>3. ASSUME NEW a \in Action, Click(h, a)
      PROVE  Truth(h)'
  BY <1>3 DEF Click, Failed, OnCampaign, ByUs, RecordOf
<1>4. CASE TurnAway(h) \/ Ineligible(h) \/ ExpiredClick(h) \/ BeginCommit(h)
  BY <1>4 DEF TurnAway, End, Failed, OnCampaign, ByUs, RecordOf, Ineligible,
     Replay, ExpiredClick, Fail, BeginCommit
<1>5. CASE Again(h) \/ Reply(h) \/ Disabled(h) \/ FrozenScopeRefused(h)
  BY <1>5 DEF Again, Replay, Failed, OnCampaign, ByUs, RecordOf, Reply, End,
     Disabled, Fail, FrozenScopeRefused
<1>6. CASE Refused(h) \/ Lost(h) \/ ReadFails(h) \/ Crash(h)
  BY <1>6 DEF Refused, Fail, End, Failed, OnCampaign, ByUs, RecordOf, Lost,
     ReadFails, Crash
<1>7. CASE EnsureStatus(h) \/ PostStatus(h) \/ StatusBack(h)
  BY <1>7 DEF EnsureStatus, BeginAttempt, Failed, OnCampaign, ByUs, RecordOf,
     PostStatus, StatusBack, End, FinishAttempt
<1>8. CASE CreateLeads(h)
  <2>1. /\ job[h] \in Action /\ pc[h] = "leads" /\ kind[job[h]] = "members"
        /\ UNCHANGED <<op, item, member, job, kind, vis>>
        /\ todo' = [todo EXCEPT ![h] = With(job[h], {"create"})]
        /\ ok' = [ok EXCEPT ![h] = {}]
        /\ pc' = [pc EXCEPT ![h] = "leads_in"] \/ pc' = [pc EXCEPT ![h] = "leads_post"]
    BY <1>8, BusyHasJob DEF CreateLeads, KindInv, MembersRun
  <2>2. With(job[h], {"create"}) = {o \in Lead : op[<<job[h], o>>] = "create"}
    BY DEF With
  <2>3. \A o \in Lead : ~Failed(job[h], o)
    BY <2>1
  <2>4. QED
    BY <2>1, <2>2, <2>3 DEF Failed
<1>9. CASE PostLeads(h) \/ LeadsBack(h) \/ StoreIds(h) \/ ReadBefore(h)
  BY <1>9 DEF PostLeads, Failed, OnCampaign, ByUs, RecordOf, LeadsBack,
     FinishAttempt, StoreIds, With, ReadBefore, Seen
<1>10. CASE CreateMembers(h)
  <2>1. /\ job[h] \in Action /\ pc[h] = "present" /\ sent[<<job[h], "members">>] = 0
        /\ UNCHANGED <<op, item, member, job, kind, ok, vis>>
        /\ todo' = [todo EXCEPT ![h] = ok[h]]
        /\ pc' = [pc EXCEPT ![h] = IF ok[h] = {} THEN "outcome" ELSE "members_post"]
    BY <1>10, BusyHasJob DEF CreateMembers, SentInv, BeforeMembers
  <2>2. \A o \in Lead : ~ByUs(job[h], o)
    BY <2>1, RecordIs DEF ByUs
  <2>3. QED
    BY <2>1, <2>2 DEF Failed, ByUs, RecordOf
<1>11. CASE PostMembers(h)
  <2>1. /\ job[h] \in Action /\ state[job[h]] # "none" /\ pc[h] = "members_post"
        /\ pc' = [pc EXCEPT ![h] = "members_back"] /\ sent[<<job[h], "members">>] = 0
        /\ UNCHANGED <<op, item, job, kind, todo, vis>>
    BY <1>11, WorksOnStored DEF PostMembers, SentInv, BeforeMembers
  <2>2. PICK made \in SUBSET {o \in todo[h] : ~OnCampaign(job[h], o)} :
               /\ ok' = [ok EXCEPT ![h] = made]
               /\ member' = [r \in Record |->
                               IF \E o \in made : r = RecordOf(job[h], o) THEN job[h]
                               ELSE member[r]]
    BY <1>11 DEF PostMembers
  <2>3. \A o \in Lead : ~ByUs(job[h], o)
    BY <2>1, RecordIs DEF ByUs
  <2>4. ASSUME NEW o \in Lead, ByUs(job[h], o)'
        PROVE  o \in made
    <3>1. RecordOf(job[h], o)' = RecordOf(job[h], o) /\ RecordOf(job[h], o) \in Record
      BY <2>1, RecordIs DEF RecordOf
    <3>2. PICK x \in made : RecordOf(job[h], o) = RecordOf(job[h], x)
      BY <2>1, <2>2, <2>3, <2>4, <3>1 DEF ByUs
    <3>3. QED
      BY <2>1, <2>2, <3>2, OwnRecord
  <2>5. QED
    BY <2>1, <2>2, <2>4 DEF Failed
<1>12. CASE MembersBack(h)
  BY <1>12 DEF MembersBack, FinishAttempt, Failed, OnCampaign, ByUs, RecordOf
<1>13. CASE Pend(h)
  <2>1. job[h] \in Action
    BY <1>13, BusyHasJob DEF Pend
  <2>2. QED
    BY <1>13, <2>1, SetItemsIs DEF Pend, Failed, ByUs, RecordOf
<1>14. CASE Poll(h) \/ Count(h) \/ Write(h) \/ Reconcile(h)
  BY <1>14 DEF Poll, Failed, OnCampaign, ByUs, RecordOf, Seen, Count, Write,
     Reconcile
<1>15. CASE PollAgain(h) \/ CloseAttempts(h)
  BY <1>15 DEF PollAgain, Failed, OnCampaign, ByUs, RecordOf, Seen,
     CloseAttempts
<1>16. ASSUME NEW o \in Lead, LeadIn(h, o)
      PROVE  Truth(h)'
  <2>1. job[h] \in Action /\ o \in Mine(job[h])
    BY <1>16, BusyHasJob DEF LeadIn, ScopeInv
  <2>2. QED
    BY <1>16, <2>1, SetItemsIs
       DEF LeadIn, MarkVerified, Credit, Failed, OnCampaign, ByUs, RecordOf
<1>17. ASSUME NEW o \in Lead, AlreadyPresent(h, o)
      PROVE  Truth(h)'
  <2>1. job[h] \in Action /\ o \in Mine(job[h])
    BY <1>17, BusyHasJob DEF AlreadyPresent, ScopeInv
  <2>2. QED
    BY <1>17, <2>1, SetItemsIs DEF AlreadyPresent, MarkVerified, Credit,
       Failed, OnCampaign, ByUs, RecordOf
<1>18. ASSUME NEW o \in Lead, Outcome(h, o)
      PROVE  Truth(h)'
  <2>1. job[h] \in Action /\ o \in Mine(job[h])
    BY <1>18, BusyHasJob DEF Outcome, ScopeInv
  <2>2. QED
    BY <1>18, <2>1, SetItemsIs
       DEF Outcome, MarkVerified, Credit, Failed, OnCampaign, ByUs, RecordOf
<1>19. ASSUME NEW o \in Lead, Settle(h, o)
      PROVE  Truth(h)'
  <2>1. job[h] \in Action /\ o \in Mine(job[h])
    BY <1>19, BusyHasJob DEF Settle, ScopeInv
  <2>2. QED
    BY <1>19, <2>1, SetItemsIs
       DEF Settle, MarkVerified, Credit, Failed, OnCampaign, ByUs, RecordOf
<1>20. CASE
          StartCampaign(h) \/ PostCampaign(h) \/ CampaignBack(h) \/
          CampaignIn(h)
  BY <1>20 DEF StartCampaign, BeginAttempt, Failed, OnCampaign, ByUs,
     RecordOf, PostCampaign, PostOne, CampaignBack, FinishAttempt,
     CampaignIn, Fail, End
<1>21. CASE
          ReconcileCampaign(h) \/ CampaignFound(h) \/ StartContact(h) \/
          PostLead(h)
  BY <1>21 DEF ReconcileCampaign, Failed, OnCampaign, ByUs, RecordOf,
     CampaignFound, Fail, End, StartContact, PostLead, PostOne
<1>22. CASE LeadBack(h) \/ ReadLead(h) \/ PostNote(h) \/ NoteBack(h)
  BY <1>22 DEF LeadBack, FailItem, Fail, End, Failed, OnCampaign, ByUs,
     RecordOf, ReadLead, PostNote, PostOne, NoteBack, NoteRejected, NoteDone
<1>23. CASE PostLink(h) \/ LinkBack(h)
  BY <1>23 DEF PostLink, PostOne, Failed, OnCampaign, ByUs, RecordOf,
     LinkBack, NoteRejected, NoteDone, FailItem, Fail, End
<1>24. QED
  BY <1>1, <1>2, <1>3, <1>4, <1>5, <1>6, <1>7, <1>8, <1>9, <1>10, <1>11,
     <1>12, <1>13, <1>14, <1>15, <1>16, <1>17, <1>18, <1>19, <1>20, <1>21,
     <1>22, <1>23
     DEF ThreadStep, ClickStep, MembersStep, CampaignStep, ContactStep

LEMMA MembersPosted ==
    ASSUME TypeOK, TruthInv, [Next]_vars
    PROVE  (\A b \in Action, r \in Record :
                member[r] = b => sent[<<b, "members">>] # 0)'
<1> USE DEF TypeOK, LocalOK, SalesforceOK, TruthInv, Op, fixed, history, row,
       items, salesforce, task, work, local, Goto, Working
<1>1. ASSUME NEW a \in Action,
             PrepareMembers(a) \/ PrepareCampaign(a) \/ Cancel(a)
      PROVE  (\A b \in Action, r \in Record :
                member[r] = b => sent[<<b, "members">>] # 0)'
  BY <1>1 DEF PrepareMembers, Store, Delivered, Slice, PrepareCampaign, Open,
     Cancel
<1>2. ASSUME NEW h \in Handler, NEW a \in Action, NEW o \in Lead,
             AskContact(h, a, o)
      PROVE  (\A b \in Action, r \in Record :
                member[r] = b => sent[<<b, "members">>] # 0)'
  BY <1>2 DEF AskContact, Stale, Pending
<1>3. ASSUME NEW h \in Handler, StoreContact(h)
      PROVE  (\A b \in Action, r \in Record :
                member[r] = b => sent[<<b, "members">>] # 0)'
  BY <1>3 DEF StoreContact, Store, Modes, End
<1>4. ASSUME NEW h \in Handler, NEW a \in Action, Click(h, a)
      PROVE  (\A b \in Action, r \in Record :
                member[r] = b => sent[<<b, "members">>] # 0)'
  BY <1>4 DEF Click
<1>5. ASSUME NEW h \in Handler,
             TurnAway(h) \/ Ineligible(h) \/ ExpiredClick(h) \/ BeginCommit(h)
      PROVE  (\A b \in Action, r \in Record :
                member[r] = b => sent[<<b, "members">>] # 0)'
  BY <1>5 DEF TurnAway, End, Ineligible, Replay, ExpiredClick, Fail,
     BeginCommit
<1>6. ASSUME NEW h \in Handler,
             Again(h) \/ Reply(h) \/ Disabled(h) \/ FrozenScopeRefused(h)
      PROVE  (\A b \in Action, r \in Record :
                member[r] = b => sent[<<b, "members">>] # 0)'
  BY <1>6 DEF Again, Replay, Reply, End, Disabled, Fail, FrozenScopeRefused
<1>7. ASSUME NEW h \in Handler,
             Refused(h) \/ Lost(h) \/ ReadFails(h) \/ Crash(h)
      PROVE  (\A b \in Action, r \in Record :
                member[r] = b => sent[<<b, "members">>] # 0)'
  BY <1>7 DEF Refused, Fail, End, Lost, ReadFails, Crash
<1>8. ASSUME NEW h \in Handler,
             EnsureStatus(h) \/ PostStatus(h) \/ StatusBack(h) \/
             CreateLeads(h)
      PROVE  (\A b \in Action, r \in Record :
                member[r] = b => sent[<<b, "members">>] # 0)'
  BY <1>8 DEF EnsureStatus, BeginAttempt, PostStatus, Send, StatusBack, End,
     FinishAttempt, CreateLeads
<1>9. ASSUME NEW h \in Handler,
             PostLeads(h) \/ LeadsBack(h) \/ StoreIds(h) \/ ReadBefore(h)
      PROVE  (\A b \in Action, r \in Record :
                member[r] = b => sent[<<b, "members">>] # 0)'
  BY <1>9 DEF PostLeads, Send, LeadsBack, FinishAttempt, StoreIds, ReadBefore
<1>10. ASSUME NEW h \in Handler,
             CreateMembers(h) \/ PostMembers(h) \/ MembersBack(h) \/ Pend(h)
      PROVE  (\A b \in Action, r \in Record :
                member[r] = b => sent[<<b, "members">>] # 0)'
  BY <1>10 DEF CreateMembers, BeginAttempt, PostMembers, Send, MembersBack,
     FinishAttempt, Pend
<1>11. ASSUME NEW h \in Handler,
             Poll(h) \/ Count(h) \/ Write(h) \/ Reconcile(h)
      PROVE  (\A b \in Action, r \in Record :
                member[r] = b => sent[<<b, "members">>] # 0)'
  BY <1>11 DEF Poll, Count, Write, Reconcile
<1>12. ASSUME NEW h \in Handler, PollAgain(h) \/ CloseAttempts(h)
      PROVE  (\A b \in Action, r \in Record :
                member[r] = b => sent[<<b, "members">>] # 0)'
  BY <1>12 DEF PollAgain, CloseAttempts
<1>13. ASSUME NEW h \in Handler, NEW o \in Lead,
             LeadIn(h, o) \/ AlreadyPresent(h, o) \/ Outcome(h, o) \/
             Settle(h, o)
      PROVE  (\A b \in Action, r \in Record :
                member[r] = b => sent[<<b, "members">>] # 0)'
  BY <1>13 DEF LeadIn, AlreadyPresent, Outcome, Settle
<1>14. ASSUME NEW h \in Handler,
             StartCampaign(h) \/ PostCampaign(h) \/ CampaignBack(h) \/
             CampaignIn(h)
      PROVE  (\A b \in Action, r \in Record :
                member[r] = b => sent[<<b, "members">>] # 0)'
  BY <1>14 DEF StartCampaign, BeginAttempt, PostCampaign, PostOne, Send,
     CampaignBack, FinishAttempt, CampaignIn, Fail, End
<1>15. ASSUME NEW h \in Handler,
             ReconcileCampaign(h) \/ CampaignFound(h) \/ StartContact(h) \/
             PostLead(h)
      PROVE  (\A b \in Action, r \in Record :
                member[r] = b => sent[<<b, "members">>] # 0)'
  BY <1>15 DEF ReconcileCampaign, CampaignFound, Fail, End, StartContact,
     PostLead, PostOne, Send
<1>16. ASSUME NEW h \in Handler,
             LeadBack(h) \/ ReadLead(h) \/ PostNote(h) \/ NoteBack(h)
      PROVE  (\A b \in Action, r \in Record :
                member[r] = b => sent[<<b, "members">>] # 0)'
  BY <1>16 DEF LeadBack, FailItem, Fail, End, ReadLead, PostNote, PostOne,
     Send, NoteBack, NoteRejected, NoteDone
<1>17. ASSUME NEW h \in Handler, PostLink(h) \/ LinkBack(h)
      PROVE  (\A b \in Action, r \in Record :
                member[r] = b => sent[<<b, "members">>] # 0)'
  BY <1>17 DEF PostLink, PostOne, Send, LinkBack, NoteRejected, NoteDone,
     FailItem, Fail, End
<1>18. ASSUME NEW a \in Action, Expire(a)
      PROVE  (\A b \in Action, r \in Record :
                member[r] = b => sent[<<b, "members">>] # 0)'
  BY <1>18 DEF Expire
<1>19. ASSUME NEW o \in Lead, Enrol(o)
      PROVE  (\A b \in Action, r \in Record :
                member[r] = b => sent[<<b, "members">>] # 0)'
  BY CrmAssumption, <1>19 DEF Enrol
<1>20. CASE UNCHANGED vars
  BY <1>20 DEF vars
<1>21. QED
  BY <1>1, <1>2, <1>3, <1>4, <1>5, <1>6, <1>7, <1>8, <1>9, <1>10, <1>11,
     <1>12, <1>13, <1>14, <1>15, <1>16, <1>17, <1>18, <1>19, <1>20
     DEF Next, Preview, ClickStep, MembersStep, CampaignStep, ContactStep


\* From the place of the POST of members the only other steps fail or die.
LEMMA PostsMembers ==
    ASSUME TypeOK,
           NEW h \in Handler, ThreadStep(h)
    PROVE  pc[h] = "members_post" /\ member' # member => PostMembers(h)
<1> USE DEF TypeOK, LocalOK, fixed, history, row, items, salesforce, task,
       work, local, Goto, Working
<1>1. ASSUME NEW a \in Action, NEW o \in Lead, AskContact(h, a, o)
      PROVE  pc[h] = "members_post" /\ member' # member => PostMembers(h)
  BY <1>1 DEF AskContact, Stale, Pending
<1>2. CASE StoreContact(h)
  BY <1>2 DEF StoreContact, Store, Modes, End
<1>3. ASSUME NEW a \in Action, Click(h, a)
      PROVE  pc[h] = "members_post" /\ member' # member => PostMembers(h)
  BY <1>3 DEF Click
<1>4. CASE TurnAway(h) \/ Ineligible(h) \/ ExpiredClick(h) \/ BeginCommit(h)
  BY <1>4 DEF TurnAway, End, Ineligible, Replay, ExpiredClick, Fail,
     BeginCommit
<1>5. CASE Again(h) \/ Reply(h) \/ Disabled(h) \/ FrozenScopeRefused(h)
  BY <1>5 DEF Again, Replay, Reply, End, Disabled, Fail, FrozenScopeRefused
<1>6. CASE Refused(h) \/ Lost(h) \/ ReadFails(h) \/ Crash(h)
  BY <1>6 DEF Refused, Fail, End, Lost, ReadFails, Crash
<1>7. CASE EnsureStatus(h) \/ PostStatus(h) \/ StatusBack(h) \/ CreateLeads(h)
  BY <1>7 DEF EnsureStatus, BeginAttempt, PostStatus, StatusBack, End,
     FinishAttempt, CreateLeads
<1>8. CASE PostLeads(h) \/ LeadsBack(h) \/ StoreIds(h) \/ ReadBefore(h)
  BY <1>8 DEF PostLeads, LeadsBack, FinishAttempt, StoreIds, ReadBefore
<1>9. CASE CreateMembers(h)
  BY <1>9 DEF CreateMembers, BeginAttempt
<1>10. CASE PostMembers(h)
  BY <1>10
<1>11. CASE MembersBack(h) \/ Pend(h) \/ Poll(h) \/ Count(h)
  BY <1>11 DEF MembersBack, FinishAttempt, Pend, Poll, Count
<1>12. CASE Write(h) \/ Reconcile(h) \/ PollAgain(h) \/ CloseAttempts(h)
  BY <1>12 DEF Write, Reconcile, PollAgain, CloseAttempts
<1>13. ASSUME NEW o \in Lead,
             LeadIn(h, o) \/ AlreadyPresent(h, o) \/ Outcome(h, o) \/
             Settle(h, o)
      PROVE  pc[h] = "members_post" /\ member' # member => PostMembers(h)
  BY <1>13 DEF LeadIn, AlreadyPresent, Outcome, Settle
<1>14. CASE
          StartCampaign(h) \/ PostCampaign(h) \/ CampaignBack(h) \/
          CampaignIn(h)
  BY <1>14 DEF StartCampaign, BeginAttempt, PostCampaign, PostOne,
     CampaignBack, FinishAttempt, CampaignIn, Fail, End
<1>15. CASE
          ReconcileCampaign(h) \/ CampaignFound(h) \/ StartContact(h) \/
          PostLead(h)
  BY <1>15 DEF ReconcileCampaign, CampaignFound, Fail, End, StartContact,
     PostLead, PostOne
<1>16. CASE LeadBack(h) \/ ReadLead(h) \/ PostNote(h) \/ NoteBack(h)
  BY <1>16 DEF LeadBack, FailItem, Fail, End, ReadLead, PostNote, PostOne,
     NoteBack, NoteRejected, NoteDone
<1>17. CASE PostLink(h) \/ LinkBack(h)
  BY <1>17 DEF PostLink, PostOne, LinkBack, NoteRejected, NoteDone, FailItem,
     Fail, End
<1>18. QED
  BY <1>1, <1>2, <1>3, <1>4, <1>5, <1>6, <1>7, <1>8, <1>9, <1>10, <1>11,
     <1>12, <1>13, <1>14, <1>15, <1>16, <1>17
     DEF ThreadStep, ClickStep, MembersStep, CampaignStep, ContactStep


\* What was made is not written down as failed.
LEMMA OutcomeFails ==
    ASSUME TypeOK,
           NEW h \in Handler, ThreadStep(h)
    PROVE  pc[h] = "outcome" => \A x \in Lead : 
             item[<<job[h], x>>] # "failed" /\ item'[<<job[h], x>>] = "failed"
               => x \notin ok[h]
<1> USE DEF TypeOK, LocalOK, fixed, history, row, items, salesforce, task,
       work, local, Goto, Working
<1>1. ASSUME NEW a \in Action, NEW o \in Lead, AskContact(h, a, o)
      PROVE  pc[h] = "outcome" => \A x \in Lead : 
             item[<<job[h], x>>] # "failed" /\ item'[<<job[h], x>>] = "failed"
               => x \notin ok[h]
  BY <1>1 DEF AskContact, Stale, Pending
<1>2. CASE StoreContact(h)
  BY <1>2 DEF StoreContact, Store, Modes, End
<1>3. ASSUME NEW a \in Action, Click(h, a)
      PROVE  pc[h] = "outcome" => \A x \in Lead : 
             item[<<job[h], x>>] # "failed" /\ item'[<<job[h], x>>] = "failed"
               => x \notin ok[h]
  BY <1>3 DEF Click
<1>4. CASE TurnAway(h) \/ Ineligible(h) \/ ExpiredClick(h) \/ BeginCommit(h)
  BY <1>4 DEF TurnAway, End, Ineligible, Replay, ExpiredClick, Fail,
     BeginCommit
<1>5. CASE Again(h) \/ Reply(h) \/ Disabled(h) \/ FrozenScopeRefused(h)
  BY <1>5 DEF Again, Replay, Reply, End, Disabled, Fail, FrozenScopeRefused
<1>6. CASE Refused(h) \/ Lost(h) \/ ReadFails(h) \/ Crash(h)
  BY <1>6 DEF Refused, Fail, End, Lost, ReadFails, Crash
<1>7. CASE EnsureStatus(h) \/ PostStatus(h) \/ StatusBack(h) \/ CreateLeads(h)
  BY <1>7 DEF EnsureStatus, BeginAttempt, PostStatus, StatusBack, End,
     FinishAttempt, CreateLeads
<1>8. CASE PostLeads(h) \/ LeadsBack(h) \/ StoreIds(h) \/ ReadBefore(h)
  BY <1>8 DEF PostLeads, LeadsBack, FinishAttempt, StoreIds, ReadBefore
<1>9. CASE CreateMembers(h) \/ PostMembers(h) \/ MembersBack(h) \/ Pend(h)
  BY <1>9 DEF CreateMembers, BeginAttempt, PostMembers, MembersBack,
     FinishAttempt, Pend
<1>10. CASE Poll(h) \/ Count(h) \/ Write(h) \/ Reconcile(h)
  BY <1>10 DEF Poll, Count, Write, Reconcile
<1>11. CASE PollAgain(h) \/ CloseAttempts(h)
  BY <1>11 DEF PollAgain, CloseAttempts
<1>12. ASSUME NEW o \in Lead, LeadIn(h, o) \/ AlreadyPresent(h, o)
      PROVE  pc[h] = "outcome" => \A x \in Lead : 
             item[<<job[h], x>>] # "failed" /\ item'[<<job[h], x>>] = "failed"
               => x \notin ok[h]
  BY <1>12 DEF LeadIn, AlreadyPresent
<1>13. ASSUME NEW o \in Lead, Outcome(h, o)
      PROVE  pc[h] = "outcome" => \A x \in Lead : 
             item[<<job[h], x>>] # "failed" /\ item'[<<job[h], x>>] = "failed"
               => x \notin ok[h]
  <2>1. job[h] \in Action
    BY <1>13, BusyHasJob DEF Outcome
  <2>2. QED
    BY <1>13, <2>1, SetItemsIs DEF Outcome, MarkVerified, Credit
<1>14. ASSUME NEW o \in Lead, Settle(h, o)
      PROVE  pc[h] = "outcome" => \A x \in Lead : 
             item[<<job[h], x>>] # "failed" /\ item'[<<job[h], x>>] = "failed"
               => x \notin ok[h]
  BY <1>14 DEF Settle
<1>15. CASE
          StartCampaign(h) \/ PostCampaign(h) \/ CampaignBack(h) \/
          CampaignIn(h)
  BY <1>15 DEF StartCampaign, BeginAttempt, PostCampaign, PostOne,
     CampaignBack, FinishAttempt, CampaignIn, Fail, End
<1>16. CASE
          ReconcileCampaign(h) \/ CampaignFound(h) \/ StartContact(h) \/
          PostLead(h)
  BY <1>16 DEF ReconcileCampaign, CampaignFound, Fail, End, StartContact,
     PostLead, PostOne
<1>17. CASE LeadBack(h) \/ ReadLead(h) \/ PostNote(h) \/ NoteBack(h)
  BY <1>17 DEF LeadBack, FailItem, Fail, End, ReadLead, PostNote, PostOne,
     NoteBack, NoteRejected, NoteDone
<1>18. CASE PostLink(h) \/ LinkBack(h)
  BY <1>18 DEF PostLink, PostOne, LinkBack, NoteRejected, NoteDone, FailItem,
     Fail, End
<1>19. QED
  BY <1>1, <1>2, <1>3, <1>4, <1>5, <1>6, <1>7, <1>8, <1>9, <1>10, <1>11,
     <1>12, <1>13, <1>14, <1>15, <1>16, <1>17, <1>18
     DEF ThreadStep, ClickStep, MembersStep, CampaignStep, ContactStep


\* A thread touches the items of its own action only.
Untouched(h) == \A a \in Action, o \in Lead :
    a # job[h] => item'[<<a, o>>] = item[<<a, o>>]

LEMMA UntouchedItems ==
    ASSUME TypeOK,
           NEW h \in Handler, ThreadStep(h)
    PROVE  Untouched(h)
<1> USE DEF TypeOK, LocalOK, Untouched, fixed, history, row, items,
       salesforce, task, work, local, Goto, Working
<1>1. ASSUME NEW a \in Action, NEW o \in Lead, AskContact(h, a, o)
      PROVE  Untouched(h)
  BY <1>1 DEF AskContact, Stale, Pending
<1>2. CASE StoreContact(h)
  <2>1. job[h] \in Action
    BY <1>2, BusyHasJob DEF StoreContact
  <2>2. item' = item \/ \E how \in Modes :
             Store(job[h], [x \in Lead |-> IF x = lead[h] THEN how ELSE "none"], "ready")
    BY <1>2 DEF StoreContact
  <2>3. QED
    BY <2>1, <2>2 DEF Store, Item
<1>3. ASSUME NEW a \in Action, Click(h, a)
      PROVE  Untouched(h)
  BY <1>3 DEF Click
<1>4. CASE TurnAway(h) \/ Ineligible(h) \/ ExpiredClick(h) \/ BeginCommit(h)
  BY <1>4 DEF TurnAway, End, Ineligible, Replay, ExpiredClick, Fail,
     BeginCommit
<1>5. CASE Again(h) \/ Reply(h) \/ Disabled(h) \/ FrozenScopeRefused(h)
  BY <1>5 DEF Again, Replay, Reply, End, Disabled, Fail, FrozenScopeRefused
<1>6. CASE Refused(h) \/ Lost(h) \/ ReadFails(h) \/ Crash(h)
  BY <1>6 DEF Refused, Fail, End, Lost, ReadFails, Crash
<1>7. CASE EnsureStatus(h) \/ PostStatus(h) \/ StatusBack(h) \/ CreateLeads(h)
  BY <1>7 DEF EnsureStatus, BeginAttempt, PostStatus, StatusBack, End,
     FinishAttempt, CreateLeads
<1>8. CASE PostLeads(h) \/ LeadsBack(h) \/ StoreIds(h) \/ ReadBefore(h)
  BY <1>8 DEF PostLeads, LeadsBack, FinishAttempt, StoreIds, ReadBefore
<1>9. CASE CreateMembers(h) \/ PostMembers(h) \/ MembersBack(h)
  BY <1>9 DEF CreateMembers, BeginAttempt, PostMembers, MembersBack,
     FinishAttempt
<1>10. CASE Pend(h)
  <2>1. job[h] \in Action
    BY <1>10, BusyHasJob DEF Pend
  <2>2. QED
    BY <1>10, <2>1, SetItemsIs DEF Pend, MarkVerified, Credit
<1>11. CASE Poll(h) \/ Count(h) \/ Write(h) \/ Reconcile(h)
  BY <1>11 DEF Poll, Count, Write, Reconcile
<1>12. CASE PollAgain(h) \/ CloseAttempts(h)
  BY <1>12 DEF PollAgain, CloseAttempts
<1>13. ASSUME NEW o \in Lead, LeadIn(h, o)
      PROVE  Untouched(h)
  <2>1. job[h] \in Action
    BY <1>13, BusyHasJob DEF LeadIn
  <2>2. QED
    BY <1>13, <2>1, SetItemsIs DEF LeadIn, MarkVerified, Credit
<1>14. ASSUME NEW o \in Lead, AlreadyPresent(h, o)
      PROVE  Untouched(h)
  <2>1. job[h] \in Action
    BY <1>14, BusyHasJob DEF AlreadyPresent
  <2>2. QED
    BY <1>14, <2>1, SetItemsIs DEF AlreadyPresent, MarkVerified, Credit
<1>15. ASSUME NEW o \in Lead, Outcome(h, o)
      PROVE  Untouched(h)
  <2>1. job[h] \in Action
    BY <1>15, BusyHasJob DEF Outcome
  <2>2. QED
    BY <1>15, <2>1, SetItemsIs DEF Outcome, MarkVerified, Credit
<1>16. ASSUME NEW o \in Lead, Settle(h, o)
      PROVE  Untouched(h)
  <2>1. job[h] \in Action
    BY <1>16, BusyHasJob DEF Settle
  <2>2. QED
    BY <1>16, <2>1, SetItemsIs DEF Settle, MarkVerified, Credit
<1>17. CASE
          StartCampaign(h) \/ PostCampaign(h) \/ CampaignBack(h) \/
          CampaignIn(h)
  BY <1>17 DEF StartCampaign, BeginAttempt, PostCampaign, PostOne,
     CampaignBack, FinishAttempt, CampaignIn, Fail, End
<1>18. CASE
          ReconcileCampaign(h) \/ CampaignFound(h) \/ StartContact(h) \/
          PostLead(h)
  BY <1>18 DEF ReconcileCampaign, CampaignFound, Fail, End, StartContact,
     PostLead, PostOne
<1>19. CASE LeadBack(h)
  <2>1. job[h] \in Action
    BY <1>19, BusyHasJob DEF LeadBack
  <2>2. item' = item \/ \E s \in ItemState, os \in SUBSET Lead : SetItems(job[h], os, s)
    BY <1>19, <2>1, CountTypes DEF LeadBack, FailItem, Fail, End, ItemState
  <2>3. QED
    BY <2>1, <2>2, SetItemsIs
<1>20. CASE ReadLead(h) \/ PostNote(h)
  BY <1>20 DEF ReadLead, PostNote, PostOne
<1>21. CASE NoteBack(h)
  <2>1. job[h] \in Action
    BY <1>21, BusyHasJob DEF NoteBack
  <2>2. item' = item \/ \E s \in ItemState, os \in SUBSET Lead : SetItems(job[h], os, s)
    BY <1>21, <2>1, CountTypes DEF NoteBack, NoteRejected, NoteDone, FailItem,
       Fail, End, ItemState
  <2>3. QED
    BY <2>1, <2>2, SetItemsIs
<1>22. CASE PostLink(h)
  BY <1>22 DEF PostLink, PostOne
<1>23. CASE LinkBack(h)
  <2>1. job[h] \in Action
    BY <1>23, BusyHasJob DEF LinkBack
  <2>2. item' = item \/ \E s \in ItemState, os \in SUBSET Lead : SetItems(job[h], os, s)
    BY <1>23, <2>1, CountTypes DEF LinkBack, NoteRejected, NoteDone, FailItem,
       Fail, End, ItemState
  <2>3. QED
    BY <2>1, <2>2, SetItemsIs
<1>24. QED
  BY <1>1, <1>2, <1>3, <1>4, <1>5, <1>6, <1>7, <1>8, <1>9, <1>10, <1>11,
     <1>12, <1>13, <1>14, <1>15, <1>16, <1>17, <1>18, <1>19, <1>20, <1>21,
     <1>22, <1>23
     DEF ThreadStep, ClickStep, MembersStep, CampaignStep, ContactStep


LEMMA ItemsTold ==
    ASSUME TypeOK, ClaimInv, KindInv, SentInv, ScopeInv, TruthInv, OpStays,
           MembersStay, NEW a \in Action, NEW o \in Lead, kind[a] = "members",
           [Next]_vars
    PROVE  /\ item'[<<a, o>>] \in OnIt => OnCampaign(a, o)'
           /\ item'[<<a, o>>] = "failed" => ~ByUs(a, o)'
<1>1. <<a, o>> \in Item
  BY DEF Item
<1>2. CASE state[a] = "none"
  <2>1. item[<<a, o>>] = "none"
    BY <1>1, <1>2 DEF ClaimInv, TypeOK, ItemsOK
  <2>2. ASSUME NEW h \in Handler, ThreadStep(h)
        PROVE  item'[<<a, o>>] # "failed"
    <3>1. a # job[h] \/ pc[h] \notin {"leads_in", "outcome"}
      BY <1>2 DEF ClaimInv
    <3>2. QED
      BY <2>1, <2>2, <3>1, FailedByStep DEF FailedBy
  <2>3. item'[<<a, o>>] # "failed"
    BY <2>1, <2>2, StepIsThread, WorldLeaves
  <2>4. item'[<<a, o>>] \notin OnIt
    <3>1. ~OnCampaign(a, o) \/ item'[<<a, o>>] \in {item[<<a, o>>], "ready"}
      <4>1. ASSUME NEW h \in Handler, ThreadStep(h)
            PROVE  item'[<<a, o>>] \in {item[<<a, o>>], "ready"}
        <5>1. a # job[h]
          BY <1>2 DEF ClaimInv, KindInv
        <5>2. QED
          BY <4>1, <5>1, UntouchedItems DEF Untouched
      <4>2. QED
        BY <4>1, StepIsThread, WorldLeaves
    <3>2. QED
      BY <2>1, <3>1, SeenByStep DEF SeenBy, OnIt
  <2>5. QED
    BY <2>3, <2>4
<1>3. CASE state[a] # "none"
  <2>1. RecordOf(a, o)' = RecordOf(a, o) /\ RecordOf(a, o) \in Record
    BY <1>3, MineStays, RecordIs
  <2>2. item'[<<a, o>>] \in OnIt => OnCampaign(a, o)'
    <3>1. item'[<<a, o>>] \in OnIt => OnCampaign(a, o)
      BY SeenByStep DEF SeenBy, TruthInv, ItemsTellTheTruth
    <3>2. QED
      BY <2>1, <3>1 DEF OnCampaign, MembersStay
  <2>3. ASSUME item'[<<a, o>>] = "failed", ByUs(a, o)'
        PROVE  FALSE
    <3>1. member'[RecordOf(a, o)] = a
      BY <2>1, <2>3 DEF ByUs
    <3>2. CASE World
      <4>1. item[<<a, o>>] = "failed" /\ member[RecordOf(a, o)] = a
        BY <2>1, <2>3, <3>1, <3>2, WorldLeaves, CrmAssumption
      <4>2. QED
        BY <4>1 DEF TruthInv, ItemsTellTheTruth
    <3>3. ASSUME NEW h \in Handler, ThreadStep(h)
          PROVE  FALSE
      <4>1. CASE item[<<a, o>>] = "failed"
        <5>1. member[RecordOf(a, o)] # a
          BY <4>1 DEF TruthInv, ItemsTellTheTruth
        <5>2. pc[h] = "members_post" /\ job[h] = a
          BY <2>1, <3>1, <3>3, <5>1, MadeByStep DEF MadeBy
        <5>3. PostMembers(h)
          BY <2>1, <3>1, <3>3, <5>1, <5>2, PostsMembers
        <5>4. \E x \in todo[h] : x \in Lead /\ RecordOf(a, o) = RecordOf(a, x)
          BY <2>1, <3>1, <5>1, <5>2, <5>3 DEF PostMembers, TypeOK, LocalOK
        <5>5. o \in todo[h]
          BY <5>4, OwnRecord
        <5>6. QED
          BY <4>1, <5>2, <5>5 DEF TruthInv, Truth, Listed, Failed
      <4>2. CASE item[<<a, o>>] # "failed"
        <5>1. a = job[h] /\ pc[h] \in {"leads_in", "outcome"}
          BY <2>3, <3>3, <4>2, FailedByStep DEF FailedBy
        <5>2. member[RecordOf(a, o)] = a
          BY <2>1, <3>1, <3>3, <5>1, MadeByStep DEF MadeBy
        <5>3. pc[h] = "outcome" /\ o \in ok[h]
          <6>1. sent[<<a, "members">>] # 0
            BY <2>1, <5>2 DEF TruthInv
          <6>2. pc[h] # "leads_in"
            BY <5>1, <6>1 DEF SentInv, BeforeMembers
          <6>3. Truth(h)
            BY DEF TruthInv
          <6>4. QED
            BY <5>1, <5>2, <6>2, <6>3 DEF Truth, ByUs
        <5>4. QED
          BY <2>3, <3>3, <4>2, <5>1, <5>3, OutcomeFails
      <4>3. QED
        BY <4>1, <4>2
    <3>4. QED
      BY <3>2, <3>3, StepIsThread
  <2>4. QED
    BY <2>2, <2>3
<1>4. QED
  BY <1>2, <1>3

LEMMA TruthStep ==
    ASSUME TypeOK, ClaimInv, KindInv, SentInv, ScopeInv, TruthInv, [Next]_vars
    PROVE  TruthInv'
<1>1. OpStays /\ MembersStay /\ Wary
  BY OpStep, MembersStayStep, WaryStep
<1>2. ItemsTellTheTruth'
  BY <1>1, ItemsTold DEF ItemsTellTheTruth, OpStays, ByUs
<1>3. (\A a \in Action : kind[a] = "members" /\ state[a] \in {"none", "ready", "cancelled"}
         => \A o \in Lead : ~Failed(a, o))'
  <2>1. SUFFICES ASSUME NEW a \in Action, kind[a] = "members", state'[a] \in Unsent,
                        NEW o \in Lead, item'[<<a, o>>] = "failed"
                 PROVE  FALSE
    BY <1>1 DEF OpStays, Unsent, Failed
  <2>2. state[a] \in Unsent
    BY <1>1, <2>1 DEF Wary
  <2>3. item[<<a, o>>] # "failed"
    BY <2>1, <2>2 DEF TruthInv, Unsent, Failed
  <2>4. ASSUME NEW h \in Handler, ThreadStep(h)
        PROVE  FALSE
    <3>1. a = job[h] /\ pc[h] \in {"leads_in", "outcome"}
      BY <2>1, <2>3, <2>4, FailedByStep DEF FailedBy
    <3>2. QED
      BY <2>2, <3>1 DEF ClaimInv, Runs, Run, MembersRun, Unsent
  <2>5. QED
    BY <2>1, <2>3, <2>4, StepIsThread, WorldLeaves
<1>4. ASSUME NEW g \in Handler
      PROVE  Truth(g)'
  <2>1. CASE World
    <3>1. \A o \in Lead : Failed(job[g], o)' => Failed(job[g], o) \/ job[g] \notin Action
      BY <2>1, WorldLeaves DEF Failed, local, task
    <3>2. pc[g] \in Run => job[g] \in Action /\ state[job[g]] # "none"
      BY WorksOnStored DEF Run, MembersRun, CampaignRun, ContactRun
    <3>3. pc[g] \in Run => \A o \in Lead : ByUs(job[g], o)' => ByUs(job[g], o)
      <4>1. SUFFICES ASSUME pc[g] \in Run, NEW o \in Lead, ByUs(job[g], o)'
                     PROVE  ByUs(job[g], o)
        OBVIOUS
      <4>2. /\ RecordOf(job[g], o)' = RecordOf(job[g], o) /\ job'[g] = job[g]
            /\ RecordOf(job[g], o) \in Record
        BY <1>1, <2>1, <3>2, <4>1, RecordIs, WorldLeaves
           DEF OpStays, RecordOf, local, task
      <4>3. QED
        BY <2>1, <3>2, <4>1, <4>2, WorldLeaves, CrmAssumption DEF ByUs
    <3>4. QED
      BY <1>1, <2>1, <3>1, <3>2, <3>3, TruthOther, WorldLeaves DEF local,
         task, work
  <2>2. ASSUME NEW h \in Handler, ThreadStep(h)
        PROVE  Truth(g)'
    <3>1. CASE g = h
      BY <2>2, <3>1, TruthOwn
    <3>2. CASE g # h
      <4>1. UNCHANGED <<pc[g], job[g], todo[g], ok[g], vis[g]>>
        BY <2>2, <3>2, OthersStep DEF OthersStay
      <4>2. ASSUME pc[g] \in Run, kind[job[g]] = "members"
            PROVE  /\ \A o \in Lead : Failed(job[g], o)' => Failed(job[g], o)
                   /\ \A o \in Lead : ByUs(job[g], o)' => ByUs(job[g], o)
        <5>1. job[g] \in Action /\ state[job[g]] # "none"
          BY <4>2, WorksOnStored DEF Run, MembersRun, CampaignRun, ContactRun
        <5>2. pc[h] \in Run => job[h] # job[g]
          BY <3>2, <4>2 DEF ClaimInv, Runs
        <5>3. \A o \in Lead : item'[<<job[g], o>>] = "failed" =>
                                item[<<job[g], o>>] = "failed"
          BY <2>2, <4>2, <5>1, <5>2, FailedByStep DEF FailedBy, Run, MembersRun
        <5>4. \A o \in Lead : /\ RecordOf(job[g], o)' = RecordOf(job[g], o)
                              /\ RecordOf(job[g], o) \in Record
          BY <1>1, <4>1, <5>1, RecordIs DEF OpStays, RecordOf
        <5>5. \A r \in Record : member'[r] = job[g] => member[r] = job[g]
          BY <2>2, <5>2, MadeByStep DEF MadeBy, Run, MembersRun
        <5>6. QED
          BY <4>1, <5>3, <5>4, <5>5 DEF Failed, ByUs
      <4>3. QED
        BY <1>1, <4>1, <4>2, TruthOther
    <3>3. QED
      BY <3>1, <3>2
  <2>3. QED
    BY <2>1, <2>2, StepIsThread
<1>5. QED
  BY <1>2, <1>3, <1>4, MembersPosted DEF TruthInv


---------------------------------------------------------------------------
(***************************************************************************)
(* An action that one thread has to itself.                                *)
(***************************************************************************)
\* A thread writes the state of its own membership action only.
StateOfOwn(h) == \A a \in Action :
    kind[a] = "members" /\ a # job[h] => state'[a] = state[a]

LEMMA StateOfOwnStep ==
    ASSUME TypeOK,
           NEW h \in Handler, ThreadStep(h)
    PROVE  StateOfOwn(h)
<1> USE DEF TypeOK, RowsOK, LocalOK, StateOfOwn, Finish, fixed, history, row,
       items, salesforce, task, work, local, Goto, Working
<1>1. ASSUME NEW a \in Action, NEW o \in Lead, AskContact(h, a, o)
      PROVE  StateOfOwn(h)
  BY <1>1 DEF AskContact, Stale, Pending
<1>2. CASE StoreContact(h)
  <2>1. job[h] \in Action
    BY <1>2, BusyHasJob DEF StoreContact
  <2>2. QED
    BY <1>2, <2>1 DEF StoreContact, Store
<1>3. ASSUME NEW a \in Action, Click(h, a)
      PROVE  StateOfOwn(h)
  BY <1>3 DEF Click
<1>4. CASE TurnAway(h) \/ Ineligible(h) \/ ExpiredClick(h) \/ BeginCommit(h)
  BY <1>4 DEF TurnAway, End, Ineligible, Replay, ExpiredClick, Fail,
     BeginCommit
<1>5. CASE Again(h) \/ Reply(h) \/ Disabled(h) \/ FrozenScopeRefused(h)
  BY <1>5 DEF Again, Replay, Reply, End, Disabled, Fail, FrozenScopeRefused
<1>6. CASE Refused(h) \/ Lost(h) \/ ReadFails(h) \/ Crash(h)
  BY <1>6 DEF Refused, Fail, End, Lost, ReadFails, Crash
<1>7. CASE EnsureStatus(h) \/ PostStatus(h) \/ StatusBack(h) \/ CreateLeads(h)
  BY <1>7 DEF EnsureStatus, BeginAttempt, PostStatus, StatusBack, End,
     FinishAttempt, CreateLeads
<1>8. CASE PostLeads(h) \/ LeadsBack(h) \/ StoreIds(h) \/ ReadBefore(h)
  BY <1>8 DEF PostLeads, LeadsBack, FinishAttempt, StoreIds, ReadBefore
<1>9. CASE CreateMembers(h) \/ PostMembers(h) \/ MembersBack(h) \/ Pend(h)
  BY <1>9 DEF CreateMembers, BeginAttempt, PostMembers, MembersBack,
     FinishAttempt, Pend
<1>10. CASE Poll(h) \/ Count(h) \/ Write(h) \/ Reconcile(h)
  BY <1>10 DEF Poll, Count, Write, Reconcile
<1>11. CASE PollAgain(h) \/ CloseAttempts(h)
  BY <1>11 DEF PollAgain, CloseAttempts
<1>12. ASSUME NEW o \in Lead,
             LeadIn(h, o) \/ AlreadyPresent(h, o) \/ Outcome(h, o) \/
             Settle(h, o)
      PROVE  StateOfOwn(h)
  BY <1>12 DEF LeadIn, AlreadyPresent, Outcome, Settle
<1>13. CASE
          StartCampaign(h) \/ PostCampaign(h) \/ CampaignBack(h) \/
          CampaignIn(h)
  BY <1>13 DEF StartCampaign, BeginAttempt, PostCampaign, PostOne,
     CampaignBack, FinishAttempt, CampaignIn, Fail, End
<1>14. CASE
          ReconcileCampaign(h) \/ CampaignFound(h) \/ StartContact(h) \/
          PostLead(h)
  BY <1>14 DEF ReconcileCampaign, CampaignFound, Fail, End, StartContact,
     PostLead, PostOne
<1>15. CASE LeadBack(h) \/ ReadLead(h) \/ PostNote(h) \/ NoteBack(h)
  BY <1>15 DEF LeadBack, FailItem, Fail, End, ReadLead, PostNote, PostOne,
     NoteBack, NoteRejected, NoteDone
<1>16. CASE PostLink(h) \/ LinkBack(h)
  BY <1>16 DEF PostLink, PostOne, LinkBack, NoteRejected, NoteDone, FailItem,
     Fail, End
<1>17. QED
  BY <1>1, <1>2, <1>3, <1>4, <1>5, <1>6, <1>7, <1>8, <1>9, <1>10, <1>11,
     <1>12, <1>13, <1>14, <1>15, <1>16
     DEF ThreadStep, ClickStep, MembersStep, CampaignStep, ContactStep

\* The rest of the world changes no stored membership action but to cancel it.
LEMMA WorldKeeps ==
    ASSUME TypeOK, World, NEW a \in Action, kind[a] = "members",
           state[a] # "none"
    PROVE  /\ \/ state'[a] = state[a]
              \/ state[a] = "ready" /\ state'[a] = "cancelled"
           /\ \A o \in Lead : item'[<<a, o>>] = item[<<a, o>>]
<1> USE DEF TypeOK, RowsOK, fixed, history, row, items, salesforce, local
<1>1. ASSUME NEW b \in Action, PrepareMembers(b)
      PROVE  state'[a] = state[a] /\ \A o \in Lead : item'[<<a, o>>] = item[<<a, o>>]
  BY <1>1 DEF PrepareMembers, Store, Item
<1>2. CASE \E b \in Action : PrepareCampaign(b) \/ Cancel(b) \/ Expire(b)
  BY <1>2 DEF PrepareCampaign, Open, Cancel, Finish, Expire
<1>3. CASE \E o \in Lead : Enrol(o)
  BY <1>3 DEF Enrol
<1>4. CASE UNCHANGED vars
  BY <1>4 DEF vars
<1>5. QED
  BY <1>1, <1>2, <1>3, <1>4 DEF World

\* Threads once seen on one action stay known as such.
ClashGrows == clash \subseteq clash'

LEMMA ClashStep ==
    ASSUME TypeOK, [Next]_vars
    PROVE  ClashGrows
<1> USE DEF ClashGrows, fixed, history, row, items, salesforce, task, work,
       local, fixed, history
<1>1. ASSUME NEW a \in Action,
             PrepareMembers(a) \/ PrepareCampaign(a) \/ Cancel(a)
      PROVE  ClashGrows
  BY <1>1 DEF PrepareMembers, Store, Delivered, Slice, PrepareCampaign, Open,
     Cancel
<1>2. ASSUME NEW h \in Handler, NEW a \in Action, NEW o \in Lead,
             AskContact(h, a, o)
      PROVE  ClashGrows
  BY <1>2 DEF AskContact, Stale, Pending
<1>3. ASSUME NEW h \in Handler, StoreContact(h)
      PROVE  ClashGrows
  BY <1>3 DEF StoreContact, Store, Modes, End
<1>4. ASSUME NEW h \in Handler, NEW a \in Action, Click(h, a)
      PROVE  ClashGrows
  BY <1>4 DEF Click
<1>5. ASSUME NEW h \in Handler,
             TurnAway(h) \/ Ineligible(h) \/ ExpiredClick(h) \/ BeginCommit(h)
      PROVE  ClashGrows
  BY <1>5 DEF TurnAway, End, Ineligible, Replay, ExpiredClick, Fail,
     BeginCommit
<1>6. ASSUME NEW h \in Handler,
             Again(h) \/ Reply(h) \/ Disabled(h) \/ FrozenScopeRefused(h)
      PROVE  ClashGrows
  BY <1>6 DEF Again, Replay, Reply, End, Disabled, Fail, FrozenScopeRefused
<1>7. ASSUME NEW h \in Handler,
             Refused(h) \/ Lost(h) \/ ReadFails(h) \/ Crash(h)
      PROVE  ClashGrows
  BY <1>7 DEF Refused, Fail, End, Lost, ReadFails, Crash
<1>8. ASSUME NEW h \in Handler,
             EnsureStatus(h) \/ PostStatus(h) \/ StatusBack(h) \/
             CreateLeads(h)
      PROVE  ClashGrows
  BY <1>8 DEF EnsureStatus, BeginAttempt, PostStatus, StatusBack, End,
     FinishAttempt, CreateLeads
<1>9. ASSUME NEW h \in Handler,
             PostLeads(h) \/ LeadsBack(h) \/ StoreIds(h) \/ ReadBefore(h)
      PROVE  ClashGrows
  BY <1>9 DEF PostLeads, LeadsBack, FinishAttempt, StoreIds, ReadBefore
<1>10. ASSUME NEW h \in Handler,
             CreateMembers(h) \/ PostMembers(h) \/ MembersBack(h) \/ Pend(h)
      PROVE  ClashGrows
  BY <1>10 DEF CreateMembers, BeginAttempt, PostMembers, MembersBack,
     FinishAttempt, Pend
<1>11. ASSUME NEW h \in Handler,
             Poll(h) \/ Count(h) \/ Write(h) \/ Reconcile(h)
      PROVE  ClashGrows
  BY <1>11 DEF Poll, Count, Write, Reconcile
<1>12. ASSUME NEW h \in Handler, PollAgain(h) \/ CloseAttempts(h)
      PROVE  ClashGrows
  BY <1>12 DEF PollAgain, CloseAttempts
<1>13. ASSUME NEW h \in Handler, NEW o \in Lead,
             LeadIn(h, o) \/ AlreadyPresent(h, o) \/ Outcome(h, o) \/
             Settle(h, o)
      PROVE  ClashGrows
  BY <1>13 DEF LeadIn, AlreadyPresent, Outcome, Settle
<1>14. ASSUME NEW h \in Handler,
             StartCampaign(h) \/ PostCampaign(h) \/ CampaignBack(h) \/
             CampaignIn(h)
      PROVE  ClashGrows
  BY <1>14 DEF StartCampaign, BeginAttempt, PostCampaign, PostOne,
     CampaignBack, FinishAttempt, CampaignIn, Fail, End
<1>15. ASSUME NEW h \in Handler,
             ReconcileCampaign(h) \/ CampaignFound(h) \/ StartContact(h) \/
             PostLead(h)
      PROVE  ClashGrows
  BY <1>15 DEF ReconcileCampaign, CampaignFound, Fail, End, StartContact,
     PostLead, PostOne
<1>16. ASSUME NEW h \in Handler,
             LeadBack(h) \/ ReadLead(h) \/ PostNote(h) \/ NoteBack(h)
      PROVE  ClashGrows
  BY <1>16 DEF LeadBack, FailItem, Fail, End, ReadLead, PostNote, PostOne,
     NoteBack, NoteRejected, NoteDone
<1>17. ASSUME NEW h \in Handler, PostLink(h) \/ LinkBack(h)
      PROVE  ClashGrows
  BY <1>17 DEF PostLink, PostOne, LinkBack, NoteRejected, NoteDone, FailItem,
     Fail, End
<1>18. ASSUME NEW a \in Action, Expire(a)
      PROVE  ClashGrows
  BY <1>18 DEF Expire
<1>19. ASSUME NEW o \in Lead, Enrol(o)
      PROVE  ClashGrows
  BY <1>19 DEF Enrol
<1>20. CASE UNCHANGED vars
  BY <1>20 DEF vars
<1>21. QED
  BY <1>1, <1>2, <1>3, <1>4, <1>5, <1>6, <1>7, <1>8, <1>9, <1>10, <1>11,
     <1>12, <1>13, <1>14, <1>15, <1>16, <1>17, <1>18, <1>19, <1>20
     DEF Next, Preview, ClickStep, MembersStep, CampaignStep, ContactStep

LEMMA JobsApart ==
    ASSUME TypeOK, WholeInv, [Next]_vars
    PROVE  (\A g, k \in Handler :
                job[g] \in Action \ clash /\ job[g] = job[k] => g = k)'
<1> USE DEF TypeOK, LocalOK, WholeInv, fixed, history, row, items,
       salesforce, task, work, local, fixed, history, Goto, Working
<1>1. ASSUME NEW a \in Action,
             PrepareMembers(a) \/ PrepareCampaign(a) \/ Cancel(a)
      PROVE  (\A g, k \in Handler :
                job[g] \in Action \ clash /\ job[g] = job[k] => g = k)'
  BY CrmAssumption, <1>1 DEF PrepareMembers, Store, Delivered, Slice,
     PrepareCampaign, Open, Cancel
<1>2. ASSUME NEW h \in Handler, NEW a \in Action, NEW o \in Lead,
             AskContact(h, a, o)
      PROVE  (\A g, k \in Handler :
                job[g] \in Action \ clash /\ job[g] = job[k] => g = k)'
  BY CrmAssumption, <1>2 DEF AskContact, Stale, Pending
<1>3. ASSUME NEW h \in Handler, StoreContact(h)
      PROVE  (\A g, k \in Handler :
                job[g] \in Action \ clash /\ job[g] = job[k] => g = k)'
  BY CrmAssumption, <1>3 DEF StoreContact, Store, Modes, End
<1>4. ASSUME NEW h \in Handler, NEW a \in Action, Click(h, a)
      PROVE  (\A g, k \in Handler :
                job[g] \in Action \ clash /\ job[g] = job[k] => g = k)'
  BY CrmAssumption, <1>4 DEF Click
<1>5. ASSUME NEW h \in Handler,
             TurnAway(h) \/ Ineligible(h) \/ ExpiredClick(h) \/ BeginCommit(h)
      PROVE  (\A g, k \in Handler :
                job[g] \in Action \ clash /\ job[g] = job[k] => g = k)'
  BY CrmAssumption, <1>5 DEF TurnAway, End, Ineligible, Replay, ExpiredClick,
     Fail, BeginCommit
<1>6. ASSUME NEW h \in Handler,
             Again(h) \/ Reply(h) \/ Disabled(h) \/ FrozenScopeRefused(h)
      PROVE  (\A g, k \in Handler :
                job[g] \in Action \ clash /\ job[g] = job[k] => g = k)'
  BY CrmAssumption, <1>6 DEF Again, Replay, Reply, End, Disabled, Fail,
     FrozenScopeRefused
<1>7. ASSUME NEW h \in Handler,
             Refused(h) \/ Lost(h) \/ ReadFails(h) \/ Crash(h)
      PROVE  (\A g, k \in Handler :
                job[g] \in Action \ clash /\ job[g] = job[k] => g = k)'
  BY CrmAssumption, <1>7 DEF Refused, Fail, End, Lost, ReadFails, Crash
<1>8. ASSUME NEW h \in Handler,
             EnsureStatus(h) \/ PostStatus(h) \/ StatusBack(h) \/
             CreateLeads(h)
      PROVE  (\A g, k \in Handler :
                job[g] \in Action \ clash /\ job[g] = job[k] => g = k)'
  BY CrmAssumption, <1>8 DEF EnsureStatus, BeginAttempt, PostStatus,
     StatusBack, End, FinishAttempt, CreateLeads
<1>9. ASSUME NEW h \in Handler,
             PostLeads(h) \/ LeadsBack(h) \/ StoreIds(h) \/ ReadBefore(h)
      PROVE  (\A g, k \in Handler :
                job[g] \in Action \ clash /\ job[g] = job[k] => g = k)'
  BY CrmAssumption, <1>9 DEF PostLeads, LeadsBack, FinishAttempt, StoreIds,
     ReadBefore
<1>10. ASSUME NEW h \in Handler,
             CreateMembers(h) \/ PostMembers(h) \/ MembersBack(h) \/ Pend(h)
      PROVE  (\A g, k \in Handler :
                job[g] \in Action \ clash /\ job[g] = job[k] => g = k)'
  BY CrmAssumption, <1>10 DEF CreateMembers, BeginAttempt, PostMembers,
     MembersBack, FinishAttempt, Pend
<1>11. ASSUME NEW h \in Handler,
             Poll(h) \/ Count(h) \/ Write(h) \/ Reconcile(h)
      PROVE  (\A g, k \in Handler :
                job[g] \in Action \ clash /\ job[g] = job[k] => g = k)'
  BY CrmAssumption, <1>11 DEF Poll, Count, Write, Reconcile
<1>12. ASSUME NEW h \in Handler, PollAgain(h) \/ CloseAttempts(h)
      PROVE  (\A g, k \in Handler :
                job[g] \in Action \ clash /\ job[g] = job[k] => g = k)'
  BY CrmAssumption, <1>12 DEF PollAgain, CloseAttempts
<1>13. ASSUME NEW h \in Handler, NEW o \in Lead,
             LeadIn(h, o) \/ AlreadyPresent(h, o) \/ Outcome(h, o) \/
             Settle(h, o)
      PROVE  (\A g, k \in Handler :
                job[g] \in Action \ clash /\ job[g] = job[k] => g = k)'
  BY CrmAssumption, <1>13 DEF LeadIn, AlreadyPresent, Outcome, Settle
<1>14. ASSUME NEW h \in Handler,
             StartCampaign(h) \/ PostCampaign(h) \/ CampaignBack(h) \/
             CampaignIn(h)
      PROVE  (\A g, k \in Handler :
                job[g] \in Action \ clash /\ job[g] = job[k] => g = k)'
  BY CrmAssumption, <1>14 DEF StartCampaign, BeginAttempt, PostCampaign,
     PostOne, CampaignBack, FinishAttempt, CampaignIn, Fail, End
<1>15. ASSUME NEW h \in Handler,
             ReconcileCampaign(h) \/ CampaignFound(h) \/ StartContact(h) \/
             PostLead(h)
      PROVE  (\A g, k \in Handler :
                job[g] \in Action \ clash /\ job[g] = job[k] => g = k)'
  BY CrmAssumption, <1>15 DEF ReconcileCampaign, CampaignFound, Fail, End,
     StartContact, PostLead, PostOne
<1>16. ASSUME NEW h \in Handler,
             LeadBack(h) \/ ReadLead(h) \/ PostNote(h) \/ NoteBack(h)
      PROVE  (\A g, k \in Handler :
                job[g] \in Action \ clash /\ job[g] = job[k] => g = k)'
  BY CrmAssumption, <1>16 DEF LeadBack, FailItem, Fail, End, ReadLead,
     PostNote, PostOne, NoteBack, NoteRejected, NoteDone
<1>17. ASSUME NEW h \in Handler, PostLink(h) \/ LinkBack(h)
      PROVE  (\A g, k \in Handler :
                job[g] \in Action \ clash /\ job[g] = job[k] => g = k)'
  BY CrmAssumption, <1>17 DEF PostLink, PostOne, LinkBack, NoteRejected,
     NoteDone, FailItem, Fail, End
<1>18. ASSUME NEW a \in Action, Expire(a)
      PROVE  (\A g, k \in Handler :
                job[g] \in Action \ clash /\ job[g] = job[k] => g = k)'
  BY CrmAssumption, <1>18 DEF Expire
<1>19. ASSUME NEW o \in Lead, Enrol(o)
      PROVE  (\A g, k \in Handler :
                job[g] \in Action \ clash /\ job[g] = job[k] => g = k)'
  BY CrmAssumption, <1>19 DEF Enrol
<1>20. CASE UNCHANGED vars
  BY <1>20 DEF vars
<1>21. QED
  BY <1>1, <1>2, <1>3, <1>4, <1>5, <1>6, <1>7, <1>8, <1>9, <1>10, <1>11,
     <1>12, <1>13, <1>14, <1>15, <1>16, <1>17, <1>18, <1>19, <1>20
     DEF Next, Preview, ClickStep, MembersStep, CampaignStep, ContactStep

LEMMA WholeOther ==
    ASSUME TypeOK, ClaimInv, KindInv, WholeInv, OpStays, ClashGrows,
           NEW g \in Handler,
           UNCHANGED <<pc[g], job[g], was[g], todo[g], ok[g], settled[g]>>,
           Alone(g) /\ pc[g] \notin {"idle", "lookup"} =>
             /\ \/ state'[job[g]] = state[job[g]]
                \/ state[job[g]] = "ready" /\ state'[job[g]] = "cancelled"
             /\ \A o \in Lead : item'[<<job[g], o>>] = item[<<job[g], o>>]
    PROVE  Whole(g)'
<1> SUFFICES ASSUME Alone(g)'
             PROVE  Whole(g)'
  BY DEF Whole
<1>1. Alone(g)
  BY DEF Alone, OpStays, ClashGrows
<1>2. CASE pc[g] \in {"idle", "lookup"}
  BY <1>2 DEF Whole, Runs, Run, MembersRun, CampaignRun, ContactRun
<1>3. CASE pc[g] \notin {"idle", "lookup"}
  <2>1. /\ job[g] \in Action /\ state[job[g]] # "none" /\ Whole(g)
        /\ settled[g] \subseteq Lead
    BY <1>3, WorksOnStored DEF WholeInv, TypeOK, LocalOK
  <2>2. \A o \in Lead : op'[<<job[g], o>>] = op[<<job[g], o>>]
    BY <2>1 DEF OpStays
  <2>3. \A o \in Lead : (Unlisted(g, o)' <=> Unlisted(g, o)) /\ (Done(job[g], o)' <=> Done(job[g], o))
    BY <1>1, <1>3, <2>2 DEF Unlisted, Done
  <2>4. Runs(g)' <=> Runs(g)
    BY DEF Runs
  <2>5. QED
    BY <1>1, <1>3, <2>1, <2>2, <2>3, <2>4 DEF Whole
<1>4. QED
  BY <1>2, <1>3


LEMMA WholeVerdict ==
    ASSUME NEW a \in Action, Verdict(a) = "complete"
    PROVE  \A o \in Mine(a) : item[<<a, o>>] \notin
             {"unknown", "verification_pending", "failed"}
<1> DEFINE outcome == {item[<<a, o>>] : o \in Mine(a)}
<1>1. (IF outcome \cap {"unknown", "verification_pending"} # {} THEN "unknown"
       ELSE IF "failed" \in outcome THEN "partial" ELSE "complete") = "complete"
  BY DEF Verdict
<1> HIDE DEF outcome
<1>2. outcome \cap {"unknown", "verification_pending"} = {} /\ "failed" \notin outcome
  BY <1>1
<1>3. \A s \in outcome : s \notin {"unknown", "verification_pending", "failed"}
  BY <1>2
<1>4. \A o \in Mine(a) : item[<<a, o>>] \in outcome
  BY DEF outcome
<1>5. QED
  BY <1>3, <1>4

LEMMA WholeOwn ==
    ASSUME TypeOK, ClaimInv, KindInv, ScopeInv, WholeInv, OpStays,
           NEW h \in Handler, ThreadStep(h)
    PROVE  Whole(h)'
<1> USE DEF TypeOK, RowsOK, LocalOK, Whole, WholeInv, Alone, Unlisted, Done,
       Runs, Run, MembersRun, CampaignRun, ContactRun, Finish, fixed,
       history, row, items, salesforce, task, work, local, Goto, Working
<1>1. ASSUME NEW a \in Action, NEW o \in Lead, AskContact(h, a, o)
      PROVE  Whole(h)'
  BY <1>1 DEF AskContact, Stale, Pending
<1>2. CASE StoreContact(h)
  <2>1. ~Alone(h)' \/ job'[h] \notin Action
    BY <1>2, CrmAssumption DEF StoreContact, End
  <2>2. QED
    BY <2>1
<1>3. ASSUME NEW a \in Action, Click(h, a)
      PROVE  Whole(h)'
  BY <1>3 DEF Click
<1>4. CASE TurnAway(h)
  <2>1. ~Alone(h)' \/ job'[h] \notin Action
    BY <1>4, CrmAssumption DEF TurnAway, End
  <2>2. QED
    BY <2>1
<1>5. CASE Ineligible(h)
  BY <1>5 DEF Ineligible, Replay
<1>6. CASE ExpiredClick(h)
  <2>1. ~Alone(h)' \/ job'[h] \notin Action
    BY <1>6, CrmAssumption DEF ExpiredClick, Fail, End
  <2>2. QED
    BY <2>1
<1>7. CASE BeginCommit(h) \/ Again(h)
  BY <1>7 DEF BeginCommit, Replay, Again
<1>8. CASE Reply(h)
  <2>1. ~Alone(h)' \/ job'[h] \notin Action
    BY <1>8, CrmAssumption DEF Reply, End
  <2>2. QED
    BY <2>1
<1>9. CASE Disabled(h)
  <2>1. ~Alone(h)' \/ job'[h] \notin Action
    BY <1>9, CrmAssumption DEF Disabled, Fail, End
  <2>2. QED
    BY <2>1
<1>10. CASE FrozenScopeRefused(h)
  <2>1. ~Alone(h)' \/ job'[h] \notin Action
    BY <1>10, CrmAssumption DEF FrozenScopeRefused, Fail, End
  <2>2. QED
    BY <2>1
<1>11. CASE Refused(h)
  <2>1. ~Alone(h)' \/ job'[h] \notin Action
    BY <1>11, CrmAssumption DEF Refused, Fail, End
  <2>2. QED
    BY <2>1
<1>12. CASE Lost(h)
  <2>1. ~Alone(h)' \/ job'[h] \notin Action
    BY <1>12, CrmAssumption DEF Lost, Fail, End
  <2>2. QED
    BY <2>1
<1>13. CASE ReadFails(h)
  <2>1. ~Alone(h)' \/ job'[h] \notin Action
    BY <1>13, CrmAssumption DEF ReadFails, Fail, End
  <2>2. QED
    BY <2>1
<1>14. CASE Crash(h)
  <2>1. ~Alone(h)' \/ job'[h] \notin Action
    BY <1>14, CrmAssumption DEF Crash, End
  <2>2. QED
    BY <2>1
<1>15. CASE EnsureStatus(h) \/ PostStatus(h) \/ StatusBack(h)
  BY <1>15 DEF EnsureStatus, BeginAttempt, PostStatus, StatusBack, End,
     FinishAttempt
<1>16. CASE CreateLeads(h)
  <2>1. /\ job[h] \in Action /\ kind[job[h]] = "members"
        /\ \A o \in Lead : op[<<job[h], o>>] \in {"none", "existing", "create"}
        /\ pc[h] = "leads"
    BY <1>16, BusyHasJob DEF CreateLeads, KindInv, ScopeInv
  <2>2. \A o \in Lead : op[<<job[h], o>>] = "create" => o \in With(job[h], {"create"})
    BY DEF With
  <2>3. /\ todo' = [todo EXCEPT ![h] = With(job[h], {"create"})]
        /\ UNCHANGED <<op, item, job, kind, clash, state, was>>
        /\ pc' = [pc EXCEPT ![h] = "leads_in"] \/ pc' = [pc EXCEPT ![h] = "leads_post"]
    BY <1>16 DEF CreateLeads
  <2>4. QED
    BY <2>1, <2>2, <2>3
<1>17. CASE PostLeads(h) \/ LeadsBack(h)
  BY <1>17 DEF PostLeads, LeadsBack, FinishAttempt
<1>18. CASE StoreIds(h)
  <2>1. \A o \in Lead : op[<<job[h], o>>] = "existing" => o \in With(job[h], {"existing"})
    BY DEF With
  <2>2. job[h] \in Action
    BY <1>18, BusyHasJob DEF StoreIds
  <2>3. QED
    BY <1>18, <2>1, <2>2 DEF StoreIds
<1>19. CASE
          ReadBefore(h) \/ CreateMembers(h) \/ PostMembers(h) \/
          MembersBack(h)
  BY <1>19 DEF ReadBefore, CreateMembers, BeginAttempt, PostMembers,
     MembersBack, FinishAttempt
<1>20. CASE Pend(h)
  <2>1. job[h] \in Action
    BY <1>20, BusyHasJob DEF Pend
  <2>2. QED
    BY <1>20, <2>1, SetItemsIs DEF Pend, MarkVerified, Credit, OnIt
<1>21. CASE Poll(h)
  BY <1>21 DEF Poll
<1>22. CASE Count(h)
  <2>1. /\ job[h] \in Action /\ todo[h] = {}
        /\ pc[h] \in {"outcome", "rec_items"}
    BY <1>22, BusyHasJob DEF Count
  <2>2. ASSUME Alone(h), Verdict(job[h]) = "complete", NEW o \in Lead,
               op[<<job[h], o>>] # "none"
        PROVE  item[<<job[h], o>>] \in OnIt
    <3>1. o \in Mine(job[h])
      BY <2>1, <2>2, MineIs
    <3>2. item[<<job[h], o>>] \notin {"unknown", "verification_pending", "failed"}
      BY <2>1, <2>2, <3>1, WholeVerdict
    <3>3. Done(job[h], o)
      BY <2>1, <2>2
    <3>4. QED
      BY <3>2, <3>3
  <2>3. QED
    BY <1>22, <2>1, <2>2 DEF Count
<1>23. CASE Write(h)
  BY <1>23 DEF Write
<1>24. CASE Reconcile(h)
  <2>1. job[h] \in Action /\ pc[h] = "decide" /\ was[h] \in {"unknown", "committing"}
    BY <1>24, BusyHasJob DEF Reconcile, Reconcilable
  <2>2. \A o \in settled'[h] : item[<<job[h], o>>] \in OnIt \cup {"failed"}
    BY <1>24 DEF Reconcile, OnIt
  <2>3. QED
    BY <1>24, <2>1, <2>2 DEF Reconcile
<1>25. CASE PollAgain(h)
  <2>1. job[h] \in Action /\ pc[h] = "rec_poll"
    BY <1>25, BusyHasJob DEF PollAgain
  <2>2. \A o \in Lead : op[<<job[h], o>>] # "none" => o \in Mine(job[h])
    BY <2>1, MineIs
  <2>3. QED
    BY <1>25, <2>1, <2>2 DEF PollAgain
<1>26. CASE CloseAttempts(h)
  BY <1>26 DEF CloseAttempts
<1>27. ASSUME NEW o \in Lead, LeadIn(h, o)
      PROVE  Whole(h)'
  <2>1. job[h] \in Action /\ pc[h] = "leads_in"
    BY <1>27, BusyHasJob DEF LeadIn
  <2>2. \A x \in Lead : x # o => item'[<<job[h], x>>] = item[<<job[h], x>>]
    BY <1>27, <2>1, SetItemsIs DEF LeadIn
  <2>3. o \in ok'[h] \/ item'[<<job[h], o>>] \in {"failed", "unknown"}
    BY <1>27, <2>1, SetItemsIs DEF LeadIn
  <2>4. /\ todo' = [todo EXCEPT ![h] = todo[h] \ {o}]
        /\ \A x \in Lead : x # o => (x \in ok[h] <=> x \in ok'[h])
        /\ UNCHANGED <<op, job, kind, clash, state, was, pc>>
    BY <1>27 DEF LeadIn
  <2>5. Alone(h)' => Alone(h) /\ Whole(h)
    BY <2>4
  <2>6. ASSUME Alone(h)', NEW x \in Lead
        PROVE  (~Unlisted(h, x) \/ op[<<job[h], x>>] = "existing" \/ x \in ok[h])'
    <3>1. ~Unlisted(h, x) \/ op[<<job[h], x>>] = "existing" \/ x \in ok[h]
      BY <2>1, <2>5, <2>6
    <3>2. CASE x = o
      BY <2>3, <2>4, <3>2
    <3>3. CASE x # o
      BY <2>1, <2>2, <2>4, <3>1, <3>3
    <3>4. QED
      BY <3>2, <3>3
  <2>7. QED
    BY <2>1, <2>4, <2>5, <2>6
<1>28. ASSUME NEW o \in Lead, AlreadyPresent(h, o)
      PROVE  Whole(h)'
  <2>1. job[h] \in Action
    BY <1>28, BusyHasJob DEF AlreadyPresent
  <2>2. QED
    BY <1>28, <2>1, SetItemsIs DEF AlreadyPresent, MarkVerified, Credit, OnIt
<1>29. ASSUME NEW o \in Lead, Outcome(h, o)
      PROVE  Whole(h)'
  <2>1. job[h] \in Action
    BY <1>29, BusyHasJob DEF Outcome
  <2>2. QED
    BY <1>29, <2>1, SetItemsIs DEF Outcome, MarkVerified, Credit, OnIt
<1>30. ASSUME NEW o \in Lead, Settle(h, o)
      PROVE  Whole(h)'
  <2>1. job[h] \in Action /\ pc[h] = "rec_items"
    BY <1>30, BusyHasJob DEF Settle
  <2>2. \A x \in Lead : x # o => item'[<<job[h], x>>] = item[<<job[h], x>>]
    BY <1>30, <2>1, SetItemsIs DEF Settle, MarkVerified
  <2>3. \/ item'[<<job[h], o>>] \in OnIt
        \/ o \in settled[h] /\ item'[<<job[h], o>>] = item[<<job[h], o>>]
        \/ o \notin settled[h] /\ item'[<<job[h], o>>] = "unknown"
    BY <1>30, <2>1, SetItemsIs DEF Settle, MarkVerified, Credit, OnIt
  <2>4. /\ todo' = [todo EXCEPT ![h] = todo[h] \ {o}]
        /\ UNCHANGED <<op, job, kind, clash, state, was, pc, settled>>
    BY <1>30 DEF Settle
  <2>5. Alone(h)' => Alone(h) /\ Whole(h)
    BY <2>4
  <2>6. ASSUME Alone(h)', NEW x \in Lead
        PROVE  /\ ~Unlisted(h, x)'
               /\ x \in settled[h] => item'[<<job[h], x>>] \in OnIt \cup {"failed"}
    <3>1. /\ ~Unlisted(h, x)
          /\ x \in settled[h] => item[<<job[h], x>>] \in OnIt \cup {"failed"}
      BY <2>1, <2>5, <2>6
    <3>2. CASE x = o
      BY <2>3, <2>4, <3>1, <3>2
    <3>3. CASE x # o
      BY <2>1, <2>2, <2>4, <3>1, <3>3
    <3>4. QED
      BY <3>2, <3>3
  <2>7. /\ settled'[h] \subseteq Lead /\ job'[h] = job[h]
        /\ state'[job[h]] \in {"committing", "unknown"} \/ ~Alone(h)
    BY <2>1, <2>4
  <2>8. QED
    BY <2>1, <2>4, <2>5, <2>6, <2>7
<1>31. CASE
          StartCampaign(h) \/ PostCampaign(h) \/ CampaignBack(h) \/
          CampaignIn(h)
  BY <1>31 DEF StartCampaign, BeginAttempt, PostCampaign, PostOne,
     CampaignBack, FinishAttempt, CampaignIn, Fail, End
<1>32. CASE ReconcileCampaign(h) \/ CampaignFound(h) \/ StartContact(h)
  BY <1>32 DEF ReconcileCampaign, CampaignFound, Fail, End, StartContact
<1>33. CASE PostLead(h)
  <2>1. ~Alone(h)' \/ job'[h] \notin Action
    BY <1>33, CrmAssumption DEF PostLead, PostOne, KindInv, ContactRun
  <2>2. QED
    BY <2>1
<1>34. CASE LeadBack(h)
  <2>1. ~Alone(h)' \/ job'[h] \notin Action
    BY <1>34, CrmAssumption DEF LeadBack, FailItem, Fail, End, KindInv,
       ContactRun
  <2>2. QED
    BY <2>1
<1>35. CASE ReadLead(h)
  <2>1. ~Alone(h)' \/ job'[h] \notin Action
    BY <1>35, CrmAssumption DEF ReadLead, KindInv, ContactRun
  <2>2. QED
    BY <2>1
<1>36. CASE PostNote(h)
  <2>1. ~Alone(h)' \/ job'[h] \notin Action
    BY <1>36, CrmAssumption DEF PostNote, PostOne, KindInv, ContactRun
  <2>2. QED
    BY <2>1
<1>37. CASE NoteBack(h)
  <2>1. ~Alone(h)' \/ job'[h] \notin Action
    BY <1>37, CrmAssumption DEF NoteBack, NoteRejected, NoteDone, FailItem,
       Fail, End, KindInv, ContactRun
  <2>2. QED
    BY <2>1
<1>38. CASE PostLink(h)
  <2>1. ~Alone(h)' \/ job'[h] \notin Action
    BY <1>38, CrmAssumption DEF PostLink, PostOne, KindInv, ContactRun
  <2>2. QED
    BY <2>1
<1>39. CASE LinkBack(h)
  <2>1. ~Alone(h)' \/ job'[h] \notin Action
    BY <1>39, CrmAssumption DEF LinkBack, NoteRejected, NoteDone, FailItem,
       Fail, End, KindInv, ContactRun
  <2>2. QED
    BY <2>1
<1>40. QED
  BY <1>1, <1>2, <1>3, <1>4, <1>5, <1>6, <1>7, <1>8, <1>9, <1>10, <1>11,
     <1>12, <1>13, <1>14, <1>15, <1>16, <1>17, <1>18, <1>19, <1>20, <1>21,
     <1>22, <1>23, <1>24, <1>25, <1>26, <1>27, <1>28, <1>29, <1>30, <1>31,
     <1>32, <1>33, <1>34, <1>35, <1>36, <1>37, <1>38, <1>39
     DEF ThreadStep, ClickStep, MembersStep, CampaignStep, ContactStep


\* How a thread's own membership action becomes complete.
Completes(h) == kind[job[h]] = "members" /\ job[h] \in Action =>
    /\ \A o \in Lead : op'[<<job[h], o>>] = op[<<job[h], o>>]
    /\ state'[job[h]] = "complete" =>
         \/ state[job[h]] = "complete"
         \/ pc[h] \in {"write", "rec_write"} /\ was[h] = "complete"
    /\ pc[h] \notin {"leads_in", "present", "pend", "outcome", "rec_items"} =>
         \A o \in Lead : item'[<<job[h], o>>] = item[<<job[h], o>>]

LEMMA CompletesStep ==
    ASSUME TypeOK, ClaimInv, KindInv,
           NEW h \in Handler, ThreadStep(h)
    PROVE  Completes(h)
<1> USE DEF TypeOK, RowsOK, LocalOK, Completes, Finish, fixed, history, row,
       items, salesforce, task, work, local, Goto, Working
<1>1. ASSUME NEW a \in Action, NEW o \in Lead, AskContact(h, a, o)
      PROVE  Completes(h)
  BY <1>1 DEF AskContact, Stale, Pending
<1>2. CASE StoreContact(h)
  <2>1. kind[job[h]] # "members"
    BY <1>2 DEF StoreContact, KindInv, ContactRun, CampaignRun
  <2>2. QED
    BY <2>1
<1>3. ASSUME NEW a \in Action, Click(h, a)
      PROVE  Completes(h)
  BY <1>3 DEF Click
<1>4. CASE TurnAway(h) \/ Ineligible(h) \/ ExpiredClick(h) \/ BeginCommit(h)
  BY <1>4 DEF TurnAway, End, Ineligible, Replay, ExpiredClick, Fail,
     BeginCommit
<1>5. CASE Again(h) \/ Reply(h) \/ Disabled(h) \/ FrozenScopeRefused(h)
  BY <1>5 DEF Again, Replay, Reply, End, Disabled, Fail, FrozenScopeRefused
<1>6. CASE Refused(h) \/ Lost(h) \/ ReadFails(h) \/ Crash(h)
  BY <1>6 DEF Refused, Fail, End, Lost, ReadFails, Crash
<1>7. CASE EnsureStatus(h) \/ PostStatus(h) \/ StatusBack(h) \/ CreateLeads(h)
  BY <1>7 DEF EnsureStatus, BeginAttempt, PostStatus, StatusBack, End,
     FinishAttempt, CreateLeads
<1>8. CASE PostLeads(h) \/ LeadsBack(h) \/ StoreIds(h) \/ ReadBefore(h)
  BY <1>8 DEF PostLeads, LeadsBack, FinishAttempt, StoreIds, ReadBefore
<1>9. CASE CreateMembers(h) \/ PostMembers(h) \/ MembersBack(h) \/ Pend(h)
  BY <1>9 DEF CreateMembers, BeginAttempt, PostMembers, MembersBack,
     FinishAttempt, Pend
<1>10. CASE Poll(h) \/ Count(h)
  BY <1>10 DEF Poll, Count
<1>11. CASE Write(h)
  BY <1>11, BusyHasJob DEF Write, Finish
<1>12. CASE Reconcile(h) \/ PollAgain(h) \/ CloseAttempts(h)
  BY <1>12 DEF Reconcile, PollAgain, CloseAttempts
<1>13. ASSUME NEW o \in Lead,
             LeadIn(h, o) \/ AlreadyPresent(h, o) \/ Outcome(h, o) \/
             Settle(h, o)
      PROVE  Completes(h)
  BY <1>13 DEF LeadIn, AlreadyPresent, Outcome, Settle
<1>14. CASE StartCampaign(h) \/ PostCampaign(h) \/ CampaignBack(h)
  BY <1>14 DEF StartCampaign, BeginAttempt, PostCampaign, PostOne,
     CampaignBack, FinishAttempt
<1>15. CASE CampaignIn(h)
  <2>1. kind[job[h]] # "members"
    BY <1>15 DEF CampaignIn, KindInv, ContactRun, CampaignRun
  <2>2. QED
    BY <2>1
<1>16. CASE ReconcileCampaign(h)
  BY <1>16 DEF ReconcileCampaign
<1>17. CASE CampaignFound(h)
  <2>1. kind[job[h]] # "members"
    BY <1>17 DEF CampaignFound, KindInv, ContactRun, CampaignRun
  <2>2. QED
    BY <2>1
<1>18. CASE StartContact(h) \/ PostLead(h)
  BY <1>18 DEF StartContact, PostLead, PostOne
<1>19. CASE LeadBack(h)
  <2>1. kind[job[h]] # "members"
    BY <1>19 DEF LeadBack, KindInv, ContactRun, CampaignRun
  <2>2. QED
    BY <2>1
<1>20. CASE ReadLead(h) \/ PostNote(h)
  BY <1>20 DEF ReadLead, PostNote, PostOne
<1>21. CASE NoteBack(h)
  <2>1. kind[job[h]] # "members"
    BY <1>21 DEF NoteBack, KindInv, ContactRun, CampaignRun
  <2>2. QED
    BY <2>1
<1>22. CASE PostLink(h)
  BY <1>22 DEF PostLink, PostOne
<1>23. CASE LinkBack(h)
  <2>1. kind[job[h]] # "members"
    BY <1>23 DEF LinkBack, KindInv, ContactRun, CampaignRun
  <2>2. QED
    BY <2>1
<1>24. QED
  BY <1>1, <1>2, <1>3, <1>4, <1>5, <1>6, <1>7, <1>8, <1>9, <1>10, <1>11,
     <1>12, <1>13, <1>14, <1>15, <1>16, <1>17, <1>18, <1>19, <1>20, <1>21,
     <1>22, <1>23
     DEF ThreadStep, ClickStep, MembersStep, CampaignStep, ContactStep

LEMMA WorldCompletes ==
    ASSUME TypeOK, World, NEW a \in Action, kind[a] = "members",
           state'[a] = "complete"
    PROVE  state[a] # "none"
<1> USE DEF TypeOK, RowsOK, fixed, history, row, items, salesforce, local
<1>1. ASSUME NEW b \in Action, PrepareMembers(b)
      PROVE  state[a] # "none"
  BY <1>1 DEF PrepareMembers, Store, Delivered
<1>2. CASE \E b \in Action : PrepareCampaign(b) \/ Cancel(b) \/ Expire(b)
  BY <1>2 DEF PrepareCampaign, Open, Cancel, Finish, Expire
<1>3. CASE \E o \in Lead : Enrol(o)
  BY <1>3 DEF Enrol
<1>4. CASE UNCHANGED vars
  BY <1>4 DEF vars
<1>5. QED
  BY <1>1, <1>2, <1>3, <1>4 DEF World

\* What a step leaves of a stored membership action no thread of the step is in.
LEMMA CompleteStays ==
    ASSUME TypeOK, ClaimInv, KindInv, WholeInv, OpStays, ClashGrows, [Next]_vars
    PROVE  CompleteIsWhole'
<1>1. SUFFICES ASSUME NEW a \in Action, kind[a] = "members", state'[a] = "complete",
                      a \notin clash, NEW o \in Lead, op'[<<a, o>>] # "none"
               PROVE  item'[<<a, o>>] \in OnIt
  <2>1. \A a \in Action, o \in Lead : o \in Mine(a)' => op'[<<a, o>>] # "none"
    BY DEF Mine, With
  <2>2. \A a \in Action : \A o : o \in Mine(a)' => o \in Lead
    BY DEF Mine, With
  <2>3. QED
    BY <2>1, <2>2 DEF CompleteIsWhole, OpStays, ClashGrows
<1>2. ASSUME state[a] = "complete", item'[<<a, o>>] = item[<<a, o>>]
      PROVE  item'[<<a, o>>] \in OnIt
  <2>1. op[<<a, o>>] # "none"
    BY <1>1, <1>2 DEF OpStays
  <2>2. o \in Mine(a)
    BY <2>1, MineIs DEF TypeOK
  <2>3. QED
    BY <1>1, <1>2, <2>2 DEF WholeInv, CompleteIsWhole
<1>3. CASE World
  <2>1. state[a] # "none"
    BY <1>1, <1>3, WorldCompletes
  <2>2. QED
    BY <1>1, <1>2, <1>3, <2>1, WorldKeeps
<1>4. ASSUME NEW h \in Handler, ThreadStep(h)
      PROVE  item'[<<a, o>>] \in OnIt
  <2>1. CASE a # job[h]
    <3>1. state'[a] = state[a]
      BY <1>1, <1>4, <2>1, StateOfOwnStep DEF StateOfOwn
    <3>2. item'[<<a, o>>] = item[<<a, o>>]
      BY <1>1, <1>4, <2>1, UntouchedItems DEF Untouched
    <3>3. QED
      BY <1>1, <1>2, <3>1, <3>2
  <2>2. CASE a = job[h]
    <3>1. Completes(h)
      BY <1>4, CompletesStep
    <3>2. Alone(h) /\ Whole(h)
      BY <1>1, <2>2 DEF Alone, WholeInv
    <3>3. op[<<a, o>>] # "none"
      BY <1>1, <2>2, <3>1 DEF Completes
    <3>4. CASE pc[h] \in {"write", "rec_write"} /\ was[h] = "complete"
      BY <1>1, <2>2, <3>1, <3>2, <3>3, <3>4 DEF Completes, Whole
    <3>5. CASE ~(pc[h] \in {"write", "rec_write"} /\ was[h] = "complete")
      <4>1. state[a] = "complete"
        BY <1>1, <2>2, <3>1, <3>2, <3>5 DEF Completes
      <4>2. item'[<<a, o>>] = item[<<a, o>>]
        <5>1. pc[h] \notin MembersRun \cup {"rec_items"}
          BY <2>2, <3>2, <4>1 DEF Whole, Runs, Run
        <5>2. QED
          BY <1>1, <2>2, <3>1, <4>1, <5>1 DEF Completes, MembersRun
      <4>3. QED
        BY <1>2, <4>1, <4>2
    <3>6. QED
      BY <3>4, <3>5
  <2>3. QED
    BY <2>1, <2>2
<1>5. QED
  BY <1>3, <1>4, StepIsThread

LEMMA WholeStep ==
    ASSUME TypeOK, ClaimInv, KindInv, ScopeInv, WholeInv, [Next]_vars
    PROVE  WholeInv'
<1>1. OpStays /\ ClashGrows
  BY OpStep, ClashStep
<1>2. CompleteIsWhole'
  BY <1>1, CompleteStays
<1>3. (\A h, g \in Handler :
         job[h] \in Action \ clash /\ job[h] = job[g] => h = g)'
  BY JobsApart
<1>4. ASSUME NEW g \in Handler
      PROVE  Whole(g)'
  <2>1. CASE World
    <3>1. UNCHANGED <<pc[g], job[g], was[g], todo[g], ok[g], settled[g]>>
      BY <2>1, WorldLeaves DEF local, task, work
    <3>2. QED
      BY <1>1, <2>1, <3>1, WholeOther, WorldKeeps, WorksOnStored DEF Alone
  <2>2. ASSUME NEW h \in Handler, ThreadStep(h)
        PROVE  Whole(g)'
    <3>1. CASE g = h
      BY <1>1, <2>2, <3>1, WholeOwn
    <3>2. CASE g # h
      <4>1. UNCHANGED <<pc[g], job[g], was[g], todo[g], ok[g], settled[g]>>
        BY <2>2, <3>2, OthersStep DEF OthersStay
      <4>2. Alone(g) => job[g] # job[h] /\ job[g] \in Action
        BY <3>2 DEF WholeInv, Alone
      <4>3. Alone(g) => /\ state'[job[g]] = state[job[g]]
                        /\ \A o \in Lead : item'[<<job[g], o>>] = item[<<job[g], o>>]
        BY <2>2, <4>2, StateOfOwnStep, UntouchedItems
           DEF StateOfOwn, Untouched, Alone
      <4>4. QED
        BY <1>1, <4>1, <4>3, WholeOther
    <3>3. QED
      BY <3>1, <3>2
  <2>3. QED
    BY <2>1, <2>2, StepIsThread
<1>5. QED
  BY <1>2, <1>3, <1>4 DEF WholeInv

---------------------------------------------------------------------------
(***************************************************************************)
(* The invariant of the specification, and what follows from it.           *)
(***************************************************************************)
LEMMA InitInv ==
    ASSUME Init
    PROVE  CrmInv
<1> USE DEF Init
<1>1. TypeOK
  <2>1. RowsOK /\ HistoryOK
    BY CrmAssumption DEF RowsOK, HistoryOK, State
  <2>2. ItemsOK
    BY DEF ItemsOK, ItemState
  <2>3. SalesforceOK
    BY DEF SalesforceOK
  <2>4. LocalOK
    BY DEF LocalOK, Point, State
  <2>5. QED
    BY <2>1, <2>2, <2>3, <2>4 DEF TypeOK
<1>2. KindInv /\ ScopeInv
  BY DEF KindInv, ScopeInv, MembersRun, CampaignRun, ContactRun, Retry, Listed,
         Item
<1>3. ClaimInv
  BY CrmAssumption
     DEF ClaimInv, Runs, Run, MembersRun, CampaignRun, ContactRun, Item
<1>4. SentInv
  BY DEF SentInv, BeforeStatus, BeforeLeads, BeforeMembers, BeforeCampaign,
         BeforeLead, BeforeNote, BeforeLink
<1>5. TruthInv
  <2>1. \A a \in Action, o \in Lead : item[<<a, o>>] = "none"
    BY DEF Item
  <2>2. \A g \in Handler : Truth(g)
    BY DEF Truth, Listed
  <2>3. QED
    BY <2>1, <2>2, CrmAssumption DEF TruthInv, ItemsTellTheTruth, OnIt, Failed
<1>6. WholeInv
  BY CrmAssumption
     DEF WholeInv, Whole, CompleteIsWhole, Runs, Run, MembersRun, CampaignRun,
         ContactRun
<1>7. QED
  BY <1>1, <1>2, <1>3, <1>4, <1>5, <1>6 DEF CrmInv

LEMMA NextInv ==
    ASSUME CrmInv, [Next]_vars
    PROVE  CrmInv'
<1> USE DEF CrmInv
<1>1. TypeOK'
  BY RowsStep, ItemsStep, SalesforceStep, LocalStep, HistoryStep DEF TypeOK
<1>2. KindInv' /\ ClaimInv'
  BY KindStep, ClaimStep
<1>3. SentInv' /\ ScopeInv'
  BY SentStep, ScopeStep
<1>4. TruthInv' /\ WholeInv'
  BY TruthStep, WholeStep
<1>5. QED
  BY <1>1, <1>2, <1>3, <1>4

\* The whole invariant: types, who is in which action, what was posted, what
\* each thread has in hand, what is on the campaign, and what an action that
\* one thread has to itself still owes its organizations.
THEOREM CrmCorrect == Spec => []CrmInv
<1>1. QED
  BY InitInv, NextInv, PTL DEF Spec

\* Each approved POST goes out at most once, whatever is clicked again,
\* reconciled, lost or crashed, and nothing goes out for an action that is
\* not claimed or that was cancelled (confirm_action, _begin_commit).
THEOREM ApprovedOnce == Spec => []OnlyWhatWasApproved
<1>1. CrmInv => OnlyWhatWasApproved
  BY DEF CrmInv, SentInv, OnlyWhatWasApproved
<1>2. QED
  BY <1>1, CrmCorrect, PTL

\* An item reported on the campaign is on it and a member this action made is
\* never called failed, however answers, readbacks and late reconciliations
\* interleave (execute_membership, reconcile_membership).
THEOREM ItemsAreTrue == Spec => []ItemsTellTheTruth
<1>1. CrmInv => ItemsTellTheTruth
  BY DEF CrmInv, TruthInv
<1>2. QED
  BY <1>1, CrmCorrect, PTL

\* A complete membership action has every organization on the campaign unless
\* two threads were in it at once (_finish_membership, reconcile_membership).
THEOREM CompleteActionsAreWhole == Spec => []CompleteIsWhole
<1>1. CrmInv => CompleteIsWhole
  BY DEF CrmInv, WholeInv
<1>2. QED
  BY <1>1, CrmCorrect, PTL

================================================================================
