----------------------------- MODULE ProactiveDay -----------------------------
(***************************************************************************)
(* What else Grant says in a channel: the daily list of fresh awards       *)
(* (slack/daily_list.py) and the Salesforce follow-up reminder             *)
(* (slack/salesforce_followups.py), which shares the channel's one         *)
(* proactive slot a day with the rich card (campaign/pacing.py).           *)
(*                                                                         *)
(* Cron starts runs without a lock; each read, reservation, Slack call and *)
(* record is a step of its own, and a run may die between any two.         *)
(***************************************************************************)
EXTENDS Integers, FiniteSets

CONSTANTS Lead,        \* verified, dated awards inside the ceiling
          Member,      \* campaign members that Grant added and verified
          Rank,        \* their order of committed_at
          Card,        \* the rich card as a holder of the slot
          Free,        \* no row for a day
          Worker,
          Limit,       \* DEFAULT_LIST_SIZE
          MaxDays,     \* BOUND
          MaxRuns,     \* BOUND
          MaxCrashes   \* BOUND

ASSUME DayAssumption ==
    /\ Rank \in [Member -> Nat]
    /\ \A m, n \in Member : Rank[m] = Rank[n] => m = n
    /\ {Card, Free} \cap Member = {} /\ Card # Free
    /\ Limit \in Nat \ {0}
    /\ MaxDays \in Nat \ {0} /\ {MaxRuns, MaxCrashes} \subseteq Nat

VARIABLES
    day,
    pool,      \* leads that no rep claims and no card has shown
    item,      \* of each lead: its daily_list_items row
    on,        \* its listed_on
    joined,    \* memberships whose grace is over
    touched,   \* members with activity in Salesforce
    row,       \* of each member: its salesforce_followup_state row
    checked,   \* the day of its checked_at
    slot,      \* proactive_daily_slots: the holder of each day
    shown,     \* history: lists each lead was in that reached Slack
    lists,     \* history: lists that reached Slack, by day
    reminded,  \* history: reminders about each member that reached Slack
    spoken,    \* history: cards and reminders that reached Slack, by day
    tried,     \* history: members a reminder was sent to Slack for
    overlap,   \* history: two runs were under way at once
    forced,    \* history: days on which a list was forced
    pc, batch, todo, cur, answer, card, runs, crashes

Day == 1..MaxDays
NoMember == Free

list == <<pool, item, on>>
crm == <<joined, touched, row, checked>>
said == <<shown, lists, reminded, spoken, tried>>
local == <<pc, batch, todo, cur, answer>>
vars == <<day, list, crm, slot, said, overlap, forced, local, card, runs,
          crashes>>

\* LIST_ITEM_STATES.
ItemState == {"none", "reserved", "delivered", "unknown"}

RowState == {"none", "activity_seen", "unknown", "sending", "delivered"}

Point == {"idle", "pick", "reserve", "list", "listed", "look", "inspect", "note",
          "used", "slot", "insert", "post", "posted"}

RowsOK ==
    /\ pool \subseteq Lead /\ item \in [Lead -> ItemState]
    /\ on \in [Lead -> 0..MaxDays]
    /\ joined \subseteq Member /\ touched \subseteq Member
    /\ row \in [Member -> RowState] /\ checked \in [Member -> 0..MaxDays]
    /\ slot \in [Day -> Member \cup {Card, Free}]

SaidOK ==
    /\ shown \in [Lead -> Nat] /\ lists \in [Day -> Nat]
    /\ reminded \in [Member -> Nat] /\ spoken \in [Day -> Nat]
    /\ tried \subseteq Member /\ overlap \in BOOLEAN /\ forced \subseteq Day

RunsOK ==
    /\ pc \in [Worker -> Point]
    /\ batch \in [Worker -> SUBSET Lead] /\ todo \in [Worker -> SUBSET Member]
    /\ cur \in [Worker -> Member \cup {NoMember}]
    /\ answer \in [Worker -> {"none", "ok", "refused", "lost", "activity"}]

TypeOK ==
    /\ day \in Day /\ RowsOK /\ SaidOK /\ RunsOK
    /\ card \in {"none", "held", "sent"}
    /\ runs \in 0..MaxRuns /\ crashes \in 0..MaxCrashes

Init ==
    /\ day = 1
    /\ pool = {} /\ item = [l \in Lead |-> "none"] /\ on = [l \in Lead |-> 0]
    /\ joined = {} /\ touched = {}
    /\ row = [m \in Member |-> "none"] /\ checked = [m \in Member |-> 0]
    /\ slot = [d \in Day |-> Free]
    /\ shown = [l \in Lead |-> 0] /\ lists = [d \in Day |-> 0]
    /\ reminded = [m \in Member |-> 0] /\ spoken = [d \in Day |-> 0]
    /\ tried = {} /\ overlap = FALSE /\ forced = {}
    /\ pc = [w \in Worker |-> "idle"]
    /\ batch = [w \in Worker |-> {}] /\ todo = [w \in Worker |-> {}]
    /\ cur = [w \in Worker |-> NoMember] /\ answer = [w \in Worker |-> "none"]
    /\ card = "none" /\ runs = 0 /\ crashes = 0

Quiescent == \A w \in Worker : pc[w] = "idle"

Goto(w, l) == pc' = [pc EXCEPT ![w] = l]

\* The run returns.
End(w) ==
    /\ Goto(w, "idle")
    /\ batch' = [batch EXCEPT ![w] = {}]
    /\ todo' = [todo EXCEPT ![w] = {}]
    /\ cur' = [cur EXCEPT ![w] = NoMember]
    /\ answer' = [answer EXCEPT ![w] = "none"]

Begin ==
    /\ runs < MaxRuns
    /\ runs' = runs + 1
    /\ overlap' = (overlap \/ ~Quiescent)

---------------------------------------------------------------------------
(***************************************************************************)
(* The daily list.                                                         *)
(***************************************************************************)
AlreadyListedToday == \E l \in Lead : item[l] # "none" /\ on[l] = day

\* Unseen, unclaimed and not shown on a card.
Candidates == {l \in pool : item[l] = "none"}

\* already_listed_today, which an operator may skip.
StartList(w) ==
    /\ pc[w] = "idle" /\ Begin
    /\ \E force \in BOOLEAN :
         /\ force \/ ~AlreadyListedToday
         /\ forced' = IF force THEN forced \cup {day} ELSE forced
    /\ Goto(w, "pick")
    /\ UNCHANGED <<day, list, crm, slot, said, batch, todo, cur, answer, card,
                   crashes>>

\* What one message can show is all that is reserved.
Fits(some) == Cardinality(some) <= Limit

\* The freshest come first: any nonempty part of the candidates that fits.
Pick(w) ==
    /\ pc[w] = "pick"
    /\ IF Candidates = {} THEN End(w)
       ELSE \E some \in (SUBSET Candidates) \ {{}} :
              /\ Fits(some)
              /\ batch' = [batch EXCEPT ![w] = some]
              /\ Goto(w, "reserve")
              /\ UNCHANGED <<todo, cur, answer>>
    /\ UNCHANGED <<day, list, crm, slot, said, overlap, forced, card, runs,
                   crashes>>

\* All rows or none: UNIQUE(channel, lead_id) makes the second run raise.
Reserve(w) ==
    /\ pc[w] = "reserve"
    /\ IF \E l \in batch[w] : item[l] # "none"
       THEN End(w) /\ UNCHANGED <<item, on>>
       ELSE /\ item' = [l \in Lead |-> IF l \in batch[w] THEN "reserved"
                                       ELSE item[l]]
            /\ on' = [l \in Lead |-> IF l \in batch[w] THEN day ELSE on[l]]
            /\ Goto(w, "list")
            /\ UNCHANGED <<batch, todo, cur, answer>>
    /\ UNCHANGED <<day, pool, crm, slot, said, overlap, forced, card, runs,
                   crashes>>

\* Slack takes the list and says so, refuses it, or nobody knows.
PostList(w) ==
    /\ pc[w] = "list"
    /\ \E a \in {"ok", "refused", "lost"}, arrives \in BOOLEAN :
         /\ a = "ok" => arrives
         /\ a = "refused" => ~arrives
         /\ answer' = [answer EXCEPT ![w] = a]
         /\ IF arrives
            THEN /\ shown' = [l \in Lead |-> IF l \in batch[w] THEN shown[l] + 1
                                             ELSE shown[l]]
                 /\ lists' = [lists EXCEPT ![day] = @ + 1]
            ELSE UNCHANGED <<shown, lists>>
    /\ Goto(w, "listed")
    /\ UNCHANGED <<day, list, crm, slot, reminded, spoken, tried, overlap, forced,
                   batch, todo, cur, card, runs, crashes>>

\* Mutant of Outcome: a list that may have arrived is released.
OutcomeReleased(a) == IF a = "ok" THEN "delivered" ELSE "none"

\* Only a refusal gives the leads back.
Outcome(a) == CASE a = "ok" -> "delivered"
                [] a = "refused" -> "none"
                [] a = "lost" -> "unknown"

\* Whatever the run still holds as reserved is released or marked.
Finish(w) ==
    /\ pc[w] = "listed"
    /\ item' = [l \in Lead |->
                  IF l \in batch[w] /\ item[l] = "reserved"
                  THEN Outcome(answer[w]) ELSE item[l]]
    /\ on' = [l \in Lead |-> IF item'[l] = "none" THEN 0 ELSE on[l]]
    /\ End(w)
    /\ UNCHANGED <<day, pool, crm, slot, said, overlap, forced, card, runs,
                   crashes>>

---------------------------------------------------------------------------
(***************************************************************************)
(* The follow-up reminder.                                                 *)
(***************************************************************************)
StartFollowups(w) ==
    /\ pc[w] = "idle" /\ Begin
    /\ joined # {}
    /\ todo' = [todo EXCEPT ![w] = joined]
    /\ Goto(w, "look")
    /\ UNCHANGED <<day, list, crm, slot, said, forced, batch, cur, answer, card,
                   crashes>>

\* The oldest membership that is left; one that has a row is passed over.
Look(w) ==
    /\ pc[w] = "look"
    /\ IF todo[w] = {} THEN End(w)
       ELSE \E m \in todo[w] :
              /\ \A n \in todo[w] : Rank[m] <= Rank[n]
              /\ todo' = [todo EXCEPT ![w] = @ \ {m}]
              /\ IF row[m] # "none" THEN UNCHANGED <<pc, cur>>
                 ELSE Goto(w, "inspect") /\ cur' = [cur EXCEPT ![w] = m]
              /\ UNCHANGED <<batch, answer>>
    /\ UNCHANGED <<day, list, crm, slot, said, overlap, forced, card, runs,
                   crashes>>

\* Member, target, tasks and events; any failure is "unknown".
InspectActivity(w) ==
    LET m == cur[w] IN
    /\ pc[w] = "inspect"
    /\ \/ /\ m \in touched
          /\ answer' = [answer EXCEPT ![w] = "activity"] /\ Goto(w, "note")
       \/ answer' = [answer EXCEPT ![w] = "lost"] /\ Goto(w, "note")
       \/ m \notin touched /\ Goto(w, "used") /\ UNCHANGED answer
    /\ UNCHANGED <<day, list, crm, slot, said, overlap, forced, batch, todo, cur,
                   card, runs, crashes>>

\* INSERT OR IGNORE: the member is settled, also when nothing could be read.
Note(w) ==
    LET m == cur[w] IN
    /\ pc[w] = "note"
    /\ IF row[m] # "none" THEN UNCHANGED <<row, checked>>
       ELSE /\ row' = [row EXCEPT ![m] = IF answer[w] = "activity"
                                         THEN "activity_seen" ELSE "unknown"]
            /\ checked' = [checked EXCEPT ![m] = day]
    /\ Goto(w, "look")
    /\ cur' = [cur EXCEPT ![w] = NoMember]
    /\ answer' = [answer EXCEPT ![w] = "none"]
    /\ UNCHANGED <<day, list, joined, touched, slot, said, overlap, forced, batch,
                   todo, card, runs, crashes>>

\* Reminders and posts of today.  A member that could not be read counts too.
UsedSlots ==
    Cardinality({m \in Member : row[m] \in {"sending", "delivered", "unknown"}
                                /\ checked[m] = day})
    + (IF card # "none" THEN 1 ELSE 0)

CheckUsed(w) ==
    /\ pc[w] = "used"
    /\ \/ End(w)                        \* outside business hours, or used
       \/ /\ UsedSlots = 0
          /\ Goto(w, "slot") /\ UNCHANGED <<batch, todo, cur, answer>>
    /\ UNCHANGED <<day, list, crm, slot, said, overlap, forced, card, runs,
                   crashes>>

\* Mutant of SlotIsFree: the card's row does not keep a reminder out.
SlotIsFreeOrMine(k) == slot[day] \in {Free, Card, k}

\* One row a day, and one row a key: a row that a crash has left behind keeps
\* its member out for ever.
SlotIsFree(k) == slot[day] = Free /\ \A d \in Day : slot[d] # k

ReserveSlot(w) ==
    /\ pc[w] = "slot"
    /\ IF SlotIsFree(cur[w])
       THEN /\ slot' = [slot EXCEPT ![day] = cur[w]]
            /\ Goto(w, "insert") /\ UNCHANGED <<batch, todo, cur, answer>>
       ELSE End(w) /\ UNCHANGED slot
    /\ UNCHANGED <<day, list, crm, said, overlap, forced, card, runs, crashes>>

\* Mutant of ReleaseSlot: the loser of the insert keeps the day.
KeepSlot(m) == slot' = slot

ReleaseSlot(m) == slot' = [d \in Day |-> IF slot[d] = m THEN Free ELSE slot[d]]

\* The row that makes the reminder unique; the loser gives the slot back.
Insert(w) ==
    LET m == cur[w] IN
    /\ pc[w] = "insert"
    /\ IF row[m] # "none"
       THEN /\ ReleaseSlot(m)
            /\ Goto(w, "look")
            /\ cur' = [cur EXCEPT ![w] = NoMember]
            /\ UNCHANGED <<row, checked>>
       ELSE /\ row' = [row EXCEPT ![m] = "sending"]
            /\ checked' = [checked EXCEPT ![m] = day]
            /\ Goto(w, "post")
            /\ UNCHANGED <<slot, cur>>
    /\ UNCHANGED <<day, list, joined, touched, said, overlap, forced, batch, todo,
                   answer, card, runs, crashes>>

\* The identity of the bot, the message and its conversation thread: whatever
\* fails, the message may have arrived.
Post(w) ==
    LET m == cur[w] IN
    /\ pc[w] = "post"
    /\ \E a \in {"ok", "lost"}, arrives \in {0, 1} :
         /\ a = "ok" => arrives = 1
         /\ answer' = [answer EXCEPT ![w] = a]
         /\ reminded' = [reminded EXCEPT ![m] = @ + arrives]
         /\ spoken' = [spoken EXCEPT ![day] = @ + arrives]
    /\ tried' = tried \cup {m}
    /\ Goto(w, "posted")
    /\ UNCHANGED <<day, list, crm, slot, shown, lists, overlap, forced, batch,
                   todo, cur, card, runs, crashes>>

Record(w) ==
    LET m == cur[w] IN
    /\ pc[w] = "posted"
    /\ row' = [row EXCEPT ![m] = IF answer[w] = "ok" THEN "delivered" ELSE "unknown"]
    /\ checked' = [checked EXCEPT ![m] = day]
    /\ End(w)
    /\ UNCHANGED <<day, list, joined, touched, slot, said, overlap, forced, card,
                   runs, crashes>>

---------------------------------------------------------------------------
(***************************************************************************)
(* The rich card, people, time and crashes.                                *)
(***************************************************************************)
\* CardDelivery's reservation of the same row.
CardReserves ==
    /\ card = "none" /\ slot[day] = Free
    /\ slot' = [slot EXCEPT ![day] = Card]
    /\ card' = "held"
    /\ UNCHANGED <<day, list, crm, said, overlap, forced, local, runs, crashes>>

\* It is sent, or refused and the day given back.
CardSends ==
    /\ card = "held"
    /\ \/ /\ card' = "sent"
          /\ spoken' = [spoken EXCEPT ![day] = @ + 1]
          /\ UNCHANGED slot
       \/ /\ card' = "none"
          /\ slot' = [slot EXCEPT ![day] = Free]
          /\ UNCHANGED spoken
    /\ UNCHANGED <<day, list, crm, shown, lists, reminded, tried, overlap, forced,
                   local, runs, crashes>>

Rest == UNCHANGED <<item, on, row, checked, slot, said, overlap, forced, local,
                    runs, crashes>>

Turn ==
    /\ day < MaxDays /\ Quiescent /\ card # "held"
    /\ day' = day + 1 /\ card' = "none"
    /\ UNCHANGED <<pool, joined, touched>> /\ Rest

\* An award becomes verified and fresh, or a rep releases it.
Offers(l) ==
    /\ l \notin pool /\ Quiescent /\ runs < MaxRuns
    /\ pool' = pool \cup {l}
    /\ UNCHANGED <<day, joined, touched, card>> /\ Rest

\* A rep claims it, or a card shows it.
Withdraws(l) ==
    /\ l \in pool /\ item[l] = "none" /\ \E w \in Worker : pc[w] = "pick"
    /\ pool' = pool \ {l}
    /\ UNCHANGED <<day, joined, touched, card>> /\ Rest

\* Three business days after a completed campaign action.
ComesDue(m) ==
    /\ m \notin joined /\ Quiescent /\ runs < MaxRuns
    /\ joined' = joined \cup {m}
    /\ UNCHANGED <<day, pool, touched, card>> /\ Rest

Touches(m) ==
    /\ m \in joined \ touched /\ row[m] = "none" /\ Quiescent
    /\ touched' = touched \cup {m}
    /\ UNCHANGED <<day, pool, joined, card>> /\ Rest

Crash(w) ==
    /\ crashes < MaxCrashes /\ pc[w] # "idle"
    /\ End(w)
    /\ crashes' = crashes + 1
    /\ UNCHANGED <<day, list, crm, slot, said, overlap, forced, card, runs>>

RunStep(w) ==
    \/ StartList(w) \/ Pick(w) \/ Reserve(w) \/ PostList(w) \/ Finish(w)
    \/ StartFollowups(w) \/ Look(w) \/ InspectActivity(w) \/ Note(w)
    \/ CheckUsed(w) \/ ReserveSlot(w) \/ Insert(w) \/ Post(w) \/ Record(w)
    \/ Crash(w)

Next ==
    \/ \E w \in Worker : RunStep(w)
    \/ CardReserves \/ CardSends \/ Turn
    \/ \E l \in Lead : Offers(l) \/ Withdraws(l)
    \/ \E m \in Member : ComesDue(m) \/ Touches(m)

Spec == Init /\ [][Next]_vars

---------------------------------------------------------------------------
\* Whatever overlaps, crashes or is lost, a lead is in at most one list that
\* reached the channel, and a member is mentioned at most once.
NothingTwice ==
    TypeOK /\ (\A l \in Lead : shown[l] <= 1) /\ (\A m \in Member : reminded[m] <= 1)

\* The channel hears one rich card or one reminder a day, also when runs
\* overlap; and, while none do and nobody forces one, one list.
OneADay ==
    /\ \A d \in Day : spoken[d] <= 1
    /\ overlap \/ \A d \in Day \ forced : lists[d] <= 1

\* Unless a run has died, a day is held only by the card, by a reminder that
\* went to Slack, or by a run that is about to send one.
SlotsAreUsed ==
    crashes > 0 \/ \A d \in Day : slot[d] \in Member =>
        \/ slot[d] \in tried
        \/ \E w \in Worker : cur[w] = slot[d] /\ pc[w] \in {"insert", "post"}
================================================================================
