------------------------------ MODULE CardDelivery ------------------------------
(***************************************************************************)
(* The proactive card of one channel (cli.cmd_drip, campaign/delivery.py,  *)
(* campaign/pacing.py, slack/drip.py, db_delivery.py, db_engagement.py).   *)
(*                                                                         *)
(* A cron tick first tries the rich award card and, when that provably     *)
(* cannot post, hands the tick to the legacy daily card.  Both reserve a   *)
(* notification_outbox row before they call Slack; the rich card also      *)
(* claims the one proactive_daily_slots row of the day.  Slack lands the   *)
(* message or not, answers or not, and what is known of the outcome        *)
(* decides whether the lead is released or set aside.  Ticks carry no      *)
(* flock, so two may overlap; a tick may die anywhere, by a crash or by an *)
(* exception no handler catches.                                           *)
(*                                                                         *)
(* Time is what the code tells apart: the phase of the Pacific day, and    *)
(* whether a row was stamped today or on a past day.  A tick is taken to   *)
(* be short against those: the phase moves on between ticks.  Whether      *)
(* MIN_GAP_MINUTES have passed since the last row is left open.            *)
(***************************************************************************)
EXTENDS Integers, FiniteSets

CONSTANTS Tick,          \* processes that may run cmd_drip
          Lead,
          NoLead,
          Exceptional,   \* leads urgent enough for the second slot
          RichEnabled,   \* rich_card_enabled()
          DailyCap,      \* drip.DAILY_CAP
          AbsoluteCap,   \* drip.ABSOLUTE_CAP
          MaxRejections, \* drip.MAX_REJECTIONS_PER_DAY
          Forcing,       \* BOUND: values of --force explored
          MaxCrashes     \* BOUND: ticks that die

ASSUME DeliveryAssumption ==
    /\ NoLead \notin Lead
    /\ Exceptional \subseteq Lead
    /\ RichEnabled \in BOOLEAN
    /\ IsFiniteSet(Lead)
    /\ DailyCap \in Nat \ {0} /\ AbsoluteCap \in Nat /\ DailyCap < AbsoluteCap
    /\ Forcing \subseteq BOOLEAN
    /\ MaxRejections \in Nat /\ MaxCrashes \in Nat

\* Delivery keys: a rich card is keyed by its award, a legacy one by the
\* lead and its event.
Key == Lead \X {"award", "event"}

VARIABLES
    \* the database
    outbox,    \* notification_outbox: Key -> state and age of the row
    posts,     \* keys with a posts row; as old as their outbox row
    slot,      \* today's proactive_daily_slots row: the lead it is keyed by
    oldSlots,  \* leads whose award keys a row of a past day
    hold,      \* an unexpired channel guard, blocked or backoff
    taken,     \* leads whose status left 'new' or that a rep has claimed
    \* the clock
    phase,     \* before the slots open or out of hours, band while they open,
               \* late after the rich cutoff
    \* each tick
    pc, lead, kind, forced,
    \* history
    landed,    \* how often a key's message reached the channel
    today,     \* keys that did so today
    crashes

db == <<outbox, posts, slot, oldSlots, hold, taken>>
tick == <<pc, lead, kind, forced>>
hist == <<landed, today, crashes>>
vars == <<db, phase, tick, hist>>

RowStates == {"none", "sending", "delivered", "unknown", "rejected", "unrenderable"}
NoRow == [state |-> "none", age |-> "past"]
Row(s) == [state |-> s, age |-> "today"]

Points == {"idle", "gate", "review", "freeze", "slot", "reserve", "legacy",
           "pace", "claim", "call", "refused", "landed", "posted", "finished"}

\* Every value stays in its domain, and a tick past its choice has a lead.
TypeOK ==
    /\ outbox \in [Key -> [state : RowStates, age : {"today", "past"}]]
    /\ posts \subseteq Key /\ today \subseteq Key
    /\ slot \in Lead \cup {NoLead} /\ oldSlots \subseteq Lead
    /\ hold \in BOOLEAN
    /\ taken \subseteq Lead
    /\ phase \in {"closed", "band", "late"}
    /\ pc \in [Tick -> Points]
    /\ lead \in [Tick -> Lead \cup {NoLead}]
    /\ kind \in [Tick -> {"award", "event"}]
    /\ forced \in [Tick -> BOOLEAN]
    /\ \A t \in Tick :
          pc[t] \in {"freeze", "slot", "reserve", "pace", "claim", "call",
                     "refused", "landed", "posted", "finished"} => lead[t] \in Lead
    /\ landed \in [Key -> Nat]
    /\ crashes \in 0..MaxCrashes

Init ==
    /\ outbox = [k \in Key |-> NoRow]
    /\ posts = {} /\ slot = NoLead /\ oldSlots = {} /\ hold = FALSE
    /\ taken = {}
    /\ phase = "closed"
    /\ pc = [t \in Tick |-> "idle"]
    /\ lead = [t \in Tick |-> NoLead]
    /\ kind = [t \in Tick |-> "event"]
    /\ forced = [t \in Tick |-> FALSE]
    /\ landed = [k \in Key |-> 0] /\ today = {}
    /\ crashes = 0

---------------------------------------------------------------------------
(***************************************************************************)
(* What the gates read.                                                    *)
(***************************************************************************)
Today(k) == outbox[k].age = "today"

posts_today == {k \in posts : Today(k)}

\* Mutant of delivery_attempts_today: an unknown outcome does not count.
confirmed_attempts_today ==
    {k \in Key : Today(k) /\ outbox[k].state = "delivered"}

\* Reservations that may have reached Slack.
delivery_attempts_today ==
    {k \in Key : Today(k)
        /\ outbox[k].state \notin {"none", "unrenderable", "rejected"}}

rejections_today == {k \in Key : Today(k) /\ outbox[k].state = "rejected"}

Larger(m, n) == IF m > n THEN m ELSE n

Count == Larger(Cardinality(posts_today), Cardinality(delivery_attempts_today))

\* Mutant of Fresh: only a posts row rules a lead out.
FreshByPosts(l) ==
    l \notin taken /\ \A k \in Key : k[1] = l => k \notin posts

\* The exclusions every candidate query shares.
Fresh(l) ==
    /\ l \notin taken
    /\ \A k \in Key : k[1] = l => k \notin posts /\ outbox[k].state = "none"

Mine(t) == <<lead[t], kind[t]>>

Goto(t, p) == pc' = [pc EXCEPT ![t] = p]

End(t) ==
    /\ Goto(t, "idle")
    /\ lead' = [lead EXCEPT ![t] = NoLead]
    /\ kind' = [kind EXCEPT ![t] = "event"]
    /\ forced' = [forced EXCEPT ![t] = FALSE]

\* Hand the tick to the legacy card (fallback_to_daily).
Fallback(t) ==
    /\ Goto(t, "legacy")
    /\ lead' = [lead EXCEPT ![t] = NoLead]
    /\ kind' = [kind EXCEPT ![t] = "event"]
    /\ UNCHANGED forced

Choose(t, l, k, p) ==
    /\ lead' = [lead EXCEPT ![t] = l]
    /\ kind' = [kind EXCEPT ![t] = k]
    /\ Goto(t, p)
    /\ UNCHANGED forced

---------------------------------------------------------------------------
(***************************************************************************)
(* cmd_drip: cron starts it in business hours, an operator with --force at *)
(* any time.                                                               *)
(***************************************************************************)
Start(t, f) ==
    /\ pc[t] = "idle"
    /\ f \/ phase # "closed"
    /\ forced' = [forced EXCEPT ![t] = f]
    /\ Goto(t, IF RichEnabled THEN "gate" ELSE "legacy")
    /\ UNCHANGED <<db, phase, lead, kind, hist>>

(***************************************************************************)
(* The rich card: the guard, then pacing.should_post.  The day's slot      *)
(* falls somewhere inside the band.                                        *)
(***************************************************************************)
RichCapped == Count >= 1 \/ slot # NoLead

RichGateHolds(t) ==
    /\ pc[t] = "gate"
    /\ \/ hold
       \/ RichCapped
       \/ ~forced[t] /\ phase \in {"closed", "band"}
    /\ End(t)
    /\ UNCHANGED <<db, phase, hist>>

RichGateMissed(t) ==
    /\ pc[t] = "gate"
    /\ ~hold /\ ~RichCapped
    /\ ~forced[t] /\ phase = "late"
    /\ Fallback(t)
    /\ UNCHANGED <<db, phase, hist>>

RichGateOpens(t) ==
    /\ pc[t] = "gate"
    /\ ~hold /\ ~RichCapped
    /\ forced[t] \/ phase = "band"
    /\ Goto(t, "review")
    /\ UNCHANGED <<db, phase, lead, kind, forced, hist>>

\* review_candidates and _pick: which leads pass every evidence rule, and how
\* they rank, is left open.
Review(t) ==
    /\ pc[t] = "review"
    /\ \/ \E l \in Lead : Fresh(l) /\ Choose(t, l, "award", "freeze")
       \/ Fallback(t)
    /\ UNCHANGED <<db, phase, hist>>

\* _delivery_veto: the lead was taken or its evidence changed meanwhile; or
\* this snapshot was delivered before.  A row frozen from other evidence of
\* the same award passes.
Vetoed(t) ==
    /\ pc[t] = "freeze"
    /\ Fallback(t)
    /\ UNCHANGED <<db, phase, hist>>

NotVetoed(t) ==
    /\ pc[t] = "freeze"
    /\ lead[t] \notin taken

Freeze(t) ==
    /\ NotVetoed(t)
    /\ Goto(t, "slot")
    /\ UNCHANGED <<db, phase, lead, kind, forced, hist>>

\* Mutant of Quarantine: ON CONFLICT replaces the row.
QuarantineOverwrites(t) ==
    outbox' = [outbox EXCEPT ![Mine(t)] = Row("unrenderable")]

\* The row a failed render leaves behind, if the key is still free.
Quarantine(t) ==
    outbox' = [outbox EXCEPT ![Mine(t)] =
                  IF @.state = "none" THEN Row("unrenderable") ELSE @]

RenderFails(t) ==
    /\ NotVetoed(t)
    /\ Quarantine(t)
    /\ End(t)
    /\ UNCHANGED <<posts, slot, oldSlots, hold, taken,
                   phase, hist>>

\* reserve_notification and finish_notification are two commits; the tick
\* dies between them.
RenderFailsAndDies(t) ==
    /\ NotVetoed(t)
    /\ outbox[Mine(t)].state = "none"
    /\ outbox' = [outbox EXCEPT ![Mine(t)] = Row("sending")]
    /\ crashes < MaxCrashes /\ crashes' = crashes + 1
    /\ End(t)
    /\ UNCHANGED <<posts, slot, oldSlots, hold, taken, phase, landed, today>>

(***************************************************************************)
(* reserve_daily_slot: INSERT OR IGNORE against two keys, the day and the  *)
(* delivery.                                                               *)
(***************************************************************************)
SlotFree(l) == slot = NoLead /\ l \notin oldSlots

ReserveSlot(t) ==
    /\ pc[t] = "slot" /\ SlotFree(lead[t])
    /\ slot' = lead[t]
    /\ Goto(t, "reserve")
    /\ UNCHANGED <<outbox, posts, oldSlots, hold, taken,
                   phase, lead, kind, forced, hist>>

SlotRefused(t) ==
    /\ pc[t] = "slot" /\ ~SlotFree(lead[t])
    /\ End(t)
    /\ UNCHANGED <<db, phase, hist>>

\* release_daily_slot deletes by delivery key, whatever the day.
ReleaseSlot(l) ==
    /\ slot' = IF slot = l THEN NoLead ELSE slot
    /\ oldSlots' = oldSlots \ {l}

\* reserve_notification of the rich card.
Reserve(t) ==
    /\ pc[t] = "reserve" /\ outbox[Mine(t)].state = "none"
    /\ outbox' = [outbox EXCEPT ![Mine(t)] = Row("sending")]
    /\ Goto(t, "call")
    /\ UNCHANGED <<posts, slot, oldSlots, hold, taken, phase,
                   lead, kind, forced, hist>>

AlreadyReserved(t) ==
    /\ pc[t] = "reserve" /\ outbox[Mine(t)].state # "none"
    /\ ReleaseSlot(lead[t])
    /\ Fallback(t)
    /\ UNCHANGED <<outbox, posts, hold, taken, phase, hist>>

---------------------------------------------------------------------------
(***************************************************************************)
(* run_drip, the legacy card: the guard, pick, and only then the pace.     *)
(***************************************************************************)
Pick(t) ==
    /\ pc[t] = "legacy"
    /\ \/ forced[t] \/ ~hold
    /\ \E l \in Lead : Fresh(l) /\ Choose(t, l, "event", "pace")
    /\ UNCHANGED <<db, phase, hist>>

NothingToPick(t) ==
    /\ pc[t] = "legacy"
    /\ \/ hold /\ ~forced[t]
       \/ ~(\E l \in Lead : Fresh(l))
    /\ End(t)
    /\ UNCHANGED <<db, phase, hist>>

\* pacing_ok's budget.
InBudget(urgent) ==
    /\ Cardinality(rejections_today) < MaxRejections
    /\ Count < AbsoluteCap
    /\ Count >= DailyCap =>
          urgent /\ \A k \in posts_today : k[2] = "event" => k[1] \notin Exceptional

\* Its clock: the daily slot is somewhere in the band, an urgent card only
\* waits for the band to open; a second card also waits for the gap.
MayBeTime(t) == forced[t] \/ phase \in {"band", "late"}
MayBeEarly(t) ==
    \/ posts_today \cup delivery_attempts_today # {}
    \/ /\ ~forced[t]
       /\ phase = "closed" \/ (phase = "band" /\ lead[t] \notin Exceptional)

Paced(t) ==
    /\ pc[t] = "pace"
    /\ InBudget(lead[t] \in Exceptional) /\ MayBeTime(t)
    /\ Goto(t, "claim")
    /\ UNCHANGED <<db, phase, lead, kind, forced, hist>>

HeldBack(t) ==
    /\ pc[t] = "pace"
    /\ ~InBudget(lead[t] \in Exceptional) \/ MayBeEarly(t)
    /\ End(t)
    /\ UNCHANGED <<db, phase, hist>>

\* Mutant of BuildFails: the lead is not set aside.
BuildFailsQuietly(t) ==
    /\ pc[t] = "claim"
    /\ End(t)
    /\ UNCHANGED <<db, phase, hist>>

\* A builder raised ValueError: quarantine_lead.
BuildFails(t) ==
    /\ pc[t] = "claim"
    /\ Quarantine(t)
    /\ End(t)
    /\ UNCHANGED <<posts, slot, oldSlots, hold, taken,
                   phase, hist>>

\* reserve_notification of the legacy card.
Claim(t) ==
    /\ pc[t] = "claim"
    /\ \/ /\ outbox[Mine(t)].state = "none"
          /\ outbox' = [outbox EXCEPT ![Mine(t)] = Row("sending")]
          /\ Goto(t, "call")
          /\ UNCHANGED <<lead, kind, forced>>
       \/ /\ outbox[Mine(t)].state # "none"
          /\ End(t)
          /\ UNCHANGED outbox
    /\ UNCHANGED <<posts, slot, oldSlots, hold, taken, phase,
                   hist>>

---------------------------------------------------------------------------
(***************************************************************************)
(* chat_postMessage.                                                       *)
(***************************************************************************)
Lands(t) ==
    /\ pc[t] = "call"
    /\ landed' = [landed EXCEPT ![Mine(t)] = @ + 1]
    /\ today' = today \cup {Mine(t)}
    /\ Goto(t, "landed")
    /\ UNCHANGED <<db, phase, lead, kind, forced, crashes>>

\* release_notification.
ReleaseRow(t) == outbox' = [outbox EXCEPT ![Mine(t)] = NoRow]

\* A refusal that is not this card's fault: 429, a systemic code, or a code
\* nobody knows.  The row is released first, then a rich card's slot; the
\* known codes also hold the channel.
Refused(t) ==
    /\ pc[t] = "call"
    /\ ReleaseRow(t)
    /\ Goto(t, "refused")
    /\ UNCHANGED <<posts, slot, oldSlots, hold, taken, phase,
                   lead, kind, forced, hist>>

SettleRefusal(t, guard) ==
    /\ pc[t] = "refused"
    /\ IF kind[t] = "award" THEN ReleaseSlot(lead[t])
                            ELSE UNCHANGED <<slot, oldSlots>>
    /\ hold' = (hold \/ guard)
    /\ End(t)
    /\ UNCHANGED <<outbox, posts, taken, phase, hist>>

\* finish_notification: unconditional on the row's state.
Finish(t, s) == outbox' = [outbox EXCEPT ![Mine(t)].state = s]

\* Slack refused this very card; its slot is kept.
Rejected(t) ==
    /\ pc[t] = "call"
    /\ Finish(t, "rejected")
    /\ End(t)
    /\ UNCHANGED <<posts, slot, oldSlots, hold, taken,
                   phase, hist>>

\* Mutant of Ambiguous: no answer is treated as not sent.
AmbiguousReleases(t) ==
    /\ pc[t] \in {"call", "landed"}
    /\ ReleaseRow(t)
    /\ End(t)
    /\ UNCHANGED <<posts, slot, oldSlots, hold, taken, phase, hist>>

\* A 5xx, a timeout, no client: it may have landed or not.
Ambiguous(t) ==
    /\ pc[t] \in {"call", "landed"}
    /\ Finish(t, "unknown")
    /\ End(t)
    /\ UNCHANGED <<posts, slot, oldSlots, hold, taken,
                   phase, hist>>

(***************************************************************************)
(* The bookkeeping after a confirmed send: three commits.                  *)
(***************************************************************************)
RecordPost(t) ==
    /\ pc[t] = "landed"
    /\ posts' = posts \cup {Mine(t)}
    /\ Goto(t, "posted")
    /\ UNCHANGED <<outbox, slot, oldSlots, hold, taken, phase,
                   lead, kind, forced, hist>>

FinishDelivered(t) ==
    /\ pc[t] = "posted"
    /\ Finish(t, "delivered")
    /\ Goto(t, "finished")
    /\ UNCHANGED <<posts, slot, oldSlots, hold, taken, phase,
                   lead, kind, forced, hist>>

\* mark_surfaced; only the legacy card retires the guards.
MarkSurfaced(t) ==
    /\ pc[t] = "finished"
    /\ taken' = taken \cup {lead[t]}
    /\ hold' = (hold /\ kind[t] # "event")
    /\ End(t)
    /\ UNCHANGED <<outbox, posts, slot, oldSlots, phase, hist>>

\* Mutant of BookkeepingFails: the reservation is rolled back.
BookkeepingReleases(t) ==
    /\ pc[t] \in {"landed", "posted", "finished"}
    /\ ReleaseRow(t)
    /\ End(t)
    /\ UNCHANGED <<posts, slot, oldSlots, hold, taken, phase, hist>>

\* A write failed: finish as delivered if that much still works (the legacy
\* card marks the lead surfaced too), and never repeat.
BookkeepingFails(t) ==
    /\ pc[t] \in {"landed", "posted", "finished"}
    /\ \/ /\ Finish(t, "delivered")
          /\ taken' = IF kind[t] = "event" THEN taken \cup {lead[t]} ELSE taken
       \/ UNCHANGED <<outbox, taken>>
    /\ End(t)
    /\ UNCHANGED <<posts, slot, oldSlots, hold, phase, hist>>

Crash(t) ==
    /\ pc[t] # "idle" /\ crashes < MaxCrashes
    /\ crashes' = crashes + 1
    /\ End(t)
    /\ UNCHANGED <<db, phase, landed, today>>

---------------------------------------------------------------------------
(***************************************************************************)
(* The rest of the world.                                                  *)
(***************************************************************************)
RepClaims(l) ==    \* nothing here looks at a claim of a lead with a row
    /\ Fresh(l)
    /\ taken' = taken \cup {l}
    /\ UNCHANGED <<outbox, posts, slot, oldSlots, hold, phase,
                   tick, hist>>

\* available_at passes, or an operator runs drip-unblock.
HoldExpires ==
    /\ hold /\ hold' = FALSE
    /\ UNCHANGED <<outbox, posts, slot, oldSlots, taken,
                   phase, tick, hist>>

AllIdle == \A t \in Tick : pc[t] = "idle"

NextPhase ==
    /\ AllIdle
    /\ \/ phase = "closed" /\ phase' = "band"
       \/ phase = "band" /\ phase' = "late"
    /\ UNCHANGED <<db, tick, hist>>

Midnight ==
    /\ AllIdle
    /\ phase = "late" /\ phase' = "closed"
    /\ outbox' = [k \in Key |-> [outbox[k] EXCEPT !.age = "past"]]
    /\ slot' = NoLead
    /\ oldSlots' = IF slot = NoLead THEN oldSlots ELSE oldSlots \cup {slot}
    /\ today' = {}
    /\ UNCHANGED <<posts, hold, taken, tick, landed, crashes>>

RichStep(t) ==
    \/ RichGateHolds(t) \/ RichGateMissed(t) \/ RichGateOpens(t)
    \/ Review(t) \/ Vetoed(t) \/ Freeze(t) \/ RenderFails(t)
    \/ ReserveSlot(t) \/ SlotRefused(t) \/ Reserve(t) \/ AlreadyReserved(t)

LegacyStep(t) ==
    \/ Pick(t) \/ NothingToPick(t) \/ Paced(t) \/ HeldBack(t)
    \/ BuildFails(t) \/ Claim(t)

SlackStep(t) ==
    \/ Lands(t)
    \/ Refused(t) \/ \E guard \in BOOLEAN : SettleRefusal(t, guard)
    \/ Rejected(t) \/ Ambiguous(t)
    \/ RecordPost(t) \/ FinishDelivered(t) \/ MarkSurfaced(t)
    \/ BookkeepingFails(t)

Step(t) == RichStep(t) \/ LegacyStep(t) \/ SlackStep(t)

Environment ==
    \/ \E l \in Lead : RepClaims(l)
    \/ HoldExpires \/ NextPhase \/ Midnight

Next ==
    \/ \E t \in Tick : (\E f \in Forcing : Start(t, f)) \/ Step(t)
                        \/ Crash(t) \/ RenderFailsAndDies(t)
    \/ Environment

Spec == Init /\ [][Next]_vars

(***************************************************************************)
(* Cron goes on starting ticks while the late phase lasts, a started tick  *)
(* goes on, holds expire, the day goes on, and Slack now and then accepts  *)
(* a card.                                                                 *)
(***************************************************************************)
LiveSpec ==
    /\ Spec
    /\ \A t \in Tick :
          /\ WF_vars(Step(t))
          /\ SF_vars(phase = "late" /\ Start(t, FALSE))
          /\ SF_vars(Lands(t))
    /\ WF_vars(HoldExpires) /\ SF_vars(NextPhase \/ Midnight)

---------------------------------------------------------------------------
(***************************************************************************)
(* Reserve before Slack: whatever is released, refused, lost or crashed,   *)
(* and however ticks overlap, one delivery key reaches the channel at most *)
(* once (reserve_notification, _ambiguous), and one rich card a day at most *)
(* (reserve_daily_slot).                                                   *)
(***************************************************************************)
AtMostOncePerKey ==
    /\ TypeOK
    /\ \A k \in Key : landed[k] <= 1
    /\ Cardinality({k \in today : k[2] = "award"}) <= 1

(***************************************************************************)
(* db_delivery.py's core invariant: a message that landed has an outbox    *)
(* row that counts as a possible delivery, whether or not posts has one.   *)
(***************************************************************************)
LandedIsRemembered ==
    \A k \in Key : landed[k] > 0 =>
        outbox[k].state \in {"sending", "unknown", "delivered"}

(***************************************************************************)
(* A row with an outcome keeps it: an ambiguous send is never re-opened, a *)
(* refused card never turns up as delivered (finish_notification does not  *)
(* look at the state it overwrites).                                       *)
(***************************************************************************)
OutcomeStays ==
    [][\A k \in Key : outbox[k].state \notin {"none", "sending"} =>
          outbox'[k].state = outbox[k].state]_vars

(***************************************************************************)
(* pacing.py: existing posts and reservations share one cap, so no path    *)
(* can bypass it; only an exceptional card may come on top of the day's.   *)
(***************************************************************************)
DailyBudget ==
    /\ Cardinality(today) <= AbsoluteCap
    /\ Cardinality(today) > DailyCap =>
          \E k \in today : k[2] = "event" /\ k[1] \in Exceptional

(***************************************************************************)
(* A lead is shown once, although the rich and the legacy card reserve it  *)
(* under different keys (the candidate queries exclude by lead).           *)
(***************************************************************************)
NoLeadTwice ==
    \A l \in Lead : landed[<<l, "award">>] + landed[<<l, "event">>] <= 1

(***************************************************************************)
(* No outcome wedges the queue: every lead ends up shown, set aside or     *)
(* taken by a rep (nugget_candidates, quarantine_lead, the guards).        *)
(***************************************************************************)
EveryLeadSettles == \A l \in Lead : <>[]~Fresh(l)

================================================================================
