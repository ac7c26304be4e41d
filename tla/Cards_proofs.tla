------------------------------ MODULE Cards_proofs ------------------------------
(***************************************************************************)
(* Theorems about cards: their delivery, for any number of overlapping     *)
(* ticks, leads and crashes and for any caps; and the evidence they are    *)
(* prepared from, for any number of runs, leads and days and for any       *)
(* windows of the policy.                                                  *)
(***************************************************************************)
EXTENDS CardDelivery, RichPreparation, FiniteSetTheorems,
        WellFoundedInduction, SequenceTheorems, TLAPS

---------------------------------------------------------------------------
(***************************************************************************)
(* The inductive invariants.                                               *)
(***************************************************************************)
\* A tick that reserved its row and has not let go of it.
Holder(t) == pc[t] \in {"call", "landed", "posted", "finished"}

\* A rich tick between its slot and the end of its delivery.
HasSlot(t) ==
    kind[t] = "award" /\ (Holder(t) \/ pc[t] \in {"reserve", "refused"})

\* The row of a tick in flight says so, and no other tick has that row.
RowsOwned ==
    /\ \A t \in Tick : pc[t] \in {"call", "landed", "posted"} =>
          outbox[Mine(t)].state = "sending"
    /\ \A t \in Tick : pc[t] = "finished" =>
          outbox[Mine(t)].state = "delivered"
    /\ \A t, u \in Tick : Holder(t) /\ Holder(u) /\ t # u => Mine(t) # Mine(u)

\* Nothing lands without a row, nor twice.
LandingsSound ==
    /\ \A t \in Tick : pc[t] = "call" => landed[Mine(t)] = 0
    /\ \A k \in Key : landed[k] <= 1
    /\ \A k \in today : landed[k] > 0

RowInv == RowsOwned /\ LandingsSound /\ LandedIsRemembered

\* The day's slot has one holder, and is kept for the award that landed.
SlotInv ==
    /\ \A t \in Tick :
          /\ pc[t] \in {"freeze", "slot", "reserve"} => kind[t] = "award"
          /\ pc[t] \in {"pace", "claim"} => kind[t] = "event"
    /\ \A t \in Tick : HasSlot(t) => slot = lead[t]
    /\ \A t, u \in Tick : HasSlot(t) /\ HasSlot(u) => t = u
    /\ \A k \in today : k[2] = "award" => slot = k[1]
    /\ \A t \in Tick :
          HasSlot(t) /\ pc[t] \in {"reserve", "call", "refused"}
          => \A k \in today : k[2] # "award"

\* One tick at a time: the lead in hand has not been shown.
Choosing(t) ==
    pc[t] \in {"freeze", "slot", "reserve", "pace", "claim", "call"}

LeadInv ==
    /\ \A t \in Tick : Choosing(t) =>
          \A k \in Key : k[1] = lead[t] => landed[k] = 0
    /\ NoLeadTwice

\* One tick at a time: what it found in the budget is still there.
RichChoice(t) ==
    \/ pc[t] \in {"review", "freeze", "slot", "reserve"}
    \/ pc[t] = "call" /\ kind[t] = "award"

LegacyChoice(t) == pc[t] = "claim" \/ (pc[t] = "call" /\ kind[t] = "event")

BudgetInv ==
    /\ \A k \in today : Today(k)
    /\ \A t \in Tick : pc[t] \in {"call", "landed", "posted", "finished"} =>
          Today(Mine(t))
    /\ \A t \in Tick : RichChoice(t) => today = {}
    /\ \A t \in Tick : LegacyChoice(t) =>
          /\ Cardinality(today) < AbsoluteCap
          /\ Cardinality(today) >= DailyCap => lead[t] \in Exceptional
    /\ DailyBudget

---------------------------------------------------------------------------
(***************************************************************************)
(* Types.                                                                  *)
(***************************************************************************)
\* A tick past its choice has a key in hand.
LEMMA MineIsKey ==
    ASSUME TypeOK, NEW t \in Tick, lead[t] \in Lead
    PROVE  Mine(t) \in Key
BY DEF TypeOK, Mine, Key

\* What every ending of a tick does to the types.
LEMMA EndTypes ==
    ASSUME TypeOK, NEW t \in Tick, End(t) \/ Fallback(t),
           outbox' \in [Key -> [state : RowStates, age : {"today", "past"}]],
           posts' \subseteq Key, today' \subseteq Key,
           slot' \in Lead \cup {NoLead}, oldSlots' \subseteq Lead,
           hold' \in BOOLEAN, taken' \subseteq Lead,
           phase' \in {"closed", "band", "late"},
           landed' \in [Key -> Nat], crashes' \in 0..MaxCrashes
    PROVE  TypeOK'
<1>1. pc' \in [Tick -> Points] /\ forced' \in [Tick -> BOOLEAN]
  BY DEF TypeOK, End, Fallback, Goto, Points
<1>2. lead' \in [Tick -> Lead \cup {NoLead}] /\ kind' \in [Tick -> {"award", "event"}]
  BY DEF TypeOK, End, Fallback
<1>3. ASSUME NEW u \in Tick,
             pc'[u] \in {"freeze", "slot", "reserve", "pace", "claim", "call",
                        "refused", "landed", "posted", "finished"}
      PROVE  lead'[u] \in Lead
  BY <1>3 DEF TypeOK, End, Fallback, Goto
<1>4. QED
  BY <1>1, <1>2, <1>3 DEF TypeOK

LEMMA RowTypes ==
    ASSUME TypeOK, NEW t \in Tick, lead[t] \in Lead
    PROVE  /\ \A s \in RowStates : Finish(t, s) =>
                outbox' \in [Key -> [state : RowStates, age : {"today", "past"}]]
           /\ ReleaseRow(t) \/ Quarantine(t)
                \/ outbox' = [outbox EXCEPT ![Mine(t)] = Row("sending")] =>
                outbox' \in [Key -> [state : RowStates, age : {"today", "past"}]]
<1> DEFINE Rows == [state : RowStates, age : {"today", "past"}]
<1>1. outbox \in [Key -> Rows] /\ Mine(t) \in Key
  BY MineIsKey DEF TypeOK
<1>2. ASSUME NEW s \in RowStates
      PROVE  [outbox[Mine(t)] EXCEPT !.state = s] \in Rows
  BY <1>1
<1>3. NoRow \in Rows /\ Row("sending") \in Rows /\ Row("unrenderable") \in Rows
  BY DEF NoRow, Row, RowStates
<1> HIDE DEF Rows
<1>4. ASSUME NEW r \in Rows, outbox' = [outbox EXCEPT ![Mine(t)] = r]
      PROVE  outbox' \in [Key -> Rows]
  BY <1>1, <1>4
<1>5. ASSUME NEW s \in RowStates, Finish(t, s)
      PROVE  outbox' \in [Key -> Rows]
  BY <1>2, <1>4, <1>5 DEF Finish
<1>6. Quarantine(t) => outbox' \in [Key -> Rows]
  BY <1>1, <1>3, <1>4 DEF Quarantine
<1>7. ReleaseRow(t) \/ outbox' = [outbox EXCEPT ![Mine(t)] = Row("sending")]
      => outbox' \in [Key -> Rows]
  BY <1>3, <1>4 DEF ReleaseRow
<1>8. QED
  BY <1>5, <1>6, <1>7 DEF Rows

LEMMA InitTypeOK == Init => TypeOK
<1> SUFFICES ASSUME Init PROVE TypeOK
  OBVIOUS
<1>1. NoRow \in [state : RowStates, age : {"today", "past"}]
  BY DEF NoRow, RowStates
<1>2. outbox \in [Key -> [state : RowStates, age : {"today", "past"}]]
  BY <1>1 DEF Init
<1>3. landed \in [Key -> Nat] /\ crashes \in 0..MaxCrashes
  BY DeliveryAssumption DEF Init
<1>4. QED
  BY <1>2, <1>3, DeliveryAssumption DEF Init, TypeOK, Points

LEMMA RichTypeStep ==
    ASSUME TypeOK, NEW t \in Tick, RichStep(t)
    PROVE  TypeOK'
<1> USE DEF db, hist
<1>1. CASE RichGateHolds(t) \/ RichGateMissed(t) \/ Vetoed(t) \/ SlotRefused(t)
  BY <1>1, EndTypes DEF TypeOK, RichGateHolds, RichGateMissed, Vetoed, SlotRefused
<1>2. CASE RichGateOpens(t)
  BY <1>2 DEF TypeOK, RichGateOpens, Goto, Points
<1>3. CASE Review(t)
  <2>1. CASE Fallback(t)
    BY <1>3, <2>1, EndTypes DEF TypeOK, Review
  <2>2. ASSUME NEW l \in Lead, Choose(t, l, "award", "freeze")
        PROVE  TypeOK'
    BY <1>3, <2>2 DEF TypeOK, Review, Choose, Goto, Points
  <2>3. QED
    BY <1>3, <2>1, <2>2 DEF Review
<1>4. CASE Freeze(t)
  BY <1>4 DEF TypeOK, Freeze, NotVetoed, Goto, Points
<1>5. CASE RenderFails(t)
  BY <1>5, EndTypes, RowTypes DEF TypeOK, RenderFails, NotVetoed
<1>6. CASE ReserveSlot(t)
  BY <1>6 DEF TypeOK, ReserveSlot, Goto, Points
<1>7. CASE Reserve(t)
  <2>1. outbox' \in [Key -> [state : RowStates, age : {"today", "past"}]]
    BY <1>7, RowTypes DEF TypeOK, Reserve
  <2>2. QED
    BY <1>7, <2>1 DEF TypeOK, Reserve, Goto, Points
<1>8. CASE AlreadyReserved(t)
  BY <1>8, EndTypes DEF TypeOK, AlreadyReserved, ReleaseSlot
<1>9. QED
  BY <1>1, <1>2, <1>3, <1>4, <1>5, <1>6, <1>7, <1>8 DEF RichStep

LEMMA LegacyTypeStep ==
    ASSUME TypeOK, NEW t \in Tick, LegacyStep(t)
    PROVE  TypeOK'
<1> USE DEF db, hist
<1>1. CASE Pick(t)
  BY <1>1 DEF TypeOK, Pick, Choose, Goto, Points
<1>2. CASE NothingToPick(t) \/ HeldBack(t)
  BY <1>2, EndTypes DEF TypeOK, NothingToPick, HeldBack
<1>3. CASE Paced(t)
  BY <1>3 DEF TypeOK, Paced, Goto, Points
<1>4. CASE BuildFails(t)
  BY <1>4, EndTypes, RowTypes DEF TypeOK, BuildFails
<1>5. CASE Claim(t)
  <2>1. CASE End(t) /\ UNCHANGED outbox
    BY <1>5, <2>1, EndTypes DEF TypeOK, Claim
  <2>2. CASE /\ outbox' = [outbox EXCEPT ![Mine(t)] = Row("sending")]
             /\ Goto(t, "call") /\ UNCHANGED <<lead, kind, forced>>
    <3>1. outbox' \in [Key -> [state : RowStates, age : {"today", "past"}]]
      BY <1>5, <2>2, RowTypes DEF TypeOK, Claim
    <3>2. QED
      BY <1>5, <2>2, <3>1 DEF TypeOK, Claim, Goto, Points
  <2>3. QED
    BY <1>5, <2>1, <2>2 DEF Claim
<1>6. QED
  BY <1>1, <1>2, <1>3, <1>4, <1>5 DEF LegacyStep

LEMMA SlackTypeStep ==
    ASSUME TypeOK, NEW t \in Tick, SlackStep(t)
    PROVE  TypeOK'
<1> USE DEF db, hist
<1>1. CASE Lands(t)
  <2>1. landed' \in [Key -> Nat] /\ today' \subseteq Key
    BY <1>1, MineIsKey DEF TypeOK, Lands
  <2>2. QED
    BY <1>1, <2>1 DEF TypeOK, Lands, Goto, Points
<1>2. CASE Refused(t)
  <2>1. outbox' \in [Key -> [state : RowStates, age : {"today", "past"}]]
    BY <1>2, RowTypes DEF TypeOK, Refused
  <2>2. QED
    BY <1>2, <2>1 DEF TypeOK, Refused, Goto, Points
<1>3. ASSUME NEW guard \in BOOLEAN, SettleRefusal(t, guard)
      PROVE  TypeOK'
  <2>1. slot' \in Lead \cup {NoLead} /\ oldSlots' \subseteq Lead
    BY <1>3 DEF TypeOK, SettleRefusal, ReleaseSlot
  <2>2. QED
    BY <1>3, <2>1, EndTypes DEF TypeOK, SettleRefusal
<1>4. CASE Rejected(t) \/ Ambiguous(t)
  <2>1. outbox' \in [Key -> [state : RowStates, age : {"today", "past"}]]
    BY <1>4, RowTypes DEF TypeOK, Rejected, Ambiguous, RowStates
  <2>2. QED
    BY <1>4, <2>1, EndTypes DEF TypeOK, Rejected, Ambiguous
<1>5. CASE RecordPost(t)
  BY <1>5, MineIsKey DEF TypeOK, RecordPost, Goto, Points
<1>6. CASE FinishDelivered(t)
  <2>1. outbox' \in [Key -> [state : RowStates, age : {"today", "past"}]]
    BY <1>6, RowTypes DEF TypeOK, FinishDelivered, RowStates
  <2>2. QED
    BY <1>6, <2>1 DEF TypeOK, FinishDelivered, Goto, Points
<1>7. CASE MarkSurfaced(t)
  BY <1>7, EndTypes DEF TypeOK, MarkSurfaced
<1>8. CASE BookkeepingFails(t)
  <2>1. outbox' \in [Key -> [state : RowStates, age : {"today", "past"}]]
    BY <1>8, RowTypes DEF TypeOK, BookkeepingFails, RowStates
  <2>2. taken' \subseteq Lead
    BY <1>8 DEF TypeOK, BookkeepingFails
  <2>3. QED
    BY <1>8, <2>1, <2>2, EndTypes DEF TypeOK, BookkeepingFails
<1>9. QED
  BY <1>1, <1>2, <1>3, <1>4, <1>5, <1>6, <1>7, <1>8 DEF SlackStep

LEMMA WorldTypeStep ==
    ASSUME TypeOK, Environment
    PROVE  TypeOK'
<1> USE DEF db, tick, hist
<1>1. ASSUME NEW l \in Lead, RepClaims(l)
      PROVE  TypeOK'
  BY <1>1 DEF TypeOK, RepClaims
<1>2. CASE HoldExpires
  BY <1>2 DEF TypeOK, HoldExpires
<1>3. CASE NextPhase
  BY <1>3 DEF TypeOK, NextPhase
<1>4. CASE Midnight
  <2>1. outbox' \in [Key -> [state : RowStates, age : {"today", "past"}]]
    BY <1>4 DEF TypeOK, Midnight
  <2>2. QED
    BY <1>4, <2>1 DEF TypeOK, Midnight
<1>5. QED
  BY <1>1, <1>2, <1>3, <1>4 DEF Environment

LEMMA NextTypeOK == TypeOK /\ [Next]_vars => TypeOK'
<1> SUFFICES ASSUME TypeOK, [Next]_vars
             PROVE  TypeOK'
  OBVIOUS
<1> USE DEF db, tick, hist
<1>1. CASE UNCHANGED vars
  BY <1>1 DEF TypeOK, vars
<1>2. ASSUME NEW t \in Tick, NEW f \in Forcing, Start(t, f)
      PROVE  TypeOK'
  BY <1>2, DeliveryAssumption DEF TypeOK, Start, Goto, Points
<1>3. ASSUME NEW t \in Tick, Crash(t)
      PROVE  TypeOK'
  <2>1. crashes' \in 0..MaxCrashes
    BY <1>3, DeliveryAssumption DEF TypeOK, Crash
  <2>2. QED
    BY <1>3, <2>1, EndTypes DEF TypeOK, Crash
<1>4. ASSUME NEW t \in Tick, RenderFailsAndDies(t)
      PROVE  TypeOK'
  <2>1. crashes' \in 0..MaxCrashes
    BY <1>4, DeliveryAssumption DEF TypeOK, RenderFailsAndDies
  <2>2. outbox' \in [Key -> [state : RowStates, age : {"today", "past"}]]
    BY <1>4, RowTypes DEF TypeOK, RenderFailsAndDies, NotVetoed
  <2>3. QED
    BY <1>4, <2>1, <2>2, EndTypes DEF TypeOK, RenderFailsAndDies
<1>5. QED
  BY <1>1, <1>2, <1>3, <1>4, RichTypeStep, LegacyTypeStep, SlackTypeStep,
     WorldTypeStep DEF Next, Step

(***************************************************************************)
(* Every value stays in its domain, and a tick past its choice has a lead. *)
(***************************************************************************)
THEOREM TypeCorrect == Spec => []TypeOK
BY InitTypeOK, NextTypeOK, PTL DEF Spec

---------------------------------------------------------------------------
(***************************************************************************)
(* Rows and landings.  A step of one tick touches at most the row and the  *)
(* landing count of its own key, and only while it owns that row or the    *)
(* row is free: so the other ticks keep what they know.                    *)
(***************************************************************************)
Moves(t) == \A u \in Tick : u # t =>
    pc'[u] = pc[u] /\ lead'[u] = lead[u] /\ kind'[u] = kind[u]

SameRow(k) == outbox'[k].state = outbox[k].state /\ landed'[k] = landed[k]

LEMMA EndMoves ==
    ASSUME TypeOK, NEW t \in Tick, End(t) \/ Fallback(t)
    PROVE  Moves(t) /\ ~Holder(t)'
BY DEF TypeOK, End, Fallback, Goto, Moves, Holder

LEMMA GotoMoves ==
    ASSUME TypeOK, NEW t \in Tick, NEW p \in Points, Goto(t, p),
           UNCHANGED <<lead, kind>>
    PROVE  Moves(t) /\ Mine(t)' = Mine(t) /\ pc'[t] = p
BY DEF TypeOK, Goto, Moves, Mine

LEMMA RowStep ==
    ASSUME TypeOK, RowInv, NEW t \in Tick, Moves(t),
           \A k \in Key : ~SameRow(k) =>
               k = Mine(t) /\ (Holder(t) \/ outbox[k].state = "none"),
           Holder(t)' =>
               /\ Mine(t)' = Mine(t) /\ lead[t] \in Lead
               /\ Holder(t) \/ outbox[Mine(t)].state = "none"
               /\ outbox'[Mine(t)].state =
                     IF pc'[t] = "finished" THEN "delivered" ELSE "sending"
               /\ pc'[t] = "call" => landed'[Mine(t)] = 0,
           \A k \in Key : ~SameRow(k) =>
               /\ landed'[k] <= 1
               /\ landed'[k] > 0 =>
                     outbox'[k].state \in {"sending", "unknown", "delivered"},
           \A k \in today' : (k \in today /\ SameRow(k)) \/ landed'[k] > 0
    PROVE  RowInv'
<1> USE DEF RowInv
<1>1. \A u \in Tick : Holder(u) => /\ Mine(u) \in Key
                                   /\ outbox[Mine(u)].state # "none"
  BY MineIsKey DEF TypeOK, Holder, RowsOwned
<1>2. ASSUME NEW u \in Tick, u # t
      PROVE  /\ pc'[u] = pc[u] /\ Mine(u)' = Mine(u)
             /\ Holder(u)' = Holder(u)
             /\ Holder(u) => SameRow(Mine(u))
  <2>1. pc'[u] = pc[u] /\ Mine(u)' = Mine(u) /\ Holder(u)' = Holder(u)
    BY <1>2 DEF Moves, Mine, Holder
  <2>2. Holder(u) => SameRow(Mine(u))
    BY <1>1, <1>2 DEF RowsOwned
  <2>3. QED
    BY <2>1, <2>2
<1>3. RowsOwned'
  <2>1. ASSUME NEW u \in Tick, pc'[u] \in {"call", "landed", "posted"}
        PROVE  outbox'[Mine(u)'].state = "sending"
    <3>1. CASE u = t
      BY <2>1, <3>1 DEF Holder
    <3>2. CASE u # t
      BY <2>1, <3>2, <1>2 DEF RowsOwned, Holder, SameRow
    <3>3. QED
      BY <3>1, <3>2
  <2>2. ASSUME NEW u \in Tick, pc'[u] = "finished"
        PROVE  outbox'[Mine(u)'].state = "delivered"
    <3>1. CASE u = t
      BY <2>2, <3>1 DEF Holder
    <3>2. CASE u # t
      BY <2>2, <3>2, <1>2 DEF RowsOwned, Holder, SameRow
    <3>3. QED
      BY <3>1, <3>2
  <2>3. ASSUME NEW u \in Tick, NEW v \in Tick, Holder(u)', Holder(v)', u # v
        PROVE  Mine(u)' # Mine(v)'
    <3>1. CASE u # t /\ v # t
      BY <2>3, <3>1, <1>2 DEF RowsOwned
    <3>2. ASSUME NEW w \in Tick, w # t, Holder(w)', Holder(t)'
          PROVE  Mine(w)' # Mine(t)'
      BY <3>2, <1>1, <1>2 DEF RowsOwned
    <3>3. QED
      BY <2>3, <3>1, <3>2
  <2>4. QED
    BY <2>1, <2>2, <2>3 DEF RowsOwned, Mine
<1>4. LandingsSound'
  <2>1. ASSUME NEW u \in Tick, pc'[u] = "call"
        PROVE  landed'[Mine(u)'] = 0
    <3>1. CASE u = t
      BY <2>1, <3>1 DEF Holder
    <3>2. CASE u # t
      BY <2>1, <3>2, <1>2 DEF LandingsSound, Holder, SameRow
    <3>3. QED
      BY <3>1, <3>2
  <2>2. \A k \in Key : landed'[k] <= 1
    BY DEF LandingsSound, SameRow
  <2>3. \A k \in today' : landed'[k] > 0
    BY DEF LandingsSound, SameRow
  <2>4. QED
    BY <2>1, <2>2, <2>3 DEF LandingsSound, Mine
<1>5. LandedIsRemembered'
  BY DEF LandedIsRemembered, SameRow
<1>6. QED
  BY <1>3, <1>4, <1>5

\* A tick that ends without touching a row or a landing.
LEMMA Retreats ==
    ASSUME TypeOK, RowInv, NEW t \in Tick, End(t) \/ Fallback(t),
           UNCHANGED <<outbox, landed, today>>
    PROVE  RowInv'
BY EndMoves, RowStep DEF SameRow

\* A tick that goes on without touching them, and owns nothing yet.
LEMMA GoesOn ==
    ASSUME TypeOK, RowInv, NEW t \in Tick, NEW p \in Points,
           Goto(t, p), UNCHANGED <<lead, kind>>,
           p \notin {"call", "landed", "posted", "finished"},
           UNCHANGED <<outbox, landed, today>>
    PROVE  RowInv'
<1>1. Moves(t) /\ ~Holder(t)'
  BY GotoMoves DEF Holder
<1>2. QED
  BY <1>1, RowStep DEF SameRow

\* The rows after the writes of the model.
LEMMA RowWrites ==
    ASSUME TypeOK, NEW t \in Tick, lead[t] \in Lead
    PROVE  /\ Mine(t) \in Key
           /\ \A s \in RowStates : Finish(t, s) =>
                /\ outbox'[Mine(t)].state = s
                /\ \A k \in Key : k # Mine(t) => outbox'[k] = outbox[k]
           /\ ReleaseRow(t) =>
                /\ outbox'[Mine(t)].state = "none"
                /\ \A k \in Key : k # Mine(t) => outbox'[k] = outbox[k]
           /\ Quarantine(t) =>
                /\ outbox[Mine(t)].state = "none" =>
                     outbox'[Mine(t)].state = "unrenderable"
                /\ outbox[Mine(t)].state # "none" =>
                     outbox'[Mine(t)] = outbox[Mine(t)]
                /\ \A k \in Key : k # Mine(t) => outbox'[k] = outbox[k]
           /\ outbox' = [outbox EXCEPT ![Mine(t)] = Row("sending")] =>
                /\ outbox'[Mine(t)].state = "sending"
                /\ \A k \in Key : k # Mine(t) => outbox'[k] = outbox[k]
<1>1. Mine(t) \in Key
  BY MineIsKey
<1> DEFINE Rows == [state : RowStates, age : {"today", "past"}]
<1>2. outbox \in [Key -> Rows] /\ outbox[Mine(t)] \in Rows
  BY <1>1 DEF TypeOK
<1>3. \A s \in RowStates : [outbox[Mine(t)] EXCEPT !.state = s].state = s
  BY <1>2
<1>4. NoRow.state = "none" /\ \A s \in RowStates : Row(s).state = s
  BY DEF NoRow, Row
<1> HIDE DEF Rows
<1>5. QED
  BY <1>1, <1>2, <1>3, <1>4 DEF Finish, ReleaseRow, Quarantine, RowStates

LEMMA RichRows ==
    ASSUME TypeOK, RowInv, NEW t \in Tick, RichStep(t)
    PROVE  RowInv'
<1> USE DEF db, hist
<1>1. CASE RichGateHolds(t) \/ RichGateMissed(t) \/ Vetoed(t)
           \/ SlotRefused(t) \/ AlreadyReserved(t)
  BY <1>1, Retreats DEF RichGateHolds, RichGateMissed, Vetoed, SlotRefused,
     AlreadyReserved
<1>2. CASE RichGateOpens(t) \/ Freeze(t) \/ ReserveSlot(t)
  BY <1>2, GoesOn DEF RichGateOpens, Freeze, ReserveSlot, Points
<1>3. CASE Review(t)
  <2>1. CASE Fallback(t)
    BY <1>3, <2>1, Retreats DEF Review
  <2>2. ASSUME NEW l \in Lead, Choose(t, l, "award", "freeze")
        PROVE  RowInv'
    <3>1. Moves(t) /\ ~Holder(t)'
      BY <2>2 DEF TypeOK, Choose, Goto, Moves, Holder
    <3>2. QED
      BY <1>3, <3>1, RowStep DEF Review, SameRow
  <2>3. QED
    BY <1>3, <2>1, <2>2 DEF Review
<1>4. CASE RenderFails(t)
  <2>1. Moves(t) /\ ~Holder(t)'
    BY <1>4, EndMoves DEF RenderFails
  <2>2. lead[t] \in Lead
    BY <1>4 DEF TypeOK, RenderFails, NotVetoed
  <2>3. \A k \in Key : ~SameRow(k) =>
           k = Mine(t) /\ outbox[k].state = "none" /\ landed'[k] = landed[k]
    BY <1>4, <2>2, RowWrites DEF RenderFails, SameRow
  <2>4. \A k \in Key : ~SameRow(k) => landed'[k] <= 1 /\ ~(landed'[k] > 0)
    BY <2>3 DEF RowInv, LandingsSound, LandedIsRemembered
  <2>5. \A k \in today' : k \in today /\ landed'[k] > 0
    BY <1>4 DEF RenderFails, RowInv, LandingsSound
  <2>6. QED
    BY <2>1, <2>3, <2>4, <2>5, RowStep
<1>5. CASE Reserve(t)
  <2>1. Moves(t) /\ Mine(t)' = Mine(t) /\ pc'[t] = "call"
    BY <1>5, GotoMoves DEF Reserve, Points
  <2>2. lead[t] \in Lead
    BY <1>5 DEF TypeOK, Reserve
  <2>3. /\ Mine(t) \in Key /\ outbox'[Mine(t)].state = "sending"
        /\ \A k \in Key : k # Mine(t) => SameRow(k)
    BY <1>5, <2>2, RowWrites DEF Reserve, SameRow
  <2>4. landed'[Mine(t)] = 0
    BY <1>5, <2>3 DEF Reserve, RowInv, LandedIsRemembered, TypeOK
  <2>5. \A k \in today' : k \in today /\ landed'[k] > 0
    BY <1>5 DEF Reserve, RowInv, LandingsSound
  <2>6. QED
    BY <1>5, <2>1, <2>2, <2>3, <2>4, <2>5, RowStep DEF Reserve
<1>6. QED
  BY <1>1, <1>2, <1>3, <1>4, <1>5 DEF RichStep

LEMMA LegacyRows ==
    ASSUME TypeOK, RowInv, NEW t \in Tick, LegacyStep(t)
    PROVE  RowInv'
<1> USE DEF db, hist
<1>1. CASE NothingToPick(t) \/ HeldBack(t)
  BY <1>1, Retreats DEF NothingToPick, HeldBack
<1>2. CASE Paced(t)
  BY <1>2, GoesOn DEF Paced, Points
<1>3. CASE Pick(t)
  <2>1. Moves(t) /\ ~Holder(t)'
    BY <1>3 DEF TypeOK, Pick, Choose, Goto, Moves, Holder
  <2>2. QED
    BY <1>3, <2>1, RowStep DEF Pick, SameRow
<1>4. CASE BuildFails(t)
  <2>1. Moves(t) /\ ~Holder(t)'
    BY <1>4, EndMoves DEF BuildFails
  <2>2. lead[t] \in Lead
    BY <1>4 DEF TypeOK, BuildFails
  <2>3. \A k \in Key : ~SameRow(k) =>
           k = Mine(t) /\ outbox[k].state = "none" /\ landed'[k] = landed[k]
    BY <1>4, <2>2, RowWrites DEF BuildFails, SameRow
  <2>4. \A k \in Key : ~SameRow(k) => landed'[k] <= 1 /\ ~(landed'[k] > 0)
    BY <2>3 DEF RowInv, LandingsSound, LandedIsRemembered
  <2>5. \A k \in today' : k \in today /\ landed'[k] > 0
    BY <1>4 DEF BuildFails, RowInv, LandingsSound
  <2>6. QED
    BY <2>1, <2>3, <2>4, <2>5, RowStep
<1>5. CASE Claim(t)
  <2>1. CASE End(t) /\ UNCHANGED outbox
    BY <1>5, <2>1, Retreats DEF Claim
  <2>2. CASE /\ outbox[Mine(t)].state = "none"
             /\ outbox' = [outbox EXCEPT ![Mine(t)] = Row("sending")]
             /\ Goto(t, "call") /\ UNCHANGED <<lead, kind, forced>>
    <3>1. Moves(t) /\ Mine(t)' = Mine(t) /\ pc'[t] = "call"
      BY <2>2, GotoMoves DEF Points
    <3>2. lead[t] \in Lead /\ landed' = landed /\ today' = today
      BY <1>5 DEF TypeOK, Claim
    <3>3. /\ Mine(t) \in Key /\ outbox'[Mine(t)].state = "sending"
          /\ \A k \in Key : k # Mine(t) => SameRow(k)
      BY <2>2, <3>2, RowWrites DEF SameRow
    <3>4. landed'[Mine(t)] = 0
      BY <2>2, <3>2, <3>3 DEF RowInv, LandedIsRemembered, TypeOK
    <3>5. \A k \in today' : k \in today /\ landed'[k] > 0
      BY <3>2 DEF RowInv, LandingsSound
    <3>6. QED
      BY <2>2, <3>1, <3>2, <3>3, <3>4, <3>5, RowStep
  <2>3. QED
    BY <1>5, <2>1, <2>2 DEF Claim
<1>6. QED
  BY <1>1, <1>2, <1>3, <1>4, <1>5 DEF LegacyStep

\* A tick that owns its row writes an outcome and ends.
LEMMA Settles ==
    ASSUME TypeOK, RowInv, NEW t \in Tick, Holder(t), End(t),
           UNCHANGED <<landed, today>>,
           NEW s \in RowStates, Finish(t, s),
           pc[t] # "call" => s \in {"unknown", "delivered"}
    PROVE  RowInv'
<1>1. Moves(t) /\ ~Holder(t)'
  BY EndMoves
<1>2. /\ Mine(t) \in Key /\ outbox'[Mine(t)].state = s
      /\ \A k \in Key : k # Mine(t) => SameRow(k)
  BY RowWrites DEF TypeOK, Holder, SameRow
<1>3. landed[Mine(t)] \in Nat /\ landed[Mine(t)] <= 1
      /\ (pc[t] = "call" => landed[Mine(t)] = 0)
  BY <1>2 DEF TypeOK, RowInv, LandingsSound
<1>4. \A k \in today' : k \in today /\ landed'[k] > 0
  BY DEF RowInv, LandingsSound
<1>5. QED
  BY <1>1, <1>2, <1>3, <1>4, RowStep

LEMMA SlackRows ==
    ASSUME TypeOK, RowInv, NEW t \in Tick, SlackStep(t)
    PROVE  RowInv'
<1> USE DEF db, hist
<1>1. CASE Lands(t)
  <2>1. Moves(t) /\ Mine(t)' = Mine(t) /\ pc'[t] = "landed"
    BY <1>1, GotoMoves DEF Lands, Points
  <2>2. lead[t] \in Lead /\ Mine(t) \in Key /\ Holder(t)
    BY <1>1, MineIsKey DEF TypeOK, Lands, Holder
  <2>3. landed[Mine(t)] = 0 /\ outbox[Mine(t)].state = "sending"
    BY <1>1 DEF Lands, RowInv, RowsOwned, LandingsSound
  <2>4. landed'[Mine(t)] = 1
        /\ \A k \in Key : k # Mine(t) => SameRow(k)
    BY <1>1, <2>2, <2>3 DEF Lands, TypeOK, SameRow
  <2>5. outbox'[Mine(t)].state = "sending"
    BY <1>1, <2>3 DEF Lands
  <2>6. \A k \in today' : (k \in today /\ SameRow(k)) \/ landed'[k] > 0
    BY <1>1, <2>4 DEF Lands, TypeOK
  <2>7. QED
    BY <2>1, <2>2, <2>4, <2>5, <2>6, RowStep
<1>2. CASE Refused(t)
  <2>1. Moves(t) /\ Mine(t)' = Mine(t) /\ pc'[t] = "refused"
    BY <1>2, GotoMoves DEF Refused, Points
  <2>2. lead[t] \in Lead /\ Holder(t)
    BY <1>2 DEF TypeOK, Refused, Holder
  <2>3. Mine(t) \in Key /\ \A k \in Key : k # Mine(t) => SameRow(k)
    BY <1>2, <2>2, RowWrites DEF Refused, SameRow
  <2>4. landed'[Mine(t)] = 0
    BY <1>2 DEF Refused, RowInv, LandingsSound
  <2>5. \A k \in today' : k \in today /\ landed'[k] > 0
    BY <1>2 DEF Refused, RowInv, LandingsSound
  <2>6. QED
    BY <2>1, <2>2, <2>3, <2>4, <2>5, RowStep DEF Holder
<1>3. ASSUME NEW guard \in BOOLEAN, SettleRefusal(t, guard)
      PROVE  RowInv'
  BY <1>3, Retreats DEF SettleRefusal
<1>4. CASE Rejected(t)
  BY <1>4, Settles DEF Rejected, Holder, RowStates
<1>5. CASE Ambiguous(t)
  BY <1>5, Settles DEF Ambiguous, Holder, RowStates
<1>6. CASE RecordPost(t)
  <2>1. Moves(t) /\ Mine(t)' = Mine(t) /\ pc'[t] = "posted"
    BY <1>6, GotoMoves DEF RecordPost, Points
  <2>2. lead[t] \in Lead /\ Holder(t) /\ outbox'[Mine(t)].state = "sending"
    BY <1>6 DEF TypeOK, RecordPost, Holder, RowInv, RowsOwned
  <2>3. QED
    BY <1>6, <2>1, <2>2, RowStep DEF RecordPost, SameRow
<1>7. CASE FinishDelivered(t)
  <2>1. Moves(t) /\ Mine(t)' = Mine(t) /\ pc'[t] = "finished"
    BY <1>7, GotoMoves DEF FinishDelivered, Points
  <2>2. lead[t] \in Lead /\ Holder(t)
    BY <1>7 DEF TypeOK, FinishDelivered, Holder
  <2>3. /\ Mine(t) \in Key /\ outbox'[Mine(t)].state = "delivered"
        /\ \A k \in Key : k # Mine(t) => SameRow(k)
    BY <1>7, <2>2, RowWrites DEF FinishDelivered, SameRow, RowStates
  <2>4. landed'[Mine(t)] <= 1
    BY <1>7, <2>3 DEF FinishDelivered, RowInv, LandingsSound
  <2>5. \A k \in today' : k \in today /\ landed'[k] > 0
    BY <1>7 DEF FinishDelivered, RowInv, LandingsSound
  <2>6. QED
    BY <2>1, <2>2, <2>3, <2>4, <2>5, RowStep
<1>8. CASE MarkSurfaced(t)
  BY <1>8, Retreats DEF MarkSurfaced
<1>9. CASE BookkeepingFails(t)
  <2>1. CASE Finish(t, "delivered")
    BY <1>9, <2>1, Settles DEF BookkeepingFails, Holder, RowStates
  <2>2. CASE UNCHANGED outbox
    BY <1>9, <2>2, Retreats DEF BookkeepingFails
  <2>3. QED
    BY <1>9, <2>1, <2>2 DEF BookkeepingFails
<1>10. QED
  BY <1>1, <1>2, <1>3, <1>4, <1>5, <1>6, <1>7, <1>8, <1>9 DEF SlackStep

\* Midnight ages the rows and keeps what they say.
LEMMA MidnightRows ==
    ASSUME TypeOK, Midnight
    PROVE  \A k \in Key : outbox'[k].state = outbox[k].state
                           /\ outbox'[k].age = "past"
BY DEF Midnight, TypeOK

LEMMA WorldRows ==
    ASSUME TypeOK, RowInv, Environment
    PROVE  RowInv'
<1> USE DEF db, tick, hist
<1>1. CASE (\E l \in Lead : RepClaims(l)) \/ HoldExpires \/ NextPhase
  <2>1. UNCHANGED <<outbox, landed, today, tick>>
    BY <1>1 DEF RepClaims, HoldExpires, NextPhase
  <2>2. QED
    BY <2>1 DEF RowInv, RowsOwned, LandingsSound, LandedIsRemembered, Holder, Mine
<1>2. CASE Midnight
  <2>1. \A u \in Tick : pc'[u] = "idle"
    BY <1>2 DEF Midnight, AllIdle
  <2>2. \A k \in Key : SameRow(k)
    BY <1>2, MidnightRows DEF Midnight, SameRow
  <2>3. today' = {}
    BY <1>2 DEF Midnight
  <2>4. QED
    BY <2>1, <2>2, <2>3 DEF RowInv, RowsOwned, LandingsSound,
       LandedIsRemembered, Holder, SameRow
<1>3. QED
  BY <1>1, <1>2 DEF Environment

LEMMA InitRows == Init => RowInv
BY DEF Init, RowInv, RowsOwned, LandingsSound, LandedIsRemembered, Holder

LEMMA NextRows == TypeOK /\ RowInv /\ [Next]_vars => RowInv'
<1> SUFFICES ASSUME TypeOK, RowInv, [Next]_vars
             PROVE  RowInv'
  OBVIOUS
<1> USE DEF db, tick, hist
<1>1. CASE UNCHANGED vars
  BY <1>1 DEF vars, RowInv, RowsOwned, LandingsSound, LandedIsRemembered,
     Holder, Mine
<1>2. ASSUME NEW t \in Tick, NEW f \in Forcing, Start(t, f)
      PROVE  RowInv'
  BY <1>2, GoesOn DEF Start, Points
<1>3. ASSUME NEW t \in Tick, Crash(t)
      PROVE  RowInv'
  BY <1>3, Retreats DEF Crash
<1>4. ASSUME NEW t \in Tick, RenderFailsAndDies(t)
      PROVE  RowInv'
  <2>1. Moves(t) /\ ~Holder(t)'
    BY <1>4, EndMoves DEF RenderFailsAndDies
  <2>2. lead[t] \in Lead
    BY <1>4 DEF TypeOK, RenderFailsAndDies, NotVetoed
  <2>3. /\ Mine(t) \in Key /\ outbox'[Mine(t)].state = "sending"
        /\ \A k \in Key : k # Mine(t) => SameRow(k)
    BY <1>4, <2>2, RowWrites DEF RenderFailsAndDies, SameRow
  <2>4. landed'[Mine(t)] <= 1
    BY <1>4, <2>3 DEF RenderFailsAndDies, RowInv, LandingsSound
  <2>5. \A k \in today' : k \in today /\ landed'[k] > 0
    BY <1>4 DEF RenderFailsAndDies, RowInv, LandingsSound
  <2>6. QED
    BY <1>4, <2>1, <2>3, <2>4, <2>5, RowStep DEF RenderFailsAndDies
<1>5. QED
  BY <1>1, <1>2, <1>3, <1>4, RichRows, LegacyRows, SlackRows, WorldRows
     DEF Next, Step

THEOREM RowsCorrect == Spec => [](TypeOK /\ RowInv)
<1>1. Init => TypeOK /\ RowInv
  BY InitTypeOK, InitRows
<1>2. TypeOK /\ RowInv /\ [Next]_vars => (TypeOK /\ RowInv)'
  BY NextTypeOK, NextRows
<1>3. QED
  BY <1>1, <1>2, PTL DEF Spec

(***************************************************************************)
(* A message that landed has a row that counts as a possible delivery      *)
(* (db_delivery.py's core invariant).                                      *)
(***************************************************************************)
THEOREM LandedRemembered == Spec => []LandedIsRemembered
<1>1. RowInv => LandedIsRemembered
  BY DEF RowInv
<1>2. QED
  BY <1>1, RowsCorrect, PTL

(***************************************************************************)
(* A row with an outcome keeps it, although finish_notification and        *)
(* release_notification look at no state: only the owner of a row calls    *)
(* them, and its row is still in 'sending'.                                *)
(***************************************************************************)
LEMMA StepKeepsOutcome ==
    ASSUME TypeOK, RowInv, Next, NEW k \in Key,
           outbox[k].state \notin {"none", "sending"}
    PROVE  outbox'[k].state = outbox[k].state
<1> USE DEF db, tick, hist
<1>1. ASSUME NEW t \in Tick, RenderFails(t) \/ BuildFails(t)
      PROVE  outbox'[k].state = outbox[k].state
  <2>1. lead[t] \in Lead /\ Quarantine(t)
    BY <1>1 DEF TypeOK, RenderFails, BuildFails, NotVetoed
  <2>2. QED
    BY <2>1, RowWrites
<1>2. ASSUME NEW t \in Tick,
             outbox' = [outbox EXCEPT ![Mine(t)] = Row("sending")],
             lead[t] \in Lead, outbox[Mine(t)].state = "none"
      PROVE  outbox'[k].state = outbox[k].state
  BY <1>2, RowWrites
<1>3. ASSUME NEW t \in Tick, Reserve(t) \/ Claim(t) \/ RenderFailsAndDies(t)
      PROVE  outbox'[k].state = outbox[k].state
  BY <1>2, <1>3 DEF TypeOK, Reserve, Claim, RenderFailsAndDies, NotVetoed
<1>4. ASSUME NEW t \in Tick, pc[t] \in {"call", "landed", "posted"},
             ReleaseRow(t) \/ \E s \in RowStates : Finish(t, s)
      PROVE  outbox'[k].state = outbox[k].state
  <2>1. lead[t] \in Lead /\ outbox[Mine(t)].state = "sending"
    BY <1>4 DEF TypeOK, RowInv, RowsOwned
  <2>2. QED
    BY <1>4, <2>1, RowWrites
<1>5. ASSUME NEW t \in Tick, Refused(t) \/ Rejected(t) \/ Ambiguous(t)
                            \/ FinishDelivered(t)
      PROVE  outbox'[k].state = outbox[k].state
  BY <1>4, <1>5 DEF Refused, Rejected, Ambiguous, FinishDelivered, RowStates
<1>6. ASSUME NEW t \in Tick, BookkeepingFails(t)
      PROVE  outbox'[k].state = outbox[k].state
  <2>1. CASE UNCHANGED outbox
    BY <2>1
  <2>2. CASE Finish(t, "delivered") /\ pc[t] # "finished"
    BY <1>4, <1>6, <2>2 DEF BookkeepingFails, RowStates
  <2>3. CASE Finish(t, "delivered") /\ pc[t] = "finished"
    <3>1. lead[t] \in Lead /\ outbox[Mine(t)].state = "delivered"
      BY <2>3 DEF TypeOK, RowInv, RowsOwned
    <3>2. QED
      BY <2>3, <3>1, RowWrites DEF RowStates
  <2>4. QED
    BY <1>6, <2>1, <2>2, <2>3 DEF BookkeepingFails
<1>7. CASE Midnight
  BY <1>7, MidnightRows
<1>8. ASSUME NEW t \in Tick, RichStep(t)
      PROVE  outbox'[k].state = outbox[k].state
  BY <1>8, <1>1, <1>3 DEF RichStep, RichGateHolds, RichGateMissed,
     RichGateOpens, Review, Vetoed, Freeze, ReserveSlot, SlotRefused,
     AlreadyReserved
<1>9. ASSUME NEW t \in Tick, LegacyStep(t)
      PROVE  outbox'[k].state = outbox[k].state
  BY <1>9, <1>1, <1>3 DEF LegacyStep, Pick, NothingToPick, Paced, HeldBack
<1>10. ASSUME NEW t \in Tick, SlackStep(t)
      PROVE  outbox'[k].state = outbox[k].state
  BY <1>10, <1>5, <1>6 DEF SlackStep, Lands, SettleRefusal, RecordPost,
     MarkSurfaced
<1>11. QED
  BY <1>3, <1>7, <1>8, <1>9, <1>10 DEF Next, Step, Start, Crash, Environment,
     RepClaims, HoldExpires, NextPhase

THEOREM OutcomeKept == Spec => OutcomeStays
<1> DEFINE Keeps == \A k \in Key : outbox[k].state \notin {"none", "sending"} =>
                       outbox'[k].state = outbox[k].state
<1>1. TypeOK /\ RowInv /\ [Next]_vars => [Keeps]_vars
  BY StepKeepsOutcome
<1>2. QED
  BY <1>1, RowsCorrect, PTL DEF Spec, OutcomeStays

---------------------------------------------------------------------------
(***************************************************************************)
(* The daily slot: one holder at a time, and an award that landed today    *)
(* keeps it taken.                                                         *)
(***************************************************************************)
AwardsToday == {k \in today : k[2] = "award"}

KindFits(t) ==
    /\ pc[t] \in {"freeze", "slot", "reserve"} => kind[t] = "award"
    /\ pc[t] \in {"pace", "claim"} => kind[t] = "event"

LEMMA SlotStep ==
    ASSUME TypeOK, SlotInv, NEW t \in Tick, Moves(t), KindFits(t)',
           slot' # slot => \A u \in Tick : u # t => ~HasSlot(u),
           HasSlot(t)' => /\ slot' = lead'[t]
                          /\ HasSlot(t) \/ slot = NoLead
                          /\ pc'[t] \in {"reserve", "call", "refused"} =>
                                AwardsToday' = {},
           \A k \in AwardsToday' : slot' = k[1],
           AwardsToday' \subseteq AwardsToday \/ HasSlot(t)
    PROVE  SlotInv'
<1> USE DEF SlotInv
<1>1. ASSUME NEW u \in Tick, u # t
      PROVE  /\ pc'[u] = pc[u] /\ lead'[u] = lead[u] /\ kind'[u] = kind[u]
             /\ KindFits(u)' /\ HasSlot(u)' = HasSlot(u)
  BY <1>1 DEF Moves, KindFits, HasSlot, Holder
<1>2. \A u \in Tick : HasSlot(u) => lead[u] # NoLead
  BY DeliveryAssumption DEF TypeOK, HasSlot, Holder
<1>3. \A u \in Tick : KindFits(u)'
  BY <1>1
<1>4. \A u \in Tick : HasSlot(u)' => slot' = lead'[u]
  BY <1>1
<1>5. \A u, v \in Tick : HasSlot(u)' /\ HasSlot(v)' => u = v
  BY <1>1, <1>2
<1>6. \A u \in Tick : HasSlot(u)' /\ pc'[u] \in {"reserve", "call", "refused"}
                      => AwardsToday' = {}
  <2>1. ASSUME NEW u \in Tick, u # t, HasSlot(u),
               pc[u] \in {"reserve", "call", "refused"}
        PROVE  AwardsToday' = {}
    BY <2>1 DEF AwardsToday
  <2>2. QED
    BY <1>1, <2>1
<1>7. QED
  BY <1>3, <1>4, <1>5, <1>6 DEF KindFits, AwardsToday

\* A tick that leaves the slot alone, and holds it after only if before.
LEMMA SlotKept ==
    ASSUME TypeOK, SlotInv, NEW t \in Tick, Moves(t), KindFits(t)',
           UNCHANGED <<slot, today>>,
           HasSlot(t)' => /\ HasSlot(t) /\ lead'[t] = lead[t]
                          /\ pc'[t] \in {"reserve", "call", "refused"} =>
                                pc[t] \in {"reserve", "call", "refused"}
    PROVE  SlotInv'
<1>1. \A k \in AwardsToday' : slot' = k[1]
  BY DEF SlotInv, AwardsToday
<1>2. HasSlot(t)' => slot' = lead'[t]
  BY DEF SlotInv
<1>3. HasSlot(t)' /\ pc'[t] \in {"reserve", "call", "refused"} =>
         AwardsToday' = {}
  BY DEF SlotInv, AwardsToday
<1>4. AwardsToday' = AwardsToday
  BY DEF AwardsToday
<1>5. QED
  BY <1>1, <1>2, <1>3, <1>4, SlotStep

LEMMA EndSlot ==
    ASSUME TypeOK, NEW t \in Tick, End(t) \/ Fallback(t)
    PROVE  Moves(t) /\ KindFits(t)' /\ ~HasSlot(t)'
BY DEF TypeOK, End, Fallback, Goto, Moves, KindFits, HasSlot, Holder

LEMMA GotoSlot ==
    ASSUME TypeOK, NEW t \in Tick, NEW p \in Points, Goto(t, p),
           UNCHANGED <<lead, kind>>
    PROVE  Moves(t) /\ pc'[t] = p /\ lead'[t] = lead[t] /\ kind'[t] = kind[t]
BY DEF TypeOK, Goto, Moves

\* The holder gives the slot back: nothing has landed with it.
LEMMA SlotReleased ==
    ASSUME TypeOK, SlotInv, NEW t \in Tick, End(t) \/ Fallback(t),
           HasSlot(t), pc[t] \in {"reserve", "refused"},
           ReleaseSlot(lead[t]), UNCHANGED today
    PROVE  SlotInv'
<1>1. \A u \in Tick : u # t => ~HasSlot(u)
  BY DEF SlotInv
<1>2. AwardsToday' = {}
  BY DEF SlotInv, AwardsToday
<1>3. QED
  BY <1>1, <1>2, EndSlot, SlotStep

LEMMA RichSlots ==
    ASSUME TypeOK, SlotInv, NEW t \in Tick, RichStep(t)
    PROVE  SlotInv'
<1> USE DEF db, hist
<1>1. CASE RichGateHolds(t) \/ RichGateMissed(t) \/ Vetoed(t)
           \/ SlotRefused(t) \/ RenderFails(t)
  BY <1>1, EndSlot, SlotKept DEF RichGateHolds, RichGateMissed, Vetoed,
     SlotRefused, RenderFails
<1>2. CASE RichGateOpens(t)
  <2>1. Moves(t) /\ pc'[t] = "review"
    BY <1>2, GotoSlot DEF RichGateOpens, Points
  <2>2. QED
    BY <1>2, <2>1, SlotKept DEF RichGateOpens, KindFits, HasSlot, Holder
<1>3. CASE Freeze(t)
  <2>1. Moves(t) /\ pc'[t] = "slot" /\ kind'[t] = kind[t] /\ kind[t] = "award"
    BY <1>3, GotoSlot DEF Freeze, NotVetoed, Points, SlotInv
  <2>2. QED
    BY <1>3, <2>1, SlotKept DEF Freeze, KindFits, HasSlot, Holder
<1>4. CASE Review(t)
  <2>1. CASE Fallback(t)
    BY <1>4, <2>1, EndSlot, SlotKept DEF Review
  <2>2. ASSUME NEW l \in Lead, Choose(t, l, "award", "freeze")
        PROVE  SlotInv'
    <3>1. Moves(t) /\ KindFits(t)' /\ ~HasSlot(t)'
      BY <2>2 DEF TypeOK, Choose, Goto, Moves, KindFits, HasSlot, Holder
    <3>2. QED
      BY <1>4, <3>1, SlotKept DEF Review
  <2>3. QED
    BY <1>4, <2>1, <2>2 DEF Review
<1>5. CASE ReserveSlot(t)
  <2>1. /\ Moves(t) /\ pc'[t] = "reserve" /\ kind'[t] = "award"
        /\ lead'[t] = lead[t]
    BY <1>5, GotoSlot DEF ReserveSlot, Points, SlotInv
  <2>2. slot = NoLead /\ slot' = lead[t] /\ today' = today
    BY <1>5 DEF ReserveSlot, SlotFree
  <2>3. \A u \in Tick : ~HasSlot(u)
    BY <2>2, DeliveryAssumption DEF SlotInv, TypeOK, HasSlot, Holder
  <2>4. AwardsToday' = {}
    BY <2>2, DeliveryAssumption DEF SlotInv, TypeOK, AwardsToday, Key
  <2>5. QED
    BY <2>1, <2>2, <2>3, <2>4, SlotStep DEF KindFits
<1>6. CASE Reserve(t)
  <2>1. /\ Moves(t) /\ pc'[t] = "call" /\ kind'[t] = kind[t]
        /\ lead'[t] = lead[t] /\ kind[t] = "award"
    BY <1>6, GotoSlot DEF Reserve, Points, SlotInv
  <2>2. QED
    BY <1>6, <2>1, SlotKept DEF Reserve, KindFits, HasSlot
<1>7. CASE AlreadyReserved(t)
  <2>1. HasSlot(t)
    BY <1>7 DEF AlreadyReserved, HasSlot, SlotInv
  <2>2. QED
    BY <1>7, <2>1, SlotReleased DEF AlreadyReserved
<1>8. QED
  BY <1>1, <1>2, <1>3, <1>4, <1>5, <1>6, <1>7 DEF RichStep

LEMMA LegacySlots ==
    ASSUME TypeOK, SlotInv, NEW t \in Tick, LegacyStep(t)
    PROVE  SlotInv'
<1> USE DEF db, hist
<1>1. CASE NothingToPick(t) \/ HeldBack(t) \/ BuildFails(t)
  BY <1>1, EndSlot, SlotKept DEF NothingToPick, HeldBack, BuildFails
<1>2. CASE Pick(t)
  <2>1. Moves(t) /\ KindFits(t)' /\ ~HasSlot(t)'
    BY <1>2 DEF TypeOK, Pick, Choose, Goto, Moves, KindFits, HasSlot, Holder
  <2>2. QED
    BY <1>2, <2>1, SlotKept DEF Pick
<1>3. CASE Paced(t)
  <2>1. /\ Moves(t) /\ pc'[t] = "claim" /\ kind'[t] = "event"
    BY <1>3, GotoSlot DEF Paced, Points, SlotInv
  <2>2. QED
    BY <1>3, <2>1, SlotKept DEF Paced, KindFits, HasSlot
<1>4. CASE Claim(t)
  <2>1. CASE End(t)
    BY <1>4, <2>1, EndSlot, SlotKept DEF Claim
  <2>2. CASE Goto(t, "call") /\ UNCHANGED <<lead, kind, forced>>
    <3>1. /\ Moves(t) /\ pc'[t] = "call" /\ kind'[t] = "event"
      BY <1>4, <2>2, GotoSlot DEF Claim, Points, SlotInv
    <3>2. QED
      BY <1>4, <3>1, SlotKept DEF Claim, KindFits, HasSlot
  <2>3. QED
    BY <1>4, <2>1, <2>2 DEF Claim
<1>5. QED
  BY <1>1, <1>2, <1>3, <1>4 DEF LegacyStep

LEMMA SlackSlots ==
    ASSUME TypeOK, SlotInv, NEW t \in Tick, SlackStep(t)
    PROVE  SlotInv'
<1> USE DEF db, hist
<1>1. CASE Rejected(t) \/ Ambiguous(t) \/ MarkSurfaced(t) \/ BookkeepingFails(t)
  BY <1>1, EndSlot, SlotKept DEF Rejected, Ambiguous, MarkSurfaced,
     BookkeepingFails
<1>2. CASE Lands(t)
  <2>1. /\ Moves(t) /\ pc'[t] = "landed" /\ kind'[t] = kind[t]
        /\ lead'[t] = lead[t]
    BY <1>2, GotoSlot DEF Lands, Points
  <2>2. slot' = slot /\ today' = today \cup {<<lead[t], kind[t]>>}
        /\ pc[t] = "call"
    BY <1>2 DEF Lands, Mine
  <2>3. HasSlot(t) = (kind[t] = "award") /\ HasSlot(t)' = HasSlot(t)
    BY <2>1, <2>2 DEF HasSlot, Holder
  <2>4. ASSUME NEW k \in today', k[2] = "award"
        PROVE  slot' = k[1] /\ (k \in today \/ HasSlot(t))
    <3>1. CASE k \in today
      BY <2>2, <2>4, <3>1 DEF SlotInv
    <3>2. CASE k = <<lead[t], kind[t]>>
      BY <2>2, <2>3, <2>4, <3>2 DEF SlotInv
    <3>3. QED
      BY <2>2, <2>4, <3>1, <3>2
  <2>5. /\ \A k \in AwardsToday' : slot' = k[1]
        /\ AwardsToday' \subseteq AwardsToday \/ HasSlot(t)
    BY <2>4 DEF AwardsToday
  <2>6. HasSlot(t)' => slot' = lead'[t]
    BY <2>1, <2>2, <2>3 DEF SlotInv
  <2>7. QED
    BY <2>1, <2>2, <2>3, <2>5, <2>6, SlotStep DEF KindFits
<1>3. CASE Refused(t)
  <2>1. /\ Moves(t) /\ pc'[t] = "refused" /\ kind'[t] = kind[t]
        /\ lead'[t] = lead[t]
    BY <1>3, GotoSlot DEF Refused, Points
  <2>2. QED
    BY <1>3, <2>1, SlotKept DEF Refused, KindFits, HasSlot, Holder
<1>4. ASSUME NEW guard \in BOOLEAN, SettleRefusal(t, guard)
      PROVE  SlotInv'
  <2>1. CASE kind[t] = "award"
    BY <1>4, <2>1, SlotReleased DEF SettleRefusal, HasSlot
  <2>2. CASE kind[t] # "award"
    BY <1>4, <2>2, EndSlot, SlotKept DEF SettleRefusal
  <2>3. QED
    BY <2>1, <2>2
<1>5. CASE RecordPost(t) \/ FinishDelivered(t)
  <2>1. /\ Moves(t) /\ pc'[t] \in {"posted", "finished"}
        /\ kind'[t] = kind[t] /\ lead'[t] = lead[t]
        /\ pc[t] \in {"landed", "posted"}
    BY <1>5, GotoSlot DEF RecordPost, FinishDelivered, Points
  <2>2. QED
    BY <1>5, <2>1, SlotKept DEF RecordPost, FinishDelivered, KindFits, HasSlot,
       Holder
<1>6. QED
  BY <1>1, <1>2, <1>3, <1>4, <1>5 DEF SlackStep

LEMMA NextSlots == TypeOK /\ SlotInv /\ [Next]_vars => SlotInv'
<1> SUFFICES ASSUME TypeOK, SlotInv, [Next]_vars
             PROVE  SlotInv'
  OBVIOUS
<1> USE DEF db, tick, hist
<1>1. ASSUME NEW t \in Tick, NEW f \in Forcing, Start(t, f)
      PROVE  SlotInv'
  <2>1. Moves(t) /\ pc'[t] \in {"gate", "legacy"}
    BY <1>1, GotoSlot DEF Start, Points
  <2>2. QED
    BY <1>1, <2>1, SlotKept DEF Start, KindFits, HasSlot, Holder
<1>2. ASSUME NEW t \in Tick, Crash(t) \/ RenderFailsAndDies(t)
      PROVE  SlotInv'
  BY <1>2, EndSlot, SlotKept DEF Crash, RenderFailsAndDies
<1>3. CASE Midnight
  <2>1. \A u \in Tick : pc'[u] = "idle"
    BY <1>3 DEF Midnight, AllIdle
  <2>2. today' = {}
    BY <1>3 DEF Midnight
  <2>3. QED
    BY <2>1, <2>2 DEF SlotInv, HasSlot, Holder
<1>4. CASE (\E l \in Lead : RepClaims(l)) \/ HoldExpires \/ NextPhase
           \/ UNCHANGED vars
  <2>1. UNCHANGED <<slot, today, tick>>
    BY <1>4 DEF RepClaims, HoldExpires, NextPhase, vars
  <2>2. QED
    BY <2>1 DEF SlotInv, HasSlot, Holder
<1>5. QED
  BY <1>1, <1>2, <1>3, <1>4, RichSlots, LegacySlots, SlackSlots
     DEF Next, Step, Environment

THEOREM SlotsCorrect == Spec => []SlotInv
<1>1. Init => SlotInv
  BY DEF Init, SlotInv, HasSlot, Holder
<1>2. QED
  BY <1>1, NextSlots, TypeCorrect, PTL DEF Spec

(***************************************************************************)
(* However ticks overlap and die, a delivery key reaches the channel at    *)
(* most once, and one rich card a day at most.                             *)
(***************************************************************************)
THEOREM AtMostOnce == Spec => []AtMostOncePerKey
<1>1. TypeOK /\ RowInv /\ SlotInv => AtMostOncePerKey
  <2> SUFFICES ASSUME TypeOK, RowInv, SlotInv
               PROVE  AtMostOncePerKey
    OBVIOUS
  <2>1. {k \in today : k[2] = "award"} \subseteq {<<slot, "award">>}
    BY DEF TypeOK, SlotInv, Key
  <2>2. Cardinality({k \in today : k[2] = "award"}) <= 1
    <3>1. IsFiniteSet({<<slot, "award">>})
          /\ Cardinality({<<slot, "award">>}) = 1
      BY FS_Singleton
    <3>2. QED
      BY <2>1, <3>1, FS_Subset
  <2>3. QED
    BY <2>2 DEF AtMostOncePerKey, RowInv, LandingsSound
<1>2. QED
  BY <1>1, RowsCorrect, SlotsCorrect, PTL

---------------------------------------------------------------------------
(***************************************************************************)
(* What holds as long as ticks do not overlap.  Nothing in the code keeps  *)
(* them apart, and these two properties fail when they overlap: what a     *)
(* tick read of the leads and of the budget may then be stale when it      *)
(* sends.                                                                  *)
(***************************************************************************)
Serial == \A t, u \in Tick : pc[t] # "idle" /\ pc[u] # "idle" => t = u

\* A step of one tick at most moves that tick, and leaves the landings and
\* the lead it chose alone, unless it just found that lead fresh.
LEMMA LeadKept ==
    ASSUME TypeOK, RowInv, LeadInv, NEW t \in Tick, Moves(t),
           landed' = landed,
           Choosing(t)' => \/ Choosing(t) /\ lead'[t] = lead[t]
                           \/ Fresh(lead'[t])
    PROVE  LeadInv'
<1>1. \A l \in Lead : Fresh(l) => \A k \in Key : k[1] = l => landed[k] = 0
  BY DEF Fresh, RowInv, LandedIsRemembered, TypeOK
<1>2. \A k \in Key : k[1] \in Lead
  BY DEF Key
<1>3. ASSUME NEW u \in Tick, Choosing(u)', NEW k \in Key, k[1] = lead'[u]
      PROVE  landed[k] = 0
  <2>1. CASE u = t
    BY <1>1, <1>2, <1>3, <2>1 DEF LeadInv
  <2>2. CASE u # t
    BY <1>3, <2>2 DEF LeadInv, Moves, Choosing
  <2>3. QED
    BY <2>1, <2>2
<1>4. QED
  BY <1>3 DEF LeadInv, NoLeadTwice

\* The first landing of a lead: it is the only tick at work.
LEMMA LeadLands ==
    ASSUME TypeOK, LeadInv, Serial, NEW t \in Tick, Lands(t)
    PROVE  LeadInv'
<1>1. \A u \in Tick : ~Choosing(u)'
  BY DEF Lands, Goto, TypeOK, Serial, Choosing
<1>2. lead[t] \in Lead /\ Mine(t) \in Key
  BY MineIsKey DEF TypeOK, Lands
<1>3. \A k \in Key : k[1] = lead[t] => landed[k] = 0
  BY DEF LeadInv, Choosing, Lands
<1>4. \A k \in Key : landed'[k] = IF k = Mine(t) THEN landed[k] + 1 ELSE landed[k]
  BY DEF Lands, TypeOK
<1>5. ASSUME NEW l \in Lead
      PROVE  landed'[<<l, "award">>] + landed'[<<l, "event">>] <= 1
  <2>1. /\ <<l, "award">> \in Key /\ <<l, "event">> \in Key
        /\ <<l, "award">>[1] = l /\ <<l, "event">>[1] = l
        /\ <<l, "award">> # <<l, "event">>
    BY DEF Key
  <2>2. CASE l = lead[t]
    BY <1>3, <1>4, <2>1, <2>2
  <2>3. CASE l # lead[t]
    <3>1. <<l, "award">> # Mine(t) /\ <<l, "event">> # Mine(t)
      BY <2>3 DEF Mine
    <3>2. QED
      BY <1>4, <2>1, <3>1 DEF LeadInv, NoLeadTwice
  <2>4. QED
    BY <2>2, <2>3
<1>6. QED
  BY <1>1, <1>5 DEF LeadInv, NoLeadTwice

LEMMA EndLead ==
    ASSUME TypeOK, NEW t \in Tick, End(t) \/ Fallback(t)
    PROVE  Moves(t) /\ ~Choosing(t)'
BY DEF TypeOK, End, Fallback, Goto, Moves, Choosing

LEMMA ChooseLead ==
    ASSUME TypeOK, NEW t \in Tick, NEW l \in Lead,
           NEW k \in {"award", "event"}, NEW p \in Points, Choose(t, l, k, p)
    PROVE  /\ Moves(t) /\ lead'[t] = l /\ kind'[t] = k /\ pc'[t] = p
BY DEF TypeOK, Choose, Goto, Moves

LEMMA NextLeads ==
    TypeOK /\ RowInv /\ LeadInv /\ Serial /\ [Next]_vars => LeadInv'
<1> SUFFICES ASSUME TypeOK, RowInv, LeadInv, Serial, [Next]_vars
             PROVE  LeadInv'
  OBVIOUS
<1> USE DEF db, tick, hist
<1>1. ASSUME NEW t \in Tick, End(t) \/ Fallback(t), landed' = landed
      PROVE  LeadInv'
  BY <1>1, EndLead, LeadKept
<1>2. ASSUME NEW t \in Tick, NEW p \in Points, Goto(t, p),
             UNCHANGED <<lead, kind, landed>>,
             Choosing(t) \/ p \in {"gate", "legacy", "review", "refused",
                                   "posted", "finished"}
      PROVE  LeadInv'
  BY <1>2, GotoSlot, LeadKept DEF Choosing
<1>3. ASSUME NEW t \in Tick, NEW f \in Forcing, Start(t, f)
      PROVE  LeadInv'
  BY <1>2, <1>3 DEF Start, Points
<1>4. ASSUME NEW t \in Tick, Crash(t) \/ RenderFailsAndDies(t)
      PROVE  LeadInv'
  BY <1>1, <1>4 DEF Crash, RenderFailsAndDies
<1>5. ASSUME NEW t \in Tick, RichStep(t)
      PROVE  LeadInv'
  <2>1. CASE RichGateHolds(t) \/ RichGateMissed(t) \/ Vetoed(t)
             \/ RenderFails(t) \/ SlotRefused(t) \/ AlreadyReserved(t)
    BY <1>1, <2>1 DEF RichGateHolds, RichGateMissed, Vetoed, RenderFails,
       SlotRefused, AlreadyReserved
  <2>2. CASE RichGateOpens(t) \/ Freeze(t) \/ ReserveSlot(t) \/ Reserve(t)
    BY <1>2, <2>2 DEF RichGateOpens, Freeze, NotVetoed, ReserveSlot, Reserve,
       Points, Choosing
  <2>3. CASE Review(t)
    <3>1. CASE Fallback(t)
      BY <1>1, <2>3, <3>1 DEF Review
    <3>2. ASSUME NEW l \in Lead, Fresh(l), Choose(t, l, "award", "freeze")
          PROVE  LeadInv'
      BY <2>3, <3>2, ChooseLead, LeadKept DEF Review, Points
    <3>3. QED
      BY <2>3, <3>1, <3>2 DEF Review
  <2>4. QED
    BY <1>5, <2>1, <2>2, <2>3 DEF RichStep
<1>6. ASSUME NEW t \in Tick, LegacyStep(t)
      PROVE  LeadInv'
  <2>1. CASE NothingToPick(t) \/ HeldBack(t) \/ BuildFails(t)
    BY <1>1, <2>1 DEF NothingToPick, HeldBack, BuildFails
  <2>2. CASE Paced(t) \/ Claim(t)
    BY <1>1, <1>2, <2>2 DEF Paced, Claim, Points, Choosing
  <2>3. CASE Pick(t)
    <3>1. PICK l \in Lead : Fresh(l) /\ Choose(t, l, "event", "pace")
      BY <2>3 DEF Pick
    <3>2. QED
      BY <2>3, <3>1, ChooseLead, LeadKept DEF Pick, Points
  <2>4. QED
    BY <1>6, <2>1, <2>2, <2>3 DEF LegacyStep
<1>7. ASSUME NEW t \in Tick, SlackStep(t)
      PROVE  LeadInv'
  <2>1. ASSUME NEW guard \in BOOLEAN, SettleRefusal(t, guard)
        PROVE  LeadInv'
    BY <1>1, <2>1 DEF SettleRefusal
  <2>2. CASE Rejected(t) \/ Ambiguous(t) \/ MarkSurfaced(t) \/ BookkeepingFails(t)
    BY <1>1, <2>2 DEF Rejected, Ambiguous, MarkSurfaced, BookkeepingFails
  <2>3. CASE Refused(t) \/ RecordPost(t) \/ FinishDelivered(t)
    BY <1>2, <2>3 DEF Refused, RecordPost, FinishDelivered, Points
  <2>4. QED
    BY <1>7, <2>1, <2>2, <2>3, LeadLands DEF SlackStep
<1>8. CASE Environment \/ UNCHANGED vars
  <2>1. UNCHANGED <<tick, landed>>
    BY <1>8 DEF Environment, RepClaims, HoldExpires, NextPhase, Midnight, vars
  <2>2. QED
    BY <2>1 DEF LeadInv, NoLeadTwice, Choosing
<1>9. QED
  BY <1>3, <1>4, <1>5, <1>6, <1>7, <1>8 DEF Next, Step

(***************************************************************************)
(* While ticks do not overlap a lead is shown once, although the rich and  *)
(* the legacy card reserve it under different keys.                        *)
(***************************************************************************)
THEOREM ShownOnce == Spec /\ []Serial => []NoLeadTwice
<1>1. Init => LeadInv
  <2>1. \A l \in Lead : <<l, "award">> \in Key /\ <<l, "event">> \in Key
    BY DEF Key
  <2>2. QED
    BY <2>1 DEF Init, LeadInv, NoLeadTwice, Choosing
<1>2. LeadInv => NoLeadTwice
  BY DEF LeadInv
<1>3. QED
  BY <1>1, <1>2, NextLeads, RowsCorrect, PTL DEF Spec

---------------------------------------------------------------------------
(***************************************************************************)
(* The day's budget.  What landed today is among the attempts of today     *)
(* that the pacing counts, so a count below a cap leaves room for one.     *)
(***************************************************************************)
LEMMA KeysFinite == IsFiniteSet(Key)
<1>1. {"award", "event"} = {"award"} \cup {"event"}
  OBVIOUS
<1>2. IsFiniteSet({"award"})
  BY FS_Singleton
<1>3. IsFiniteSet({"award"} \cup {"event"})
  BY ONLY <1>2, FS_AddElement
<1>4. IsFiniteSet(Lead) /\ IsFiniteSet({"award", "event"})
  BY <1>1, <1>3, DeliveryAssumption
<1>5. QED
  BY <1>4, FS_Product DEF Key

LEMMA CountBounds ==
    ASSUME TypeOK, RowInv, \A k \in today : Today(k)
    PROVE  /\ IsFiniteSet(today) /\ Cardinality(today) \in Nat
           /\ Count \in Nat /\ Cardinality(today) <= Count
<1>1. today \subseteq delivery_attempts_today
  BY DEF delivery_attempts_today, TypeOK, RowInv, LandingsSound,
     LandedIsRemembered
<1>2. /\ IsFiniteSet(delivery_attempts_today)
      /\ IsFiniteSet(posts_today)
  BY KeysFinite, FS_Subset DEF delivery_attempts_today, posts_today, TypeOK
<1>3. /\ Cardinality(delivery_attempts_today) \in Nat
      /\ Cardinality(posts_today) \in Nat
      /\ IsFiniteSet(today) /\ Cardinality(today) \in Nat
      /\ Cardinality(today) <= Cardinality(delivery_attempts_today)
  BY <1>1, <1>2, FS_Subset, FS_CardinalityType
<1>4. QED
  BY <1>3 DEF Count, Larger

\* The part of the invariant that speaks of one tick.
InBudgetOf(t) ==
    /\ pc[t] \in {"call", "landed", "posted", "finished"} => Today(Mine(t))
    /\ RichChoice(t) => today = {}
    /\ LegacyChoice(t) =>
          /\ Cardinality(today) < AbsoluteCap
          /\ Cardinality(today) >= DailyCap => lead[t] \in Exceptional

\* One tick moves and the others are idle: its own part is all there is.
LEMMA BudgetStep ==
    ASSUME TypeOK, BudgetInv, NEW t \in Tick, Moves(t),
           \A u \in Tick : u # t => pc[u] = "idle",
           today' = today, \A k \in today : Today(k)', InBudgetOf(t)'
    PROVE  BudgetInv'
<1>1. \A u \in Tick : u # t => pc'[u] = "idle"
  BY DEF Moves
<1>2. \A u \in Tick : InBudgetOf(u)'
  BY <1>1 DEF InBudgetOf, RichChoice, LegacyChoice
<1>3. DailyBudget'
  BY DEF BudgetInv, DailyBudget
<1>4. QED
  BY <1>2, <1>3 DEF BudgetInv, InBudgetOf

LEMMA EndBudget ==
    ASSUME TypeOK, BudgetInv, NEW t \in Tick, End(t) \/ Fallback(t),
           \A u \in Tick : u # t => pc[u] = "idle",
           today' = today, \A k \in today : Today(k)'
    PROVE  BudgetInv'
<1>1. Moves(t) /\ InBudgetOf(t)'
  BY DEF TypeOK, End, Fallback, Goto, Moves, InBudgetOf, RichChoice, LegacyChoice
<1>2. QED
  BY <1>1, BudgetStep

\* A landing finds room: an empty day for the award, the day's card or an
\* exceptional lead for the event.
LEMMA BudgetLands ==
    ASSUME TypeOK, RowInv, SlotInv, BudgetInv, NEW t \in Tick, Lands(t),
           \A u \in Tick : u # t => pc[u] = "idle"
    PROVE  BudgetInv'
<1> USE DEF db, hist
<1>1. /\ Moves(t) /\ pc'[t] = "landed" /\ lead'[t] = lead[t] /\ kind'[t] = kind[t]
  BY GotoSlot DEF Lands, Points
<1>2. lead[t] \in Lead /\ Mine(t) \in Key /\ kind[t] \in {"award", "event"}
  BY MineIsKey DEF TypeOK, Lands
<1>3. today' = today \cup {Mine(t)} /\ outbox' = outbox /\ pc[t] = "call"
  BY DEF Lands
<1>4. IsFiniteSet(today) /\ Cardinality(today) \in Nat
  BY CountBounds DEF BudgetInv
<1>5. Cardinality(today') <= Cardinality(today) + 1 /\ Cardinality(today') \in Nat
  <2>1. CASE Mine(t) \in today
    <3>1. today' = today
      BY <1>3, <2>1
    <3>2. QED
      BY <1>4, <3>1
  <2>2. CASE Mine(t) \notin today
    <3>1. Cardinality(today \cup {Mine(t)}) = Cardinality(today) + 1
      BY <1>4, <2>2, FS_AddElement
    <3>2. QED
      BY <1>3, <1>4, <3>1
  <2>3. QED
    BY <2>1, <2>2
<1>6. Today(Mine(t)) /\ \A k \in today' : Today(k)'
  BY <1>3 DEF BudgetInv, Today
<1>7. \A u \in Tick : InBudgetOf(u)'
  <2>1. Mine(t)' = Mine(t) /\ Today(Mine(t))'
    BY <1>1, <1>3, <1>6 DEF Mine, Today
  <2>2. \A u \in Tick : u # t => pc'[u] = "idle"
    BY <1>1 DEF Moves
  <2>3. QED
    BY <1>1, <2>1, <2>2 DEF InBudgetOf, RichChoice, LegacyChoice, Today
<1>8. DailyBudget'
  <2>1. CASE kind[t] = "award"
    <3>1. Cardinality(today) = 0
      BY <1>3, <2>1, FS_EmptySet DEF BudgetInv, RichChoice
    <3>2. QED
      BY <1>5, <3>1, DeliveryAssumption DEF DailyBudget
  <2>2. CASE kind[t] = "event"
    <3>1. /\ Cardinality(today) < AbsoluteCap
          /\ Cardinality(today) >= DailyCap => lead[t] \in Exceptional
      BY <1>3, <2>2 DEF BudgetInv, LegacyChoice
    <3>2. Mine(t) \in today' /\ Mine(t)[2] = "event" /\ Mine(t)[1] = lead[t]
      BY <1>3, <2>2 DEF Mine
    <3>3. Cardinality(today') <= AbsoluteCap
      BY <1>4, <1>5, <3>1, DeliveryAssumption
    <3>4. Cardinality(today') > DailyCap =>
             \E k \in today' : k[2] = "event" /\ k[1] \in Exceptional
      BY <1>4, <1>5, <3>1, <3>2, DeliveryAssumption
    <3>5. QED
      BY <3>3, <3>4 DEF DailyBudget
  <2>3. QED
    BY <1>2, <2>1, <2>2
<1>9. QED
  BY <1>6, <1>7, <1>8 DEF BudgetInv, InBudgetOf

\* The rows that landed today stay today's through the writes of a tick.
LEMMA AgesKept ==
    ASSUME TypeOK, RowInv, BudgetInv, NEW t \in Tick, lead[t] \in Lead
    PROVE  /\ \A s \in RowStates : Finish(t, s) =>
                (\A k \in Key : Today(k)' = Today(k))
           /\ Quarantine(t)
                \/ outbox' = [outbox EXCEPT ![Mine(t)] = Row("sending")] =>
                /\ \A k \in Key : Today(k) => Today(k)'
                /\ outbox' = [outbox EXCEPT ![Mine(t)] = Row("sending")] =>
                      outbox'[Mine(t)].age = "today"
           /\ ReleaseRow(t) /\ pc[t] = "call" => \A k \in today : Today(k)'
<1>1. Mine(t) \in Key
  BY MineIsKey
<1> DEFINE Rows == [state : RowStates, age : {"today", "past"}]
<1>2. outbox \in [Key -> Rows] /\ outbox[Mine(t)] \in Rows
  BY <1>1 DEF TypeOK
<1>3. \A s \in RowStates :
         [outbox[Mine(t)] EXCEPT !.state = s].age = outbox[Mine(t)].age
  BY <1>2
<1>4. \A s \in RowStates : Row(s).age = "today"
  BY DEF Row
<1>5. pc[t] = "call" => Mine(t) \notin today
  BY DEF RowInv, LandingsSound
<1>6. today \subseteq Key /\ \A k \in today : Today(k)
  BY DEF TypeOK, BudgetInv
<1> HIDE DEF Rows
<1>7. ASSUME NEW s \in RowStates, Finish(t, s)
      PROVE  \A k \in Key : Today(k)' = Today(k)
  BY <1>1, <1>2, <1>3, <1>7 DEF Finish, Today
<1>8. Quarantine(t) \/ outbox' = [outbox EXCEPT ![Mine(t)] = Row("sending")]
      => \A k \in Key : Today(k) => Today(k)'
  BY <1>1, <1>2, <1>4 DEF Quarantine, Today, RowStates
<1>9. outbox' = [outbox EXCEPT ![Mine(t)] = Row("sending")] =>
         outbox'[Mine(t)].age = "today"
  BY <1>1, <1>2, <1>4 DEF RowStates
<1>10. ReleaseRow(t) /\ pc[t] = "call" => \A k \in today : Today(k)'
  BY <1>1, <1>2, <1>5, <1>6 DEF ReleaseRow, Today
<1>11. QED
  BY <1>7, <1>8, <1>9, <1>10

LEMMA GoesOnBudget ==
    ASSUME TypeOK, BudgetInv, NEW t \in Tick, NEW p \in Points, Goto(t, p),
           UNCHANGED <<lead, kind, outbox, today>>,
           \A u \in Tick : u # t => pc[u] = "idle",
           \/ p \in {"gate", "legacy", "refused"}
           \/ p \in {"slot", "reserve"} /\ RichChoice(t)
           \/ p = "posted" /\ pc[t] = "landed"
    PROVE  BudgetInv'
<1>1. Moves(t) /\ pc'[t] = p /\ lead'[t] = lead[t] /\ kind'[t] = kind[t]
  BY GotoSlot
<1>2. InBudgetOf(t)'
  BY <1>1 DEF BudgetInv, InBudgetOf, RichChoice, LegacyChoice, Today, Mine
<1>3. \A k \in today : Today(k)'
  BY DEF BudgetInv, Today
<1>4. QED
  BY <1>1, <1>2, <1>3, BudgetStep

\* A tick that reserves its row with the budget it found.
LEMMA BudgetClaims ==
    ASSUME TypeOK, RowInv, BudgetInv, NEW t \in Tick, Goto(t, "call"),
           lead[t] \in Lead, UNCHANGED <<lead, kind, today>>,
           outbox' = [outbox EXCEPT ![Mine(t)] = Row("sending")],
           \A u \in Tick : u # t => pc[u] = "idle",
           \/ pc[t] = "reserve"
           \/ pc[t] = "claim" /\ kind[t] = "event"
    PROVE  BudgetInv'
<1>1. Moves(t) /\ pc'[t] = "call" /\ lead'[t] = lead[t] /\ kind'[t] = kind[t]
  BY GotoSlot DEF Points
<1>2. (\A k \in today : Today(k)') /\ outbox'[Mine(t)].age = "today"
  BY AgesKept DEF BudgetInv, TypeOK
<1>3. Cardinality({}) = 0
  BY FS_EmptySet
<1>4. InBudgetOf(t)'
  <2>1. Today(Mine(t))'
    BY <1>1, <1>2 DEF Today, Mine
  <2>2. CASE pc[t] = "reserve"
    <3>1. today' = {}
      BY <2>2 DEF BudgetInv, RichChoice
    <3>2. QED
      BY <1>1, <1>3, <2>1, <3>1, DeliveryAssumption
         DEF InBudgetOf, RichChoice, LegacyChoice
  <2>3. CASE pc[t] = "claim" /\ kind[t] = "event"
    BY <1>1, <2>1, <2>3 DEF BudgetInv, InBudgetOf, RichChoice, LegacyChoice
  <2>4. QED
    BY <2>2, <2>3
<1>5. QED
  BY <1>1, <1>2, <1>4, BudgetStep

\* A choice of a lead: nothing is claimed of the budget by an event yet.
LEMMA BudgetChoice ==
    ASSUME TypeOK, BudgetInv, NEW t \in Tick, NEW l \in Lead,
           \/ Choose(t, l, "award", "freeze") /\ RichChoice(t)
           \/ Choose(t, l, "event", "pace"),
           UNCHANGED <<outbox, today>>,
           \A u \in Tick : u # t => pc[u] = "idle"
    PROVE  BudgetInv'
<1>1. Moves(t) /\ pc'[t] \in {"freeze", "pace"} /\ (pc'[t] = "freeze" => RichChoice(t))
  BY ChooseLead DEF Points
<1>2. InBudgetOf(t)'
  BY <1>1 DEF BudgetInv, InBudgetOf, RichChoice, LegacyChoice
<1>3. \A k \in today : Today(k)'
  BY DEF BudgetInv, Today
<1>4. QED
  BY <1>1, <1>2, <1>3, BudgetStep

LEMMA RichBudget ==
    ASSUME TypeOK, RowInv, BudgetInv, NEW t \in Tick, RichStep(t),
           \A u \in Tick : u # t => pc[u] = "idle"
    PROVE  BudgetInv'
<1> USE DEF db, hist
<1>1. CASE RichGateHolds(t) \/ RichGateMissed(t) \/ Vetoed(t)
           \/ SlotRefused(t) \/ AlreadyReserved(t)
  <2>1. UNCHANGED <<outbox, today>>
    BY <1>1 DEF RichGateHolds, RichGateMissed, Vetoed, SlotRefused,
       AlreadyReserved
  <2>2. \A k \in today : Today(k)'
    BY <2>1 DEF BudgetInv, Today
  <2>3. QED
    BY <1>1, <2>1, <2>2, EndBudget DEF RichGateHolds, RichGateMissed, Vetoed,
       SlotRefused, AlreadyReserved
<1>2. CASE RichGateOpens(t)
  <2>1. Moves(t) /\ pc'[t] = "review"
    BY <1>2, GotoSlot DEF RichGateOpens, Points
  <2>2. today = {} /\ today' = today /\ outbox' = outbox
    <3>1. Cardinality(today) = 0 /\ IsFiniteSet(today)
      BY <1>2, CountBounds DEF BudgetInv, RichGateOpens, RichCapped
    <3>2. QED
      BY <1>2, <3>1, FS_EmptySet DEF RichGateOpens
  <2>3. InBudgetOf(t)'
    BY <2>1, <2>2 DEF InBudgetOf, RichChoice, LegacyChoice
  <2>4. QED
    BY <2>1, <2>2, <2>3, BudgetStep
<1>3. CASE Review(t)
  <2>1. CASE Fallback(t)
    <3>1. \A k \in today : Today(k)'
      BY <1>3 DEF Review, BudgetInv, Today
    <3>2. QED
      BY <1>3, <2>1, <3>1, EndBudget DEF Review
  <2>2. ASSUME NEW l \in Lead, Choose(t, l, "award", "freeze")
        PROVE  BudgetInv'
    BY <1>3, <2>2, BudgetChoice DEF Review, RichChoice
  <2>3. QED
    BY <1>3, <2>1, <2>2 DEF Review
<1>4. CASE Freeze(t) \/ ReserveSlot(t)
  BY <1>4, GoesOnBudget DEF Freeze, NotVetoed, ReserveSlot, RichChoice, Points
<1>5. CASE RenderFails(t)
  <2>1. lead[t] \in Lead /\ today' = today
    BY <1>5 DEF TypeOK, RenderFails, NotVetoed
  <2>2. \A k \in today : Today(k)'
    BY <1>5, <2>1, AgesKept DEF RenderFails, BudgetInv, TypeOK
  <2>3. QED
    BY <1>5, <2>1, <2>2, EndBudget DEF RenderFails
<1>6. CASE Reserve(t)
  BY <1>6, BudgetClaims DEF Reserve, TypeOK
<1>7. QED
  BY <1>1, <1>2, <1>3, <1>4, <1>5, <1>6 DEF RichStep

LEMMA LegacyBudget ==
    ASSUME TypeOK, RowInv, SlotInv, BudgetInv, NEW t \in Tick, LegacyStep(t),
           \A u \in Tick : u # t => pc[u] = "idle"
    PROVE  BudgetInv'
<1> USE DEF db, hist
<1>1. CASE NothingToPick(t) \/ HeldBack(t)
  <2>1. UNCHANGED <<outbox, today>> /\ End(t)
    BY <1>1 DEF NothingToPick, HeldBack
  <2>2. \A k \in today : Today(k)'
    BY <2>1 DEF BudgetInv, Today
  <2>3. QED
    BY <2>1, <2>2, EndBudget
<1>2. CASE Pick(t)
  <2>1. PICK l \in Lead : Choose(t, l, "event", "pace")
    BY <1>2 DEF Pick
  <2>2. QED
    BY <1>2, <2>1, BudgetChoice DEF Pick
<1>3. CASE Paced(t)
  <2>1. /\ Moves(t) /\ pc'[t] = "claim" /\ lead'[t] = lead[t]
        /\ today' = today /\ outbox' = outbox
    BY <1>3, GotoSlot DEF Paced, Points
  <2>2. /\ Cardinality(today) \in Nat /\ Count \in Nat
        /\ Cardinality(today) <= Count
    BY CountBounds DEF BudgetInv
  <2>3. /\ Cardinality(today) < AbsoluteCap
        /\ Cardinality(today) >= DailyCap => lead[t] \in Exceptional
    BY <1>3, <2>2, DeliveryAssumption DEF Paced, InBudget
  <2>4. InBudgetOf(t)' /\ \A k \in today : Today(k)'
    BY <2>1, <2>3 DEF InBudgetOf, RichChoice, LegacyChoice, BudgetInv, Today
  <2>5. QED
    BY <2>1, <2>4, BudgetStep
<1>4. CASE BuildFails(t)
  <2>1. lead[t] \in Lead /\ today' = today
    BY <1>4 DEF TypeOK, BuildFails
  <2>2. \A k \in today : Today(k)'
    BY <1>4, <2>1, AgesKept DEF BuildFails, BudgetInv, TypeOK
  <2>3. QED
    BY <1>4, <2>1, <2>2, EndBudget DEF BuildFails
<1>5. CASE Claim(t)
  <2>1. CASE End(t) /\ UNCHANGED outbox
    <3>1. today' = today /\ \A k \in today : Today(k)'
      BY <1>5, <2>1 DEF Claim, BudgetInv, Today
    <3>2. QED
      BY <2>1, <3>1, EndBudget
  <2>2. CASE /\ outbox' = [outbox EXCEPT ![Mine(t)] = Row("sending")]
             /\ Goto(t, "call") /\ UNCHANGED <<lead, kind, forced>>
    <3>1. lead[t] \in Lead /\ kind[t] = "event"
      BY <1>5 DEF Claim, TypeOK, SlotInv
    <3>2. QED
      BY <1>5, <2>2, <3>1, BudgetClaims DEF Claim
  <2>3. QED
    BY <1>5, <2>1, <2>2 DEF Claim
<1>6. QED
  BY <1>1, <1>2, <1>3, <1>4, <1>5 DEF LegacyStep

LEMMA SlackBudget ==
    ASSUME TypeOK, RowInv, SlotInv, BudgetInv, NEW t \in Tick, SlackStep(t),
           \A u \in Tick : u # t => pc[u] = "idle"
    PROVE  BudgetInv'
<1> USE DEF db, hist
<1>1. \A s \in RowStates : Holder(t) /\ Finish(t, s) =>
         /\ \A k \in Key : Today(k)' = Today(k)
         /\ \A k \in today : Today(k)'
  BY AgesKept DEF Holder, TypeOK, BudgetInv
<1>2. outbox' = outbox => \A k \in today : Today(k)'
  BY DEF BudgetInv, Today
<1>3. CASE Refused(t)
  <2>1. /\ Moves(t) /\ pc'[t] = "refused" /\ today' = today
    BY <1>3, GotoSlot DEF Refused, Points
  <2>2. \A k \in today : Today(k)'
    BY <1>3, AgesKept DEF Refused, TypeOK
  <2>3. InBudgetOf(t)'
    BY <2>1 DEF InBudgetOf, RichChoice, LegacyChoice
  <2>4. QED
    BY <2>1, <2>2, <2>3, BudgetStep
<1>4. ASSUME NEW guard \in BOOLEAN, SettleRefusal(t, guard)
      PROVE  BudgetInv'
  BY <1>2, <1>4, EndBudget DEF SettleRefusal
<1>5. CASE Rejected(t) \/ Ambiguous(t)
  <2>1. \A k \in today : Today(k)'
    BY <1>1, <1>5 DEF Rejected, Ambiguous, Holder, RowStates
  <2>2. QED
    BY <1>5, <2>1, EndBudget DEF Rejected, Ambiguous
<1>6. CASE RecordPost(t)
  BY <1>6, GoesOnBudget DEF RecordPost, Points
<1>7. CASE FinishDelivered(t)
  <2>1. /\ Moves(t) /\ pc'[t] = "finished" /\ Mine(t)' = Mine(t)
        /\ today' = today /\ Mine(t) \in Key
    BY <1>7, GotoMoves, MineIsKey DEF FinishDelivered, Points, TypeOK
  <2>2. \A k \in Key : Today(k)' = Today(k)
    BY <1>1, <1>7 DEF FinishDelivered, Holder, RowStates
  <2>3. Today(Mine(t))' /\ \A k \in today : Today(k)'
    BY <1>7, <2>1, <2>2 DEF FinishDelivered, BudgetInv, TypeOK, Today
  <2>4. InBudgetOf(t)'
    BY <2>1, <2>3 DEF InBudgetOf, RichChoice, LegacyChoice
  <2>5. QED
    BY <2>1, <2>3, <2>4, BudgetStep
<1>8. CASE MarkSurfaced(t)
  BY <1>2, <1>8, EndBudget DEF MarkSurfaced
<1>9. CASE BookkeepingFails(t)
  <2>1. \A k \in today : Today(k)'
    BY <1>1, <1>2, <1>9 DEF BookkeepingFails, Holder, RowStates
  <2>2. QED
    BY <1>9, <2>1, EndBudget DEF BookkeepingFails
<1>10. QED
  BY <1>3, <1>4, <1>5, <1>6, <1>7, <1>8, <1>9, BudgetLands DEF SlackStep

LEMMA NextBudget ==
    TypeOK /\ RowInv /\ SlotInv /\ BudgetInv /\ Serial /\ Serial' /\ [Next]_vars
    => BudgetInv'
<1> SUFFICES ASSUME TypeOK, RowInv, SlotInv, BudgetInv, Serial, Serial',
                    [Next]_vars
             PROVE  BudgetInv'
  OBVIOUS
<1> USE DEF db, tick, hist
<1>1. ASSUME NEW t \in Tick, pc[t] # "idle"
      PROVE  \A u \in Tick : u # t => pc[u] = "idle"
  BY <1>1 DEF Serial
<1>2. ASSUME NEW t \in Tick, NEW f \in Forcing, Start(t, f)
      PROVE  BudgetInv'
  <2>1. \A u \in Tick : u # t => pc[u] = "idle"
    BY <1>2 DEF Start, Goto, TypeOK, Serial
  <2>2. QED
    BY <1>2, <2>1, GoesOnBudget DEF Start, Points
<1>3. ASSUME NEW t \in Tick, Crash(t)
      PROVE  BudgetInv'
  <2>1. \A k \in today : Today(k)'
    BY <1>3 DEF Crash, BudgetInv, Today
  <2>2. QED
    BY <1>1, <1>3, <2>1, EndBudget DEF Crash
<1>4. ASSUME NEW t \in Tick, RenderFailsAndDies(t)
      PROVE  BudgetInv'
  <2>1. lead[t] \in Lead
    BY <1>4 DEF RenderFailsAndDies, NotVetoed, TypeOK
  <2>2. \A k \in today : Today(k)'
    BY <1>4, <2>1, AgesKept DEF RenderFailsAndDies, BudgetInv, TypeOK
  <2>3. QED
    BY <1>1, <1>4, <2>2, EndBudget DEF RenderFailsAndDies, NotVetoed
<1>5. ASSUME NEW t \in Tick, Step(t)
      PROVE  BudgetInv'
  <2>1. CASE RichStep(t)
    <3>1. pc[t] # "idle"
      BY <2>1 DEF RichStep, RichGateHolds, RichGateMissed, RichGateOpens,
         Review, Vetoed, Freeze, NotVetoed, RenderFails, ReserveSlot,
         SlotRefused, Reserve, AlreadyReserved
    <3>2. QED
      BY <1>1, <2>1, <3>1, RichBudget
  <2>2. CASE LegacyStep(t)
    <3>1. pc[t] # "idle"
      BY <2>2 DEF LegacyStep, Pick, NothingToPick, Paced, HeldBack,
         BuildFails, Claim
    <3>2. QED
      BY <1>1, <2>2, <3>1, LegacyBudget
  <2>3. CASE SlackStep(t)
    <3>1. pc[t] # "idle"
      BY <2>3 DEF SlackStep, Lands, Refused, SettleRefusal, Rejected,
         Ambiguous, RecordPost, FinishDelivered, MarkSurfaced,
         BookkeepingFails
    <3>2. QED
      BY <1>1, <2>3, <3>1, SlackBudget
  <2>4. QED
    BY <1>5, <2>1, <2>2, <2>3 DEF Step
<1>6. CASE Midnight
  <2>1. today' = {} /\ \A u \in Tick : pc'[u] = "idle"
    BY <1>6 DEF Midnight, AllIdle
  <2>2. QED
    BY <2>1, FS_EmptySet, DeliveryAssumption DEF BudgetInv, DailyBudget,
       RichChoice, LegacyChoice
<1>7. CASE (\E l \in Lead : RepClaims(l)) \/ HoldExpires \/ NextPhase
           \/ UNCHANGED vars
  <2>1. UNCHANGED <<outbox, today, tick>>
    BY <1>7 DEF RepClaims, HoldExpires, NextPhase, vars
  <2>2. QED
    BY <2>1 DEF BudgetInv, DailyBudget, RichChoice, LegacyChoice, Today, Mine
<1>8. QED
  BY <1>2, <1>3, <1>4, <1>5, <1>6, <1>7 DEF Next, Environment

(***************************************************************************)
(* While ticks do not overlap the day's budget holds for any caps: the     *)
(* attempts the pacing counts cover what landed, whatever became of their  *)
(* rows and of the ticks that sent them.                                   *)
(***************************************************************************)
THEOREM BudgetKept == Spec /\ []Serial => []DailyBudget
<1>1. Init => BudgetInv
  BY FS_EmptySet, DeliveryAssumption DEF Init, BudgetInv, DailyBudget,
     RichChoice, LegacyChoice
<1>2. BudgetInv => DailyBudget
  BY DEF BudgetInv
<1>3. QED
  BY <1>1, <1>2, NextBudget, RowsCorrect, SlotsCorrect, PTL DEF Spec

---------------------------------------------------------------------------
(***************************************************************************)
(* The preparation of rich cards.                                          *)
(***************************************************************************)
Steps == {"idle", "contact", "finding", "website", "siting", "crm", "asking",
          "activity", "calling"}

Contacts == [status  : {"verified", "superseded", "removed", "not_found"},
             kind    : FactKind \cup {None}, at : Time, expires : Nat]
Sites    == [status  : {None, "found", "not_found", "unreachable"},
             evidence : BOOLEAN, website : BOOLEAN]
Crms     == [status  : CrmStatus \cup {""}, at : Time, matches : Matches]
Calls    == [status  : {None, "verified_call", "no_recent_call",
                        "unavailable"},
             at : Time, done : Time, account : Account \cup {None},
             person : Person \cup {None}, exact : BOOLEAN]
Memories == [pc : Steps, at : Time, queue : Seq(Award), latest : Nat,
             account : Account \cup {None}, people : SUBSET Person,
             since : Time]
Views    == [lead : Award, at : Time, fault : Fault \cup {None, "gone"},
             confirmed : Time, nces : BOOLEAN, site : Sites,
             fact : Contacts \cup {NoFact}, status : CrmStatus \cup {""},
             checked : Time, matches : Matches, call : Calls]

TableTypes ==
    /\ now \in Time
    /\ fault \in [Award -> Fault \cup {None, "gone"}]
    /\ confirmed \in [Award -> Time] /\ nces \in SUBSET Award
    /\ site \in [Award -> Sites]
    /\ facts \in [Award -> Seq(Contacts)]
    /\ keys \in SUBSET (Award \X Time)
    /\ crm \in [Award -> Crms] /\ call \in [Award -> Calls]

RunTypes ==
    /\ run \in [Worker -> Memories] /\ runs \in 0..MaxRuns
    /\ \A w \in Worker :
        /\ run[w].at <= now
        /\ run[w].pc # "idle" => run[w].queue # <<>>

\* A verified contact expires a fixed time after its date; and the row a
\* discovery is to supersede is one that was due when its run began.
RowsAreDue ==
    /\ \A l \in Award : \A i \in DOMAIN facts[l] :
        facts[l][i].status = "verified" =>
            facts[l][i].expires = facts[l][i].at + ContactFresh
    /\ \A w \in Worker : run[w].pc = "finding" /\ run[w].latest # 0 =>
        LET l == Current(w)  i == run[w].latest IN
        /\ i \in DOMAIN facts[l]
        /\ facts[l][i].status = "verified" => facts[l][i].at <= run[w].at

\* What a draft asserts.
Holds(d) ==
    /\ d.mode \in {"draft_ready", "research_needed"}
    /\ d.state # "exact_match" =>
            /\ d.account = None /\ d.call = NoCall
            /\ d.route \in {"territory", "unassigned"}
    /\ d.call # NoCall =>
            /\ d.call.account = d.account
            /\ d.at - d.call.done <= CallFresh
    /\ d.mode = "draft_ready" => d.state \in SafeState /\ d.provenance = "nces"
    /\ d.expires > d.at

Judged ==
    \/ judge = NoJudge
    \/ judge \in [pc : {"matches", "call"}, view : Views]
    \/ judge.pc = "drafted" /\ Holds(judge.draft)

PreparationInv == TableTypes /\ RunTypes /\ RowsAreDue /\ Judged
---------------------------------------------------------------------------
(***************************************************************************)
(* The row a review shows: of the rows with the greatest date the last.    *)
(***************************************************************************)
LEMMA LeastNat ==
    ASSUME NEW S \in SUBSET Nat, S # {}
    PROVE  \E n \in S : \A m \in S : n <= m
<1>1. PICK n \in S : \A m \in S : <<m, n>> \notin OpToRel(<, Nat)
  BY NatLessThanWellFounded, WFMin, Zenon
<1>2. \A m \in S : ~(m < n)
  BY <1>1, Zenon DEF OpToRel
<1>3. QED
  BY <1>2

LEMMA GreatestNat ==
    ASSUME NEW b \in Nat, NEW S \in SUBSET (0..b), S # {}
    PROVE  \E n \in S : \A m \in S : m <= n
<1> DEFINE T == {b - n : n \in S}
<1>1. T \in SUBSET Nat /\ T # {}
  <2>1. \A n \in S : n \in 0..b
    OBVIOUS
  <2>2. T \subseteq Nat
    BY <2>1
  <2>3. QED
    BY <2>2
<1>2. PICK t \in T : \A u \in T : t <= u
  BY <1>1, LeastNat
<1>3. PICK n \in S : t = b - n
  BY <1>2
<1>4. ASSUME NEW m \in S
      PROVE  m <= n
  <2>1. t <= b - m
    BY <1>2
  <2>2. m \in 0..b /\ n \in 0..b
    OBVIOUS
  <2>3. QED
    BY <1>3, <2>1, <2>2
<1>5. QED
  BY <1>4

LEMMA BoundsAreNumbers ==
    /\ Limit \in Nat /\ AwardMax \in Nat /\ Platinum \in Nat
    /\ WindowEnd \in Nat /\ ConfirmFresh \in Nat /\ ContactFresh \in Nat
    /\ CrmFresh \in Nat /\ CallFresh \in Nat /\ MaxNow \in Nat
    /\ MaxRuns \in Nat
BY PreparationAssumption

LEMMA DatesAreDays ==
    /\ \A c \in Contacts :
        c.at \in 0..MaxNow /\ c.at \in Nat /\ c.expires \in Nat
    /\ \A rows \in Seq(Contacts) : \A i \in DOMAIN rows : rows[i] \in Contacts
<1>1. ASSUME NEW c \in Contacts
      PROVE  c.at \in 0..MaxNow /\ c.expires \in Nat
  BY DEF Contacts, Time
<1>2. 0..MaxNow \subseteq Nat
  BY BoundsAreNumbers
<1>3. \A rows \in Seq(Contacts) : \A i \in DOMAIN rows : rows[i] \in Contacts
  OBVIOUS
<1>4. QED
  BY <1>1, <1>2, <1>3

\* LatestIndex, of any rows.
LatestOf(rows) ==
    IF rows = <<>> THEN 0
    ELSE Max({ i \in DOMAIN rows :
                \A j \in DOMAIN rows : rows[j].at <= rows[i].at })

LEMMA LatestIndexIsLatestOf == \A l : LatestIndex(l) = LatestOf(facts[l])
BY DEF LatestIndex, LatestOf

LEMMA LatestOfRows ==
    ASSUME NEW rows \in Seq(Contacts), rows # <<>>
    PROVE  /\ LatestOf(rows) \in DOMAIN rows
           /\ \A j \in DOMAIN rows : rows[j].at <= rows[LatestOf(rows)].at
           /\ \A k \in DOMAIN rows :
                (\A j \in DOMAIN rows : rows[j].at <= rows[k].at)
                    => k <= LatestOf(rows)
<1> DEFINE D == DOMAIN rows
           dates == { rows[i].at : i \in D }
           S == { i \in D : \A j \in D : rows[j].at <= rows[i].at }
<1>1. /\ Len(rows) \in Nat /\ D = 1..Len(rows) /\ 1 \in D
      /\ \A i \in D : rows[i].at \in 0..MaxNow
  <2>1. Len(rows) \in Nat /\ D = 1..Len(rows) /\ 1 \in D
    OBVIOUS
  <2>2. QED
    BY <2>1, DatesAreDays
<1>2. PICK d \in dates : \A e \in dates : e <= d
  <2>1. dates \in SUBSET (0..MaxNow) /\ dates # {}
    BY <1>1
  <2>2. QED
    BY <2>1, GreatestNat, BoundsAreNumbers
<1>3. S # {}
  <2>1. PICK i \in D : d = rows[i].at
    BY <1>2
  <2>2. \A j \in D : rows[j].at <= rows[i].at
    BY <1>2, <2>1
  <2>3. QED
    BY <2>2
<1>4. S \in SUBSET (0..Len(rows))
  BY <1>1
<1>5. \E n \in S : \A m \in S : m <= n
  BY <1>1, <1>3, <1>4, GreatestNat
<1>6. \E n \in S : \A m \in S : n >= m
  BY <1>5, <1>1
<1>7. Max(S) \in S /\ \A m \in S : Max(S) >= m
  BY <1>6 DEF Max
<1>8. LatestOf(rows) = Max(S)
  BY DEF LatestOf
<1>9. QED
  BY <1>1, <1>7, <1>8

LEMMA LatestOfIs ==
    ASSUME NEW rows \in Seq(Contacts), NEW i \in DOMAIN rows,
           \A j \in DOMAIN rows : rows[j].at <= rows[i].at,
           \A k \in DOMAIN rows :
                (\A j \in DOMAIN rows : rows[j].at <= rows[k].at) => k <= i
    PROVE  LatestOf(rows) = i
<1>1. rows # <<>>
  OBVIOUS
<1>2. LatestOf(rows) \in DOMAIN rows /\ LatestOf(rows) <= i
      /\ i <= LatestOf(rows)
  BY <1>1, LatestOfRows
<1>3. DOMAIN rows \subseteq Nat
  OBVIOUS
<1>4. QED
  BY <1>2, <1>3

\* Superseding touches the status of one verified row.
LEMMA SupersededRows ==
    ASSUME NEW rows \in Seq(Contacts), NEW i \in DOMAIN rows \cup {0}
    PROVE  /\ Supersede(rows, i) \in Seq(Contacts)
           /\ Len(Supersede(rows, i)) = Len(rows)
           /\ \A k \in DOMAIN rows :
                /\ Supersede(rows, i)[k].at = rows[k].at
                /\ Supersede(rows, i)[k].expires = rows[k].expires
                /\ Supersede(rows, i)[k].status \in
                        {rows[k].status, "superseded"}
                /\ k # i \/ rows[k].status # "verified"
                        => Supersede(rows, i)[k] = rows[k]
<1>1. CASE i # 0 /\ rows[i].status = "verified"
  <2> DEFINE new == [rows[i] EXCEPT !.status = "superseded"]
             s == [rows EXCEPT ![i] = new]
  <2>1. Supersede(rows, i) = s
    BY <1>1 DEF Supersede
  <2>2. i \in DOMAIN rows /\ rows[i] \in Contacts
    BY <1>1
  <2>3. /\ new \in Contacts /\ new.at = rows[i].at
        /\ new.expires = rows[i].expires /\ new.status = "superseded"
    BY <2>2 DEF Contacts
  <2>4. /\ s \in Seq(Contacts) /\ Len(s) = Len(rows)
        /\ s[i] = new /\ \A k \in DOMAIN rows \ {i} : s[k] = rows[k]
    <3> HIDE DEF new
    <3>1. QED
      BY <2>2, <2>3
  <2>5. QED
    <3> HIDE DEF new, s
    <3>1. QED
      BY <1>1, <2>1, <2>2, <2>3, <2>4
<1>2. CASE ~(i # 0 /\ rows[i].status = "verified")
  <2>1. Supersede(rows, i) = rows
    BY <1>2 DEF Supersede
  <2>2. QED
    BY <2>1
<1>3. QED
  BY <1>1, <1>2

\* A row older than the latest one does not become the latest, and takes the
\* latest one's status away only if it was due.
LEMMA OlderRowHidesNothing ==
    ASSUME NEW rows \in Seq(Contacts), rows # <<>>, NEW new \in Contacts,
           new.at < rows[LatestOf(rows)].at, NEW i \in DOMAIN rows \cup {0},
           i = LatestOf(rows) => rows[i].status # "verified"
    PROVE  LET after == Append(Supersede(rows, i), new) IN
           /\ LatestOf(after) = LatestOf(rows)
           /\ after[LatestOf(rows)] = rows[LatestOf(rows)]
<1> DEFINE top == LatestOf(rows)
           s == Supersede(rows, i)
           after == Append(s, new)
<1>1. /\ top \in DOMAIN rows
      /\ \A j \in DOMAIN rows : rows[j].at <= rows[top].at
      /\ \A k \in DOMAIN rows :
            (\A j \in DOMAIN rows : rows[j].at <= rows[k].at) => k <= top
  BY LatestOfRows
<1>2. /\ s \in Seq(Contacts) /\ Len(s) = Len(rows)
      /\ \A k \in DOMAIN rows : s[k].at = rows[k].at
      /\ s[top] = rows[top]
  <2>1. top # i \/ rows[top].status # "verified"
    OBVIOUS
  <2>2. QED
    BY <1>1, <2>1, SupersededRows
<1>3. /\ after \in Seq(Contacts) /\ Len(after) = Len(rows) + 1
      /\ \A k \in 1..Len(rows) : after[k] = s[k]
      /\ after[Len(rows) + 1] = new
  <2> HIDE DEF s
  <2>1. QED
    BY <1>2, AppendProperties
<1>4. /\ Len(rows) \in Nat /\ DOMAIN rows = 1..Len(rows)
      /\ DOMAIN after = 1..(Len(rows) + 1)
  <2> HIDE DEF after
  <2>1. QED
    BY <1>3
<1>5. /\ \A k \in DOMAIN rows : after[k].at = rows[k].at
      /\ after[top] = rows[top]
  BY <1>1, <1>2, <1>3, <1>4
<1>6. /\ \A k \in DOMAIN rows : rows[k].at \in Nat
      /\ new.at \in Nat
  BY DatesAreDays
<1>7. \A j \in DOMAIN after : after[j].at <= after[top].at
  <2> HIDE DEF after, top, s
  <2>1. ASSUME NEW j \in DOMAIN after
        PROVE  after[j].at <= after[top].at
    <3>1. CASE j \in DOMAIN rows
      BY <1>1, <1>5, <3>1
    <3>2. CASE j = Len(rows) + 1
      <4>1. new.at < rows[top].at
        BY DEF top
      <4>2. QED
        BY <1>1, <1>3, <1>5, <1>6, <3>2, <4>1
    <3>3. QED
      BY <1>4, <3>1, <3>2
  <2>2. QED
    BY <2>1
<1>8. ASSUME NEW k \in DOMAIN after,
             \A j \in DOMAIN after : after[j].at <= after[k].at
      PROVE  k <= top
  <2> HIDE DEF after, s
  <2>1. k # Len(rows) + 1
    <3>1. SUFFICES ASSUME k = Len(rows) + 1
                   PROVE  FALSE
      OBVIOUS
    <3>2. top \in DOMAIN after
      BY <1>1, <1>4
    <3>3. after[top].at <= after[k].at
      BY <1>8, <3>2
    <3>4. QED
      BY <1>1, <1>3, <1>5, <1>6, <3>1, <3>3
  <2>2. k \in DOMAIN rows
    BY <1>4, <2>1
  <2>3. \A j \in DOMAIN rows : rows[j].at <= rows[k].at
    <3>1. ASSUME NEW j \in DOMAIN rows
          PROVE  rows[j].at <= rows[k].at
      <4>1. j \in DOMAIN after
        BY <1>4
      <4>2. after[j].at <= after[k].at
        BY <1>8, <4>1
      <4>3. QED
        BY <1>5, <2>2, <4>2
    <3>2. QED
      BY <3>1
  <2>4. QED
    BY <1>1, <2>2, <2>3
<1>9. top \in DOMAIN after
  BY <1>1, <1>4
<1>10. LatestOf(after) = top
  <2> HIDE DEF after, top, s
  <2>1. QED
    BY <1>3, <1>7, <1>8, <1>9, LatestOfIs
<1>11. QED
  BY <1>5, <1>10

---------------------------------------------------------------------------
(***************************************************************************)
(* A queue names leads: of the leads worth preparing as many as the limit  *)
(* allows, each at the place its rank gives it.                            *)
(***************************************************************************)
LEMMA EveryRankIsTaken ==
    ASSUME NEW worth \in SUBSET Award, NEW i \in 1..Cardinality(worth)
    PROVE  \E l \in worth : Cardinality({ m \in worth : m <= l }) = i
<1> DEFINE n == Cardinality(worth)
           below(l) == { m \in worth : m <= l }
           rank == [ l \in worth |-> Cardinality(below(l)) ]
<1>1. IsFiniteSet(worth) /\ n \in Nat /\ worth \subseteq Nat
  BY PreparationAssumption, FS_Subset, FS_CardinalityType
<1>2. ASSUME NEW l \in worth
      PROVE  /\ IsFiniteSet(below(l)) /\ Cardinality(below(l)) \in 1..n
  <2>1. IsFiniteSet(below(l)) /\ Cardinality(below(l)) <= n
    BY <1>1, FS_Subset
  <2>2. Cardinality(below(l)) \in Nat
    BY <2>1, FS_CardinalityType
  <2>3. l \in below(l)
    BY <1>1
  <2>4. Cardinality(below(l)) # 0
    BY <2>1, <2>3, FS_EmptySet
  <2>5. QED
    BY <1>1, <2>1, <2>2, <2>4
<1>3. ASSUME NEW l \in worth, NEW m \in worth, l < m
      PROVE  rank[l] # rank[m]
  <2>1. below(l) \in SUBSET below(m)
    <3>1. ASSUME NEW x \in worth, x <= l
          PROVE  x <= m
      <4>1. x \in Nat /\ l \in Nat /\ m \in Nat
        BY <1>1
      <4>2. QED
        BY <1>3, <3>1, <4>1
    <3>2. QED
      BY <3>1
  <2>2. m \in below(m) /\ m \notin below(l)
    BY <1>1, <1>3
  <2>3. Cardinality(below(l)) # Cardinality(below(m))
    BY <1>2, <2>1, <2>2, FS_Subset
  <2>4. QED
    BY <2>3
<1>4. rank \in [worth -> 1..n]
  BY <1>2
<1>5. rank \in Injection(worth, 1..n)
  <2>1. ASSUME NEW l \in worth, NEW m \in worth, rank[l] = rank[m]
        PROVE  l = m
    <3> HIDE DEF rank
    <3>1. ~(l < m) /\ ~(m < l)
      BY <1>3, <2>1
    <3>2. QED
      BY <1>1, <3>1
  <2>2. QED
    <3> HIDE DEF rank
    <3>1. QED
      BY <1>4, <2>1 DEF Injection, IsInjective
<1>6. IsFiniteSet(1..n) /\ Cardinality(1..n) = n
  BY <1>1, FS_Interval
<1>7. rank \in Surjection(worth, 1..n)
  <2> HIDE DEF rank
  <2>1. QED
    BY <1>5, <1>6, FS_Injection
<1>8. \E l \in worth : rank[l] = i
  <2> HIDE DEF rank
  <2>1. QED
    BY <1>7 DEF Surjection
<1>9. QED
  BY <1>8

LEMMA QueueNamesLeads ==
    ASSUME NEW t
    PROVE  Preparable(t) \in Seq(Award)
<1> DEFINE worth == { l \in Candidates(t) :
                        Evaluate(View(l, t)) \in Remediable }
           n == Cardinality(worth)
           k == Min({Limit, n})
           pick(i) == CHOOSE l \in worth :
                        Cardinality({ m \in worth : m <= l }) = i
<1>1. worth \in SUBSET Award
  BY DEF Candidates
<1>2. n \in Nat
  <2> HIDE DEF worth
  <2>1. QED
    BY <1>1, PreparationAssumption, FS_Subset, FS_CardinalityType
<1>3. k \in Nat /\ k <= n
  <2> HIDE DEF worth, n
  <2>1. \E x \in {Limit, n} : \A y \in {Limit, n} : x <= y
    BY <1>2, BoundsAreNumbers
  <2>2. k \in {Limit, n} /\ \A y \in {Limit, n} : k <= y
    BY <2>1 DEF Min
  <2>3. QED
    BY <1>2, <2>2, BoundsAreNumbers
<1>4. ASSUME NEW i \in 1..k
      PROVE  pick(i) \in Award
  <2> HIDE DEF worth
  <2>1. i \in 1..Cardinality(worth)
    BY <1>2, <1>3 DEF n
  <2>2. \E l \in worth : Cardinality({ m \in worth : m <= l }) = i
    BY <1>1, <2>1, EveryRankIsTaken
  <2>3. QED
    BY <1>1, <2>2
<1>5. [ i \in 1..k |-> pick(i) ] \in Seq(Award)
  <2> HIDE DEF pick, k
  <2>1. QED
    BY <1>3, <1>4
<1>6. Preparable(t) = [ i \in 1..k |-> pick(i) ]
  BY DEF Preparable
<1>7. QED
  BY <1>5, <1>6

---------------------------------------------------------------------------
(***************************************************************************)
(* What one worker remembers.                                              *)
(***************************************************************************)
LEMMA NowIsADay ==
    ASSUME TableTypes
    PROVE  now \in Nat /\ 0 \in Time /\ now \in Time
BY BoundsAreNumbers DEF TableTypes, Time

LEMMA CurrentIsALead ==
    ASSUME RunTypes, NEW w \in Worker, run[w].pc # "idle"
    PROVE  Current(w) \in Award /\ run[w] \in Memories /\ run[w].at \in Time
<1>1. /\ run[w] \in Memories /\ run[w].queue # <<>>
      /\ run[w].queue \in Seq(Award) /\ run[w].at \in Time
  BY DEF RunTypes, Memories
<1>2. QED
  BY <1>1 DEF Current

LEMMA IdleIsAMemory == TableTypes => Idle \in Memories
<1> SUFFICES ASSUME TableTypes
             PROVE  Idle \in Memories
  OBVIOUS
<1>1. 0 \in Time
  BY NowIsADay
<1>2. <<>> \in Seq(Award)
  OBVIOUS
<1>3. QED
  BY <1>1, <1>2 DEF Idle, Memories, Steps

\* A worker about to prepare the first lead of a queue.
AtFirstOf(t, q) == [Idle EXCEPT !.pc = "contact", !.at = t, !.queue = q]

LEMMA QueueIsAMemory ==
    ASSUME TableTypes, NEW t \in Time, NEW q \in Seq(Award)
    PROVE  /\ AtFirstOf(t, q) \in Memories /\ AtFirstOf(t, q).pc = "contact"
           /\ AtFirstOf(t, q).at = t /\ AtFirstOf(t, q).queue = q
<1>1. Idle \in Memories
  BY IdleIsAMemory
<1>2. QED
  BY <1>1 DEF AtFirstOf, Memories, Steps

\* A worker takes a state of its own.
LEMMA MemoryChanges ==
    ASSUME RunTypes, NEW w \in Worker, NEW m \in Memories,
           run' = [run EXCEPT ![w] = m], m.at <= now,
           m.pc # "idle" => m.queue # <<>>, UNCHANGED <<now, runs>>
    PROVE  /\ RunTypes' /\ run'[w] = m
           /\ \A v \in Worker \ {w} : run'[v] = run[v]
BY DEF RunTypes

\* A worker goes on with the same lead.
LEMMA WorkerProceeds ==
    ASSUME RunTypes, NEW w \in Worker, run[w].pc # "idle", NEW p \in Steps,
           Proceed(w, p), UNCHANGED <<now, runs>>
    PROVE  /\ RunTypes' /\ run'[w].pc = p
           /\ \A v \in Worker \ {w} : run'[v] = run[v]
<1> DEFINE m == [run[w] EXCEPT !.pc = p]
<1>1. run[w] \in Memories /\ run[w].at <= now /\ run[w].queue # <<>>
  BY DEF RunTypes
<1>2. m \in Memories /\ m.at = run[w].at /\ m.queue = run[w].queue /\ m.pc = p
  BY <1>1 DEF Memories
<1>3. run' = [run EXCEPT ![w] = m]
  BY DEF Proceed
<1>4. QED
  <2> HIDE DEF m
  <2>1. QED
    BY <1>1, <1>2, <1>3, MemoryChanges

LEMMA WorkerTakesNext ==
    ASSUME TableTypes, RunTypes, NEW w \in Worker, run[w].pc # "idle",
           NextLead(w), UNCHANGED <<now, runs>>
    PROVE  /\ RunTypes' /\ run'[w].pc # "finding"
           /\ \A v \in Worker \ {w} : run'[v] = run[v]
<1> DEFINE m == IF Len(run[w].queue) = 1 THEN Idle
                ELSE [Idle EXCEPT !.pc = "contact", !.at = run[w].at,
                                  !.queue = Tail(run[w].queue)]
<1>1. /\ run[w].queue \in Seq(Award) /\ run[w].queue # <<>>
      /\ run[w].at \in Time /\ run[w].at <= now
  BY DEF RunTypes, Memories
<1>2. Idle \in Memories /\ Idle.at = 0 /\ Idle.pc = "idle"
  BY IdleIsAMemory DEF Idle
<1>3. now \in Nat
  BY NowIsADay
<1>4. m \in Memories /\ m.at <= now /\ (m.pc # "idle" => m.queue # <<>>)
      /\ m.pc # "finding"
  <2>1. CASE Len(run[w].queue) = 1
    BY <1>2, <1>3, <2>1
  <2>2. CASE Len(run[w].queue) # 1
    <3>1. /\ Tail(run[w].queue) \in Seq(Award)
          /\ Len(Tail(run[w].queue)) = Len(run[w].queue) - 1
          /\ Len(run[w].queue) \in Nat /\ Len(run[w].queue) >= 1
      BY <1>1, HeadTailProperties
    <3> DEFINE tail == Tail(run[w].queue)
    <3>2. tail # <<>>
      <4>1. tail \in Seq(Award) /\ Len(tail) # 0
        BY <2>2, <3>1
      <4>2. QED
        <5> HIDE DEF tail
        <5>1. QED
          BY <4>1
    <3>3. m = AtFirstOf(run[w].at, tail)
      BY <2>2 DEF AtFirstOf
    <3>4. QED
      <4> HIDE DEF m, tail
      <4>1. tail \in Seq(Award)
        BY <3>1 DEF tail
      <4>2. m \in Memories /\ m.pc = "contact" /\ m.at = run[w].at
            /\ m.queue = tail
        BY <1>1, <3>3, <4>1, QueueIsAMemory
      <4>3. QED
        BY <1>1, <3>2, <4>2
  <2>3. QED
    BY <2>1, <2>2
<1>5. run' = [run EXCEPT ![w] = m]
  BY DEF NextLead
<1>6. QED
  <2> HIDE DEF m
  <2>1. QED
    BY <1>4, <1>5, MemoryChanges

\* Rows stay due while they stay, and no other discovery begins.
LEMMA DueRowsStay ==
    ASSUME RowsAreDue, UNCHANGED facts,
           \A v \in Worker : run'[v].pc = "finding" => run'[v] = run[v]
    PROVE  RowsAreDue'
<1>1. \A l \in Award : \A i \in DOMAIN facts'[l] :
        facts'[l][i].status = "verified" =>
            facts'[l][i].expires = facts'[l][i].at + ContactFresh
  BY DEF RowsAreDue
<1>2. ASSUME NEW v \in Worker, run'[v].pc = "finding", run'[v].latest # 0
      PROVE  LET l == Current(v)'  i == run'[v].latest IN
             /\ i \in DOMAIN facts'[l]
             /\ facts'[l][i].status = "verified" =>
                    facts'[l][i].at <= run'[v].at
  <2>1. run'[v] = run[v]
    BY <1>2
  <2>2. Current(v)' = Current(v)
    BY <2>1 DEF Current
  <2>3. QED
    BY <1>2, <2>1, <2>2 DEF RowsAreDue
<1>3. QED
  BY <1>1, <1>2 DEF RowsAreDue

\* A step of one worker that writes no contact.
LEMMA WorkerKeepsInv ==
    ASSUME PreparationInv, NEW w \in Worker, TableTypes', RunTypes',
           run'[w].pc # "finding",
           \A v \in Worker \ {w} : run'[v] = run[v],
           UNCHANGED <<facts, judge>>
    PROVE  PreparationInv'
<1>1. RowsAreDue'
  BY DueRowsStay DEF PreparationInv
<1>2. Judged'
  BY DEF PreparationInv, Judged
<1>3. QED
  BY <1>1, <1>2 DEF PreparationInv

\* A step of the world, the workers where they were.
LEMMA WorldKeepsInv ==
    ASSUME PreparationInv, TableTypes', RunTypes',
           UNCHANGED <<facts, run, judge>>
    PROVE  PreparationInv'
<1>1. RowsAreDue'
  BY DueRowsStay DEF PreparationInv
<1>2. Judged'
  BY DEF PreparationInv, Judged
<1>3. QED
  BY <1>1, <1>2 DEF PreparationInv

---------------------------------------------------------------------------
(***************************************************************************)
(* The initial states, and the steps of the world.                         *)
(***************************************************************************)
LEMMA EmptyRecords ==
    ASSUME 0 \in Time
    PROVE  NoCrm \in Crms /\ NoCall \in Calls /\ NoCrm.matches \in Matches
BY DEF NoCrm, NoCall, Crms, Calls, Matches

LEMMA PreparationInitInv == PreparationInit => PreparationInv
<1> SUFFICES ASSUME PreparationInit
             PROVE  PreparationInv
  OBVIOUS
<1>1. 0 \in Time
  BY BoundsAreNumbers DEF Time
<1>2. TableTypes
  <2>1. site \in [Award -> Sites]
    BY DEF PreparationInit, Sites
  <2>2. facts \in [Award -> Seq(Contacts)]
    <3>1. <<>> \in Seq(Contacts)
      OBVIOUS
    <3>2. QED
      BY <3>1 DEF PreparationInit
  <2>3. crm \in [Award -> Crms] /\ call \in [Award -> Calls]
    BY <1>1, EmptyRecords DEF PreparationInit
  <2>4. QED
    BY <1>1, <2>1, <2>2, <2>3 DEF PreparationInit, TableTypes
<1>3. RunTypes
  <2>1. Idle \in Memories
    BY <1>2, IdleIsAMemory
  <2>2. Idle.at = 0 /\ Idle.pc = "idle"
    BY DEF Idle
  <2>3. QED
    BY <2>1, <2>2, BoundsAreNumbers DEF PreparationInit, RunTypes
<1>4. RowsAreDue
  <2>1. \A l \in Award : DOMAIN facts[l] = {}
    BY DEF PreparationInit
  <2>2. \A w \in Worker : run[w].pc = "idle"
    BY DEF PreparationInit, Idle
  <2>3. QED
    BY <2>1, <2>2 DEF RowsAreDue
<1>5. Judged
  BY DEF PreparationInit, Judged
<1>6. QED
  BY <1>2, <1>3, <1>4, <1>5 DEF PreparationInv

LEMMA NextDayKeepsInv ==
    ASSUME PreparationInv, NextDay
    PROVE  PreparationInv'
<1> USE DEF PreparationInv, NextDay, tables
<1>1. now' = now + 1 /\ now \in Nat /\ now' \in Time
  BY BoundsAreNumbers DEF TableTypes, Time
<1>2. TableTypes'
  BY <1>1 DEF TableTypes
<1>3. RunTypes'
  <2>1. \A w \in Worker : run[w].at \in Nat /\ run[w].at <= now
    BY BoundsAreNumbers DEF RunTypes, Memories, Time
  <2>2. \A w \in Worker : run[w].at <= now'
    BY <1>1, <2>1
  <2>3. QED
    BY <2>2 DEF RunTypes
<1>4. QED
  BY <1>2, <1>3, WorldKeepsInv

LEMMA ConfirmKeepsInv ==
    ASSUME PreparationInv, NEW l \in Award, Confirm(l)
    PROVE  PreparationInv'
<1> USE DEF PreparationInv, Confirm
<1>1. TableTypes'
  BY DEF TableTypes
<1>2. RunTypes'
  BY DEF RunTypes
<1>3. QED
  BY <1>1, <1>2, WorldKeepsInv

LEMMA UpstreamKeepsInv ==
    ASSUME PreparationInv, NEW l \in Award, Upstream(l)
    PROVE  PreparationInv'
<1> USE DEF PreparationInv, Upstream
<1>1. TableTypes'
  BY DEF TableTypes
<1>2. RunTypes'
  BY DEF RunTypes
<1>3. QED
  BY <1>1, <1>2, WorldKeepsInv

\* Whatever Salesforce answers, the snapshot is one.
LEMMA SnapshotTypes ==
    ASSUME TableTypes, NEW l \in Award,
           NEW reply \in CrmAnswer \cup {[status |-> "unavailable"]}
    PROVE  Persist(crm[l], reply) \in Crms
<1>1. crm[l] \in Crms /\ crm[l].matches \in Matches /\ now \in Time
  BY DEF TableTypes, Crms
<1>2. CASE reply \in CrmAnswer
  <2>1. reply \in [status : CrmStatus \ {"unavailable"}, matches : Matches]
    BY <1>2, PreparationAssumption
  <2>2. reply.status \in CrmStatus /\ reply.matches \in Matches
    BY <2>1
  <2>3. QED
    BY <1>1, <2>2 DEF Persist, Crms
<1>3. CASE reply = [status |-> "unavailable"]
  <2>1. reply.status = "unavailable"
    BY <1>3
  <2>2. QED
    BY <1>1, <2>1 DEF Persist, Crms, CrmStatus
<1>4. QED
  BY <1>2, <1>3

LEMMA SyncCrmKeepsInv ==
    ASSUME PreparationInv, NEW l \in Award, SyncCrm(l)
    PROVE  PreparationInv'
<1> USE DEF PreparationInv
<1>1. PICK reply \in CrmAnswer \cup {[status |-> "unavailable"]} :
        crm' = [crm EXCEPT ![l] = Persist(@, reply)]
  BY DEF SyncCrm
<1>2. UNCHANGED <<now, fault, confirmed, nces, site, facts, keys, call, run,
                  runs, judge>>
  BY DEF SyncCrm
<1>3. Persist(crm[l], reply) \in Crms
  BY SnapshotTypes
<1>4. TableTypes'
  BY <1>1, <1>2, <1>3 DEF TableTypes
<1>5. RunTypes'
  BY <1>2 DEF RunTypes
<1>6. QED
  BY <1>2, <1>4, <1>5, WorldKeepsInv

---------------------------------------------------------------------------
(***************************************************************************)
(* The steps of a worker that write no contact.                            *)
(***************************************************************************)
LEMMA StartRunKeepsInv ==
    ASSUME PreparationInv, NEW w \in Worker, StartRun(w)
    PROVE  PreparationInv'
<1> DEFINE queue == Preparable(now)
           m == AtFirstOf(now, queue)
<1>1. /\ queue # <<>> /\ run' = [run EXCEPT ![w] = m]
      /\ runs < MaxRuns /\ runs' = runs + 1
      /\ UNCHANGED <<now, fault, confirmed, nces, site, facts, keys, crm, call,
                     judge>>
  BY DEF StartRun, AtFirstOf, tables
<1>2. TableTypes /\ RunTypes /\ now \in Time /\ now \in Nat
  BY NowIsADay DEF PreparationInv
<1>3. queue \in Seq(Award)
  BY QueueNamesLeads
<1>4. m \in Memories /\ m.pc = "contact" /\ m.at = now /\ m.queue = queue
  <2> HIDE DEF queue
  <2>1. QED
    BY <1>2, <1>3, QueueIsAMemory
<1>5. TableTypes'
  BY <1>1, <1>2 DEF TableTypes
<1>6. /\ RunTypes' /\ run'[w] = m
      /\ \A v \in Worker \ {w} : run'[v] = run[v]
  <2> HIDE DEF m, queue
  <2>1. runs' \in 0..MaxRuns
    BY <1>1, <1>2, BoundsAreNumbers DEF RunTypes
  <2>2. QED
    BY <1>1, <1>2, <1>4, <2>1 DEF RunTypes
<1>7. QED
  <2> HIDE DEF m, queue
  <2>1. QED
    BY <1>1, <1>4, <1>5, <1>6, WorkerKeepsInv

\* What moves a worker on and leaves the tables alone.
LEMMA MoveOnKeepsInv ==
    ASSUME PreparationInv, NEW w \in Worker, run[w].pc # "idle",
           NEW p \in Steps \ {"finding"}, Proceed(w, p),
           UNCHANGED <<now, fault, confirmed, nces, site, facts, keys, crm,
                       call, runs, judge>>
    PROVE  PreparationInv'
<1>1. TableTypes'
  BY DEF PreparationInv, TableTypes
<1>2. /\ RunTypes' /\ run'[w].pc = p
      /\ \A v \in Worker \ {w} : run'[v] = run[v]
  BY WorkerProceeds DEF PreparationInv
<1>3. QED
  BY <1>1, <1>2, WorkerKeepsInv

LEMMA NextLeadKeepsInv ==
    ASSUME PreparationInv, NEW w \in Worker, run[w].pc # "idle", NextLead(w),
           UNCHANGED <<now, runs, judge, facts>>, TableTypes'
    PROVE  PreparationInv'
<1>1. /\ RunTypes' /\ run'[w].pc # "finding"
      /\ \A v \in Worker \ {w} : run'[v] = run[v]
  BY WorkerTakesNext DEF PreparationInv
<1>2. QED
  BY <1>1, WorkerKeepsInv

LEMMA FindingFailsKeepsInv ==
    ASSUME PreparationInv, NEW w \in Worker,
           FindingFails(w) \/ LookForWebsite(w) \/ CheckCrm(w)
    PROVE  PreparationInv'
<1>1. /\ run[w].pc # "idle"
      /\ \E p \in {"website", "siting", "crm", "asking", "activity"} :
            Proceed(w, p)
      /\ UNCHANGED <<now, fault, confirmed, nces, site, facts, keys, crm, call,
                     runs, judge>>
  BY DEF FindingFails, LookForWebsite, CheckCrm, tables
<1>2. QED
  BY <1>1, MoveOnKeepsInv DEF Steps

LEMMA FindWebsiteKeepsInv ==
    ASSUME PreparationInv, NEW w \in Worker, FindWebsite(w)
    PROVE  PreparationInv'
<1>1. PICK s \in {"found", "not_found", "unreachable"}, web \in BOOLEAN :
        site' = [site EXCEPT ![Current(w)] =
                    [status |-> s, evidence |-> s = "found", website |-> web]]
  BY DEF FindWebsite
<1>2. /\ run[w].pc = "siting" /\ Proceed(w, "crm")
      /\ UNCHANGED <<now, fault, confirmed, nces, facts, keys, crm, call,
                     runs, judge>>
  BY DEF FindWebsite
<1>3. Current(w) \in Award
  BY <1>2, CurrentIsALead DEF PreparationInv
<1>4. [status |-> s, evidence |-> s = "found", website |-> web] \in Sites
  BY DEF Sites
<1>5. TableTypes'
  BY <1>1, <1>2, <1>3, <1>4 DEF PreparationInv, TableTypes
<1>6. /\ RunTypes' /\ run'[w].pc = "crm"
      /\ \A v \in Worker \ {w} : run'[v] = run[v]
  BY <1>2, WorkerProceeds DEF PreparationInv, Steps
<1>7. QED
  BY <1>2, <1>5, <1>6, WorkerKeepsInv

LEMMA RefreshCrmKeepsInv ==
    ASSUME PreparationInv, NEW w \in Worker, RefreshCrm(w)
    PROVE  PreparationInv'
<1>1. PICK reply \in CrmAnswer \cup {[status |-> "unavailable"]} :
        crm' = [crm EXCEPT ![Current(w)] = Persist(@, reply)]
  BY DEF RefreshCrm
<1>2. /\ run[w].pc = "asking" /\ Proceed(w, "activity")
      /\ UNCHANGED <<now, fault, confirmed, nces, site, facts, keys, call,
                     runs, judge>>
  BY DEF RefreshCrm
<1>3. Current(w) \in Award
  BY <1>2, CurrentIsALead DEF PreparationInv
<1>4. Persist(crm[Current(w)], reply) \in Crms
  BY <1>3, SnapshotTypes DEF PreparationInv
<1>5. TableTypes'
  BY <1>1, <1>2, <1>3, <1>4 DEF PreparationInv, TableTypes
<1>6. /\ RunTypes' /\ run'[w].pc = "activity"
      /\ \A v \in Worker \ {w} : run'[v] = run[v]
  BY <1>2, WorkerProceeds DEF PreparationInv, Steps
<1>7. QED
  BY <1>2, <1>5, <1>6, WorkerKeepsInv

LEMMA DieKeepsInv ==
    ASSUME PreparationInv, NEW w \in Worker, Die(w)
    PROVE  PreparationInv'
<1>1. /\ run' = [run EXCEPT ![w] = Idle]
      /\ UNCHANGED <<now, fault, confirmed, nces, site, facts, keys, crm, call,
                     runs, judge>>
  BY DEF Die, tables
<1>2. TableTypes'
  BY <1>1 DEF PreparationInv, TableTypes
<1>3. Idle \in Memories /\ Idle.pc = "idle" /\ Idle.at <= now
  <2>1. Idle.at = 0 /\ Idle.pc = "idle"
    BY DEF Idle
  <2>2. QED
    BY <2>1, IdleIsAMemory, NowIsADay DEF PreparationInv
<1>4. /\ RunTypes' /\ run'[w] = Idle
      /\ \A v \in Worker \ {w} : run'[v] = run[v]
  BY <1>1, <1>3, MemoryChanges DEF PreparationInv
<1>5. QED
  BY <1>1, <1>2, <1>3, <1>4, WorkerKeepsInv

LEMMA AccountIsOne ==
    ASSUME NEW status, NEW m \in Matches
    PROVE  AccountOf(status, m) \in Account \cup {None}
<1>1. CASE status = "found" /\ Cardinality(m.accounts) = 1
  <2>1. m.accounts \in SUBSET Account
    BY DEF Matches
  <2>2. IsFiniteSet(m.accounts)
    BY <2>1, PreparationAssumption, FS_Subset
  <2>3. PICK x : m.accounts = {x}
    BY <1>1, <2>2, FS_Singleton
  <2>4. \E a \in Account : m.accounts = {a}
    BY <2>1, <2>3
  <2>5. QED
    BY <1>1, <2>4 DEF AccountOf
<1>2. CASE ~(status = "found" /\ Cardinality(m.accounts) = 1)
  BY <1>2 DEF AccountOf
<1>3. QED
  BY <1>1, <1>2

LEMMA AskActivityKeepsInv ==
    ASSUME PreparationInv, NEW w \in Worker, AskActivity(w)
    PROVE  PreparationInv'
<1> DEFINE c == crm[Current(w)]
           account == AccountOf(c.status, c.matches)
           m == [run[w] EXCEPT !.pc = "calling", !.account = account,
                               !.people = c.matches.people, !.since = now]
<1>1. /\ run[w].pc = "activity"
      /\ UNCHANGED <<now, fault, confirmed, nces, site, facts, keys, crm, call,
                     runs, judge>>
      /\ NextLead(w) \/ run' = [run EXCEPT ![w] = m]
  BY DEF AskActivity, tables
<1>2. TableTypes'
  BY <1>1 DEF PreparationInv, TableTypes
<1>3. CASE NextLead(w)
  BY <1>1, <1>2, <1>3, NextLeadKeepsInv
<1>4. CASE run' = [run EXCEPT ![w] = m]
  <2>1. /\ Current(w) \in Award /\ run[w] \in Memories
        /\ run[w].at <= now /\ run[w].queue # <<>>
    BY <1>1, CurrentIsALead DEF PreparationInv, RunTypes
  <2>2. c.matches \in Matches /\ c.matches.people \in SUBSET Person
    BY <2>1 DEF PreparationInv, TableTypes, Crms, Matches
  <2>3. account \in Account \cup {None} /\ now \in Time
    BY <2>2, AccountIsOne DEF PreparationInv, TableTypes
  <2>4. /\ m \in Memories /\ m.pc = "calling" /\ m.at = run[w].at
        /\ m.queue = run[w].queue
    <3> DEFINE people == c.matches.people
    <3> HIDE DEF account, people
    <3>1. people \in SUBSET Person
      BY <2>2 DEF people
    <3>2. m = [run[w] EXCEPT !.pc = "calling", !.account = account,
                             !.people = people, !.since = now]
      BY DEF people
    <3>3. QED
      BY <2>1, <2>3, <3>1, <3>2 DEF Memories, Steps
  <2>5. /\ RunTypes' /\ run'[w] = m
        /\ \A v \in Worker \ {w} : run'[v] = run[v]
    <3> HIDE DEF m
    <3>1. QED
      BY <1>1, <1>4, <2>1, <2>4, MemoryChanges DEF PreparationInv
  <2>6. QED
    <3> HIDE DEF m
    <3>1. QED
      BY <1>1, <1>2, <2>4, <2>5, WorkerKeepsInv
<1>5. QED
  BY <1>1, <1>3, <1>4

LEMMA RecordActivityKeepsInv ==
    ASSUME PreparationInv, NEW w \in Worker, RecordActivity(w)
    PROVE  PreparationInv'
<1>1. /\ run[w].pc = "calling" /\ NextLead(w)
      /\ UNCHANGED <<now, fault, confirmed, nces, site, facts, keys, crm,
                     runs, judge>>
  BY DEF RecordActivity
<1>2. PICK status \in {"verified_call", "no_recent_call", "unavailable"},
           p \in run[w].people, done \in Time, exact \in BOOLEAN :
        call' = [call EXCEPT ![Current(w)] =
                    Newer(@, [ status |-> status, at |-> run[w].since,
                               done |-> done, account |-> run[w].account,
                               person |-> p, exact |-> exact ])]
  BY DEF RecordActivity
<1> DEFINE new == [ status |-> status, at |-> run[w].since, done |-> done,
                    account |-> run[w].account, person |-> p,
                    exact |-> exact ]
<1>3. /\ Current(w) \in Award /\ run[w].people \in SUBSET Person
      /\ run[w].since \in Time /\ run[w].account \in Account \cup {None}
  BY <1>1, CurrentIsALead DEF PreparationInv, Memories
<1>4. new \in Calls
  BY <1>3 DEF Calls
<1>5. call[Current(w)] \in Calls
  BY <1>3 DEF PreparationInv, TableTypes
<1>6. Newer(call[Current(w)], new) \in Calls
  <2> HIDE DEF new
  <2>1. QED
    BY <1>4, <1>5 DEF Newer
<1>7. TableTypes'
  <2> HIDE DEF new
  <2>1. call' = [call EXCEPT ![Current(w)] = Newer(@, new)]
    BY <1>2 DEF new
  <2>2. call' \in [Award -> Calls]
    BY <1>3, <1>6, <2>1 DEF PreparationInv, TableTypes
  <2>3. QED
    BY <1>1, <2>2 DEF PreparationInv, TableTypes
<1>8. QED
  BY <1>1, <1>7, NextLeadKeepsInv

LEMMA ActivityFailsKeepsInv ==
    ASSUME PreparationInv, NEW w \in Worker, ActivityFails(w)
    PROVE  PreparationInv'
<1>1. /\ run[w].pc = "calling" /\ NextLead(w)
      /\ UNCHANGED <<now, fault, confirmed, nces, site, facts, keys, crm, call,
                     runs, judge>>
  BY DEF ActivityFails, tables
<1>2. TableTypes'
  BY <1>1 DEF PreparationInv, TableTypes
<1>3. QED
  BY <1>1, <1>2, NextLeadKeepsInv

---------------------------------------------------------------------------
(***************************************************************************)
(* The contact: taking the request, and what comes of it.                  *)
(***************************************************************************)
\* What the review shows is one of the rows.
LEMMA LatestRow ==
    ASSUME TableTypes, NEW l \in Award
    PROVE  /\ LatestIndex(l) \in Nat
           /\ facts[l] \in Seq(Contacts)
           /\ facts[l] = <<>> => LatestIndex(l) = 0 /\ Latest(l) = NoFact
           /\ facts[l] # <<>> =>
                /\ LatestIndex(l) = LatestOf(facts[l])
                /\ LatestIndex(l) \in DOMAIN facts[l] /\ LatestIndex(l) # 0
                /\ Latest(l) = facts[l][LatestIndex(l)]
                /\ Latest(l) \in Contacts
<1>1. facts[l] \in Seq(Contacts)
  BY DEF TableTypes
<1>2. CASE facts[l] = <<>>
  BY <1>1, <1>2 DEF LatestIndex, Latest
<1>3. CASE facts[l] # <<>>
  <2>1. LatestIndex(l) = LatestOf(facts[l])
    BY LatestIndexIsLatestOf
  <2>2. LatestIndex(l) \in DOMAIN facts[l]
    BY <1>1, <1>3, <2>1, LatestOfRows
  <2>3. LatestIndex(l) \in Nat /\ LatestIndex(l) # 0
    BY <1>1, <2>2
  <2>4. Latest(l) = facts[l][LatestIndex(l)]
    BY <2>3 DEF Latest
  <2>5. facts[l][LatestIndex(l)] \in Contacts
    BY <1>1, <2>2
  <2>6. QED
    BY <1>1, <1>3, <2>1, <2>2, <2>3, <2>4, <2>5
<1>4. QED
  BY <1>2, <1>3

LEMMA RefreshContactKeepsInv ==
    ASSUME PreparationInv, NEW w \in Worker, RefreshContact(w)
    PROVE  PreparationInv'
<1> DEFINE l == Current(w)
           key == <<l, run[w].at>>
           i == LatestIndex(l)
           m == [run[w] EXCEPT !.pc = "finding", !.latest = i]
<1>1. /\ run[w].pc = "contact"
      /\ UNCHANGED <<now, fault, confirmed, nces, site, facts, crm, call,
                     runs, judge>>
  BY DEF RefreshContact
<1>2. CASE Proceed(w, "website") /\ UNCHANGED keys
  BY <1>1, <1>2, MoveOnKeepsInv DEF Steps
<1>3. CASE ~(Proceed(w, "website") /\ UNCHANGED keys)
  <2>1. /\ keys' = keys \cup {key} /\ run' = [run EXCEPT ![w] = m]
        /\ ~(Latest(l).status = "verified" /\ Latest(l).expires > run[w].at)
    BY <1>3 DEF RefreshContact
  <2>2. /\ l \in Award /\ run[w] \in Memories /\ run[w].at \in Time
        /\ run[w].at <= now /\ run[w].queue # <<>>
    BY <1>1, CurrentIsALead DEF PreparationInv, RunTypes
  <2>3. i \in Nat
    BY <2>2, LatestRow DEF PreparationInv
  <2>4. /\ m \in Memories /\ m.pc = "finding" /\ m.at = run[w].at
        /\ m.queue = run[w].queue /\ m.latest = i
    <3> HIDE DEF i
    <3>1. QED
      BY <2>2, <2>3 DEF Memories, Steps
  <2>5. /\ RunTypes' /\ run'[w] = m
        /\ \A v \in Worker \ {w} : run'[v] = run[v]
    <3> HIDE DEF m
    <3>1. QED
      BY <1>1, <2>1, <2>2, <2>4, MemoryChanges DEF PreparationInv
  <2>6. TableTypes'
    BY <1>1, <2>1, <2>2 DEF PreparationInv, TableTypes
  <2>7. Current(w)' = l
    <3> HIDE DEF m
    <3>1. run'[w].queue = run[w].queue
      BY <2>4, <2>5
    <3>2. QED
      BY <3>1 DEF Current
  <2>8. i # 0 => /\ i \in DOMAIN facts[l]
                 /\ facts[l][i].status = "verified" =>
                        facts[l][i].at <= run[w].at
    <3> SUFFICES ASSUME i # 0
                 PROVE  /\ i \in DOMAIN facts[l]
                        /\ facts[l][i].status = "verified" =>
                                facts[l][i].at <= run[w].at
      OBVIOUS
    <3>1. i \in DOMAIN facts[l] /\ Latest(l) = facts[l][i]
          /\ facts[l][i] \in Contacts
      BY <2>2, LatestRow DEF PreparationInv
    <3>2. ASSUME facts[l][i].status = "verified"
          PROVE  facts[l][i].at <= run[w].at
      <4>1. facts[l][i].expires = facts[l][i].at + ContactFresh
        BY <2>2, <3>1, <3>2 DEF PreparationInv, RowsAreDue
      <4>2. ~(facts[l][i].expires > run[w].at)
        BY <2>1, <3>1, <3>2
      <4>3. facts[l][i].at \in Nat /\ run[w].at \in Nat
        BY <2>2, <3>1, DatesAreDays, BoundsAreNumbers DEF Time
      <4>4. QED
        BY <4>1, <4>2, <4>3, BoundsAreNumbers
    <3>3. QED
      BY <3>1, <3>2
  <2>9. RowsAreDue'
    <3> HIDE DEF m, i
    <3>1. ASSUME NEW v \in Worker, run'[v].pc = "finding", run'[v].latest # 0
          PROVE  LET k == Current(v)'  j == run'[v].latest IN
                 /\ j \in DOMAIN facts'[k]
                 /\ facts'[k][j].status = "verified" =>
                        facts'[k][j].at <= run'[v].at
      <4>1. CASE v = w
        BY <1>1, <2>4, <2>5, <2>7, <2>8, <3>1, <4>1
      <4>2. CASE v # w
        <5>1. run'[v] = run[v]
          BY <2>5, <4>2
        <5>2. Current(v)' = Current(v)
          BY <5>1 DEF Current
        <5>3. QED
          BY <1>1, <3>1, <5>1, <5>2 DEF PreparationInv, RowsAreDue
      <4>3. QED
        BY <4>1, <4>2
    <3>2. \A k \in Award : \A j \in DOMAIN facts'[k] :
            facts'[k][j].status = "verified" =>
                facts'[k][j].expires = facts'[k][j].at + ContactFresh
      BY <1>1 DEF PreparationInv, RowsAreDue
    <3>3. QED
      BY <3>1, <3>2 DEF RowsAreDue
  <2>10. Judged'
    BY <1>1 DEF PreparationInv, Judged
  <2>11. QED
    BY <2>5, <2>6, <2>9, <2>10 DEF PreparationInv
<1>4. QED
  BY <1>2, <1>3

\* The row a discovery leaves, and the row it supersedes.
LEMMA DiscoveryLeavesARow ==
    ASSUME PreparationInv, NEW w \in Worker, FindContact(w)
    PROVE  /\ Current(w) \in Award
           /\ run[w].latest \in DOMAIN facts[Current(w)] \cup {0}
           /\ \E new \in Contacts :
                /\ new.at = run[w].at
                /\ new.status = "verified" =>
                        new.expires = new.at + ContactFresh
                /\ facts' = [facts EXCEPT ![Current(w)] =
                        Append(Supersede(@, run[w].latest), new)]
<1>1. PICK contact \in Findable \cup {None} :
        facts' = [facts EXCEPT ![Current(w)] =
            Append(Supersede(@, run[w].latest),
                   [ status  |-> IF contact # None THEN "verified"
                                 ELSE IF run[w].latest # 0 THEN "removed"
                                 ELSE "not_found",
                     kind    |-> contact,
                     at      |-> run[w].at,
                     expires |-> IF contact = None THEN 0
                                 ELSE run[w].at + ContactFresh ])]
  BY DEF FindContact
<1> DEFINE new == [ status  |-> IF contact # None THEN "verified"
                                ELSE IF run[w].latest # 0 THEN "removed"
                                ELSE "not_found",
                    kind    |-> contact,
                    at      |-> run[w].at,
                    expires |-> IF contact = None THEN 0
                                ELSE run[w].at + ContactFresh ]
<1>2. run[w].pc = "finding"
  BY DEF FindContact
<1>3. /\ Current(w) \in Award /\ run[w] \in Memories
      /\ run[w].at \in Time
  BY <1>2, CurrentIsALead DEF PreparationInv
<1>4. run[w].latest \in DOMAIN facts[Current(w)] \cup {0}
  BY <1>2 DEF PreparationInv, RowsAreDue
<1>5. contact \in FactKind \cup {None}
  BY PreparationAssumption
<1>6. run[w].at + ContactFresh \in Nat
  BY <1>3, BoundsAreNumbers DEF Time
<1>7. new \in Contacts
  BY <1>3, <1>5, <1>6 DEF Contacts
<1>8. new.at = run[w].at
      /\ (new.status = "verified" => new.expires = new.at + ContactFresh)
  OBVIOUS
<1>9. facts' = [facts EXCEPT ![Current(w)] =
                    Append(Supersede(@, run[w].latest), new)]
  BY <1>1
<1>10. QED
  <2> HIDE DEF new
  <2>1. QED
    BY <1>3, <1>4, <1>7, <1>8, <1>9

\* Rows are only added, and keep their dates; none becomes verified again.
LEMMA AddedRows ==
    ASSUME NEW rows \in Seq(Contacts), NEW i \in DOMAIN rows \cup {0},
           NEW new \in Contacts
    PROVE  LET after == Append(Supersede(rows, i), new) IN
           /\ after \in Seq(Contacts)
           /\ Len(after) = Len(rows) + 1 /\ after[Len(rows) + 1] = new
           /\ DOMAIN rows = 1..Len(rows) /\ DOMAIN after = 1..(Len(rows) + 1)
           /\ \A k \in DOMAIN rows :
                /\ k \in DOMAIN after
                /\ after[k].at = rows[k].at
                /\ after[k].expires = rows[k].expires
                /\ after[k].status = "verified" => rows[k].status = "verified"
<1> DEFINE s == Supersede(rows, i)
           after == Append(s, new)
<1>1. /\ s \in Seq(Contacts) /\ Len(s) = Len(rows)
      /\ \A k \in DOMAIN rows :
            /\ s[k].at = rows[k].at /\ s[k].expires = rows[k].expires
            /\ s[k].status \in {rows[k].status, "superseded"}
  BY SupersededRows
<1>2. /\ after \in Seq(Contacts) /\ Len(after) = Len(rows) + 1
      /\ \A k \in 1..Len(rows) : after[k] = s[k]
      /\ after[Len(rows) + 1] = new
  <2> HIDE DEF s
  <2>1. QED
    BY <1>1, AppendProperties
<1>3. /\ DOMAIN rows = 1..Len(rows) /\ Len(rows) \in Nat
      /\ DOMAIN after = 1..(Len(rows) + 1)
  <2> HIDE DEF after
  <2>1. QED
    BY <1>2
<1>4. ASSUME NEW k \in DOMAIN rows
      PROVE  /\ k \in DOMAIN after
             /\ after[k].at = rows[k].at
             /\ after[k].expires = rows[k].expires
             /\ after[k].status = "verified" => rows[k].status = "verified"
  <2> HIDE DEF after, s
  <2>1. k \in DOMAIN after /\ after[k] = s[k]
    BY <1>2, <1>3
  <2>2. QED
    BY <1>1, <2>1
<1>5. after = Append(Supersede(rows, i), new)
  OBVIOUS
<1>6. QED
  <2> HIDE DEF after, s
  <2>1. QED
    BY <1>2, <1>3, <1>4, <1>5

LEMMA FindContactKeepsInv ==
    ASSUME PreparationInv, NEW w \in Worker, FindContact(w)
    PROVE  PreparationInv'
<1> DEFINE l == Current(w)
           rows == facts[l]
<1>1. PICK new \in Contacts :
        /\ new.at = run[w].at
        /\ new.status = "verified" => new.expires = new.at + ContactFresh
        /\ facts' = [facts EXCEPT ![l] =
                        Append(Supersede(@, run[w].latest), new)]
  BY DiscoveryLeavesARow
<1> DEFINE after == Append(Supersede(rows, run[w].latest), new)
<1>2. /\ run[w].pc = "finding" /\ Proceed(w, "website")
      /\ UNCHANGED <<now, fault, confirmed, nces, site, keys, crm, call, runs,
                     judge>>
  BY DEF FindContact
<1>3. /\ l \in Award /\ run[w].latest \in DOMAIN rows \cup {0}
      /\ rows \in Seq(Contacts)
  BY DiscoveryLeavesARow DEF PreparationInv, TableTypes
<1>4. /\ after \in Seq(Contacts)
      /\ Len(after) = Len(rows) + 1 /\ after[Len(rows) + 1] = new
      /\ DOMAIN rows = 1..Len(rows) /\ DOMAIN after = 1..(Len(rows) + 1)
      /\ \A k \in DOMAIN rows :
            /\ k \in DOMAIN after
            /\ after[k].at = rows[k].at
            /\ after[k].expires = rows[k].expires
            /\ after[k].status = "verified" => rows[k].status = "verified"
  BY <1>3, AddedRows
<1>5. /\ facts' \in [Award -> Seq(Contacts)] /\ facts'[l] = after
      /\ \A k \in Award \ {l} : facts'[k] = facts[k]
  <2>1. facts' = [facts EXCEPT ![l] = after]
    BY <1>1
  <2> HIDE DEF after
  <2>2. QED
    BY <1>3, <1>4, <2>1 DEF PreparationInv, TableTypes
<1>6. TableTypes'
  BY <1>2, <1>5 DEF PreparationInv, TableTypes
<1>7. /\ RunTypes' /\ run'[w].pc = "website"
      /\ \A v \in Worker \ {w} : run'[v] = run[v]
  BY <1>2, WorkerProceeds DEF PreparationInv, Steps
<1>8. ASSUME NEW k \in Award, NEW j \in DOMAIN facts'[k],
             facts'[k][j].status = "verified"
      PROVE  facts'[k][j].expires = facts'[k][j].at + ContactFresh
  <2> HIDE DEF after
  <2>1. CASE k # l
    BY <1>5, <1>8, <2>1 DEF PreparationInv, RowsAreDue
  <2>2. CASE k = l /\ j \in DOMAIN rows
    <3>1. /\ rows[j].status = "verified" /\ facts'[k][j].at = rows[j].at
          /\ facts'[k][j].expires = rows[j].expires
      BY <1>4, <1>5, <1>8, <2>2
    <3>2. rows[j].expires = rows[j].at + ContactFresh
      BY <1>3, <2>2, <3>1 DEF PreparationInv, RowsAreDue
    <3>3. QED
      BY <3>1, <3>2
  <2>3. CASE k = l /\ j \notin DOMAIN rows
    <3>1. Len(rows) \in Nat
      BY <1>3
    <3>2. j = Len(rows) + 1
      BY <1>4, <1>5, <2>3, <3>1
    <3>3. facts'[k][j] = new
      BY <1>4, <1>5, <2>3, <3>2
    <3>4. QED
      BY <1>1, <1>8, <3>3
  <2>4. QED
    BY <2>1, <2>2, <2>3
<1>9. ASSUME NEW v \in Worker, run'[v].pc = "finding", run'[v].latest # 0
      PROVE  LET k == Current(v)'  j == run'[v].latest IN
             /\ j \in DOMAIN facts'[k]
             /\ facts'[k][j].status = "verified" =>
                    facts'[k][j].at <= run'[v].at
  <2> DEFINE k == Current(v)
             j == run[v].latest
  <2> HIDE DEF after
  <2>1. run'[v] = run[v]
    BY <1>7, <1>9
  <2>2. Current(v)' = k
    BY <2>1 DEF Current
  <2>3. /\ j \in DOMAIN facts[k]
        /\ facts[k][j].status = "verified" => facts[k][j].at <= run[v].at
    BY <1>9, <2>1 DEF PreparationInv, RowsAreDue
  <2>4. k \in Award
    BY <1>9, <2>1, CurrentIsALead DEF PreparationInv
  <2>5. /\ j \in DOMAIN facts'[k]
        /\ facts'[k][j].status = "verified" => facts'[k][j].at <= run[v].at
    <3>1. CASE k = l
      BY <1>4, <1>5, <2>3, <3>1
    <3>2. CASE k # l
      BY <1>5, <2>3, <2>4, <3>2
    <3>3. QED
      BY <3>1, <3>2
  <2>6. QED
    BY <2>1, <2>2, <2>5
<1>10. RowsAreDue'
  BY <1>8, <1>9 DEF RowsAreDue
<1>11. Judged'
  BY <1>2 DEF PreparationInv, Judged
<1>12. QED
  BY <1>6, <1>7, <1>10, <1>11 DEF PreparationInv

\* What the step of a run may not do to what a newer one has stored.
LEMMA LateAnswerKeepsLatest ==
    ASSUME PreparationInv, NEW w \in Worker, FindContact(w), NEW l \in Award,
           Len(facts'[l]) > Len(facts[l]),
           facts'[l][Len(facts'[l])].at < Latest(l).at
    PROVE  Latest(l)' = Latest(l)
<1>1. PICK new \in Contacts :
        /\ new.at = run[w].at
        /\ facts' = [facts EXCEPT ![Current(w)] =
                        Append(Supersede(@, run[w].latest), new)]
  BY DiscoveryLeavesARow
<1> DEFINE rows == facts[l]
           i == run[w].latest
           after == Append(Supersede(rows, i), new)
<1>2. rows \in Seq(Contacts) /\ facts \in [Award -> Seq(Contacts)]
  BY DEF PreparationInv, TableTypes
<1>3. l = Current(w)
  <2>1. SUFFICES ASSUME l # Current(w)
                 PROVE  FALSE
    OBVIOUS
  <2>2. facts'[l] = facts[l]
    BY <1>1, <1>2, <2>1
  <2>3. Len(rows) \in Nat
    BY <1>2
  <2>4. QED
    BY <2>2, <2>3
<1>4. i \in DOMAIN rows \cup {0}
  BY <1>3, DiscoveryLeavesARow
<1>5. facts'[l] = after
  BY <1>1, <1>2, <1>3
<1>6. /\ after \in Seq(Contacts) /\ Len(after) = Len(rows) + 1
      /\ after[Len(rows) + 1] = new
  BY <1>2, <1>4, AddedRows
<1>7. new.at < Latest(l).at
  <2> HIDE DEF after
  <2>1. QED
    BY <1>5, <1>6
<1>8. rows # <<>>
  <2>1. SUFFICES ASSUME rows = <<>>
                 PROVE  FALSE
    OBVIOUS
  <2>2. Latest(l).at = 0
    BY <2>1, LatestRow DEF PreparationInv, NoFact
  <2>3. new.at \in Nat
    BY DatesAreDays
  <2>4. QED
    BY <1>7, <2>2, <2>3
<1>9. /\ LatestIndex(l) = LatestOf(rows)
      /\ Latest(l) = rows[LatestOf(rows)]
      /\ LatestOf(rows) \in DOMAIN rows /\ LatestOf(rows) # 0
  BY <1>8, LatestRow DEF PreparationInv
<1>10. i = LatestOf(rows) => rows[i].status # "verified"
  <2>1. SUFFICES ASSUME i = LatestOf(rows), rows[i].status = "verified"
                 PROVE  FALSE
    OBVIOUS
  <2>2. run[w].pc = "finding" /\ run[w].latest # 0
    BY <1>9, <2>1 DEF FindContact
  <2>3. rows[i].at <= run[w].at
    BY <1>3, <2>1, <2>2 DEF PreparationInv, RowsAreDue
  <2>4. run[w].at < rows[i].at
    BY <1>1, <1>7, <1>9, <2>1
  <2>5. rows[i].at \in Nat /\ run[w].at \in Nat
    BY <1>1, <1>2, <1>9, <2>1, DatesAreDays
  <2>6. QED
    BY <2>3, <2>4, <2>5
<1>11. /\ LatestOf(after) = LatestOf(rows)
       /\ after[LatestOf(rows)] = rows[LatestOf(rows)]
  <2>1. new.at < rows[LatestOf(rows)].at
    BY <1>7, <1>9
  <2> HIDE DEF rows, i
  <2>2. QED
    BY <1>2, <1>4, <1>8, <1>10, <2>1, OlderRowHidesNothing
<1>12. LatestIndex(l)' = LatestOf(after)
  <2> HIDE DEF after
  <2>1. LatestIndex(l)' = LatestOf(facts'[l])
    BY DEF LatestIndex, LatestOf
  <2>2. QED
    BY <1>5, <2>1
<1>13. Latest(l)' = after[LatestOf(rows)]
  <2> HIDE DEF after, rows
  <2>1. QED
    BY <1>5, <1>9, <1>11, <1>12 DEF Latest
<1>14. QED
  BY <1>9, <1>11, <1>13

---------------------------------------------------------------------------
(***************************************************************************)
(* The policy: nothing eligible is stale, and what a draft asserts holds.  *)
(***************************************************************************)
LEMMA ReasonsAreReasons ==
    /\ DOMAIN Order = 1..23
    /\ \A i \in 1..23 : Order[i] # "eligible"
    /\ Order[9] = "spend_window_missing_or_closed"
    /\ Order[19] = "contact_evidence_stale"
BY DEF Order

LEMMA EligibleFailsNothing ==
    ASSUME NEW v, Evaluate(v) = "eligible"
    PROVE  \A i \in DOMAIN Order : ~Fails(Order[i], v)
<1> DEFINE failing == { i \in DOMAIN Order : Fails(Order[i], v) }
<1>1. SUFFICES ASSUME failing # {}
               PROVE  FALSE
  OBVIOUS
<1>2. failing \in SUBSET Nat
  BY ReasonsAreReasons
<1>3. Min(failing) \in failing
  <2> HIDE DEF failing
  <2>1. \E n \in failing : \A m \in failing : n <= m
    BY <1>1, <1>2, LeastNat
  <2>2. QED
    BY <2>1 DEF Min
<1>4. Evaluate(v) = Order[Min(failing)]
  BY <1>1 DEF Evaluate
<1>5. Min(failing) \in 1..23
  BY <1>3, ReasonsAreReasons
<1>6. QED
  <2> HIDE DEF failing
  <2>1. QED
    BY <1>4, <1>5, ReasonsAreReasons

LEMMA ViewDates ==
    ASSUME NEW v \in Views
    PROVE  v.at \in Nat /\ v.fact.expires \in Nat
<1>1. v.at \in Time /\ v.fact \in Contacts \cup {NoFact}
  BY DEF Views
<1>2. Time \subseteq Nat
  BY BoundsAreNumbers DEF Time
<1>3. NoFact.expires = 0
  BY DEF NoFact
<1>4. v.fact.expires \in Nat
  <2>1. CASE v.fact \in Contacts
    BY <2>1, DatesAreDays
  <2>2. CASE v.fact = NoFact
    BY <1>3, <2>2
  <2>3. QED
    BY <1>1, <2>1, <2>2
<1>5. QED
  BY <1>1, <1>2, <1>4

LEMMA EligibleIsFresh ==
    ASSUME NEW v \in Views, Evaluate(v) = "eligible"
    PROVE  v.at <= WindowEnd /\ v.at < v.fact.expires
<1>1. /\ ~Fails("spend_window_missing_or_closed", v)
      /\ ~Fails("contact_evidence_stale", v)
  BY EligibleFailsNothing, ReasonsAreReasons
<1>2. ~(v.at > WindowEnd) /\ ~ContactIsStale(v)
  <2>1. Fails("spend_window_missing_or_closed", v) <=> v.at > WindowEnd
    BY DEF Fails
  <2>2. Fails("contact_evidence_stale", v) <=> ContactIsStale(v)
    BY DEF Fails
  <2>3. QED
    BY <1>1, <2>1, <2>2
<1>3. v.at \in Nat /\ v.fact.expires \in Nat
  BY ViewDates
<1>4. QED
  BY <1>2, <1>3, BoundsAreNumbers DEF ContactIsStale

\* Of Salesforce only an exact match is asserted, and only a call that is
\* fresh and bound to its account.
LEMMA WhatIsAsserted ==
    ASSUME NEW v
    PROVE  LET a == Asserted(v)  state == CrmState(v.status, v.matches) IN
           /\ state # "exact_match" =>
                /\ a.account = None /\ a.deal = FALSE /\ a.call = NoCall
           /\ a.call # NoCall =>
                a.call.account = a.account /\ v.at - a.call.done <= CallFresh
<1> DEFINE state == CrmState(v.status, v.matches)
           account == AccountOf(v.status, v.matches)
           call0 == IF FreshCall(v.call, account, v.matches.people, v.at)
                    THEN v.call ELSE NoCall
<1>1. state \notin {"exact_match", "ambiguous"} => account = None
  BY DEF CrmState, AccountOf
<1>2. CASE state = "ambiguous" \/ account = None
  <2>1. Asserted(v) = [account |-> None, deal |-> FALSE, call |-> NoCall]
    BY <1>2 DEF Asserted
  <2>2. QED
    BY <2>1
<1>3. CASE ~(state = "ambiguous" \/ account = None)
  <2> HIDE DEF state, account
  <2>1. state = "exact_match"
    BY <1>1, <1>3
  <2>2. Asserted(v) = [ account |-> account, deal |-> v.matches.deals = 1,
                        call |-> call0 ]
    BY <1>3 DEF Asserted, state, account
  <2>3. Asserted(v).account = account /\ Asserted(v).call = call0
    BY <2>2
  <2>4. call0 # NoCall =>
            call0.account = account /\ v.at - call0.done <= CallFresh
    BY DEF FreshCall
  <2>5. QED
    <3> HIDE DEF call0
    <3>1. QED
      BY <2>1, <2>3, <2>4 DEF state
<1>4. QED
  BY <1>2, <1>3

LEMMA DraftHolds ==
    ASSUME NEW v \in Views, Evaluate(v) = "eligible"
    PROVE  Holds(Draft(v))
<1> DEFINE a == Asserted(v)
           state == CrmState(v.status, v.matches)
<1>1. /\ Draft(v).mode = CardMode(v) /\ Draft(v).state = state
      /\ Draft(v).provenance = WebsiteProvenance(v)
      /\ Draft(v).account = a.account /\ Draft(v).call = a.call
      /\ Draft(v).route = Route(a) /\ Draft(v).at = v.at
      /\ Draft(v).expires = Expiry(v)
  <2> HIDE DEF a, state
  <2>1. Draft(v) = [ mode |-> CardMode(v), tier |-> Tier(v), state |-> state,
                     provenance |-> WebsiteProvenance(v),
                     account |-> a.account, call |-> a.call,
                     route |-> Route(a), at |-> v.at, expires |-> Expiry(v) ]
    BY DEF Draft, a, state
  <2>2. QED
    BY <2>1
<1>2. /\ state # "exact_match" =>
            a.account = None /\ a.deal = FALSE /\ a.call = NoCall
      /\ a.call # NoCall =>
            a.call.account = a.account /\ v.at - a.call.done <= CallFresh
  BY WhatIsAsserted
<1>3. state # "exact_match" => Route(a) \in {"territory", "unassigned"}
  <2> HIDE DEF a, state
  <2>1. QED
    BY <1>2 DEF Route
<1>4. /\ CardMode(v) \in {"draft_ready", "research_needed"}
      /\ CardMode(v) = "draft_ready" =>
            state \in SafeState /\ WebsiteProvenance(v) = "nces"
  BY DEF CardMode
<1>5. Expiry(v) > v.at
  <2>1. v.at <= WindowEnd /\ v.at < v.fact.expires
    BY EligibleIsFresh
  <2>2. v.at \in Nat /\ v.fact.expires \in Nat
    BY ViewDates
  <2> DEFINE S == {v.fact.expires, WindowEnd + 1}
  <2>3. \E n \in S : \A m \in S : n <= m
    BY <2>2, BoundsAreNumbers
  <2>4. Min(S) \in S
    <3> HIDE DEF S
    <3>1. QED
      BY <2>3 DEF Min
  <2>5. Expiry(v) = Min(S)
    BY DEF Expiry
  <2>6. QED
    <3>1. Min(S) = v.fact.expires \/ Min(S) = WindowEnd + 1
      BY <2>4
    <3> HIDE DEF S
    <3>2. QED
      BY <2>1, <2>2, <2>5, <3>1, BoundsAreNumbers
<1>6. QED
  <2> HIDE DEF a, state
  <2>1. QED
    BY <1>1, <1>2, <1>3, <1>4, <1>5 DEF Holds

---------------------------------------------------------------------------
(***************************************************************************)
(* The review.                                                             *)
(***************************************************************************)
\* A step of the review alone.
LEMMA ReviewKeepsInv ==
    ASSUME PreparationInv,
           UNCHANGED <<now, fault, confirmed, nces, site, facts, keys, crm,
                       call, run, runs>>,
           Judged'
    PROVE  PreparationInv'
<1>1. TableTypes'
  BY DEF PreparationInv, TableTypes
<1>2. RunTypes'
  BY DEF PreparationInv, RunTypes
<1>3. RowsAreDue'
  BY DueRowsStay DEF PreparationInv
<1>4. QED
  BY <1>1, <1>2, <1>3 DEF PreparationInv

LEMMA ViewsAre ==
    ASSUME NEW l \in Award, NEW t \in Time,
           NEW f \in Fault \cup {None, "gone"}, NEW c \in Time,
           NEW n \in BOOLEAN, NEW s \in Sites,
           NEW fact \in Contacts \cup {NoFact},
           NEW status \in CrmStatus \cup {""}, NEW k \in Time,
           NEW m \in Matches, NEW o \in Calls
    PROVE  [ lead |-> l, at |-> t, fault |-> f, confirmed |-> c, nces |-> n,
             site |-> s, fact |-> fact, status |-> status, checked |-> k,
             matches |-> m, call |-> o ] \in Views
BY DEF Views

LEMMA ReadingsAreViews ==
    ASSUME TableTypes, NEW l \in Award, NEW t \in Time
    PROVE  View(l, t) \in Views
<1> DEFINE listed == l \in nces
<1>1. /\ fault[l] \in Fault \cup {None, "gone"} /\ confirmed[l] \in Time
      /\ site[l] \in Sites /\ call[l] \in Calls
  BY DEF TableTypes
<1>2. /\ crm[l].status \in CrmStatus \cup {""} /\ crm[l].at \in Time
      /\ crm[l].matches \in Matches
  BY DEF TableTypes, Crms
<1>3. Latest(l) \in Contacts \cup {NoFact}
  BY LatestRow
<1>4. listed \in BOOLEAN
  OBVIOUS
<1>5. View(l, t) =
            [ lead |-> l, at |-> t, fault |-> fault[l],
              confirmed |-> confirmed[l], nces |-> listed, site |-> site[l],
              fact |-> Latest(l), status |-> crm[l].status,
              checked |-> crm[l].at, matches |-> crm[l].matches,
              call |-> call[l] ]
  BY Zenon DEF View
<1>6. QED
  <2> HIDE DEF listed
  <2>1. [ lead |-> l, at |-> t, fault |-> fault[l],
          confirmed |-> confirmed[l], nces |-> listed, site |-> site[l],
          fact |-> Latest(l), status |-> crm[l].status,
          checked |-> crm[l].at, matches |-> crm[l].matches,
          call |-> call[l] ] \in Views
    BY <1>1, <1>2, <1>3, <1>4, ViewsAre, ZenonT(60)
  <2>2. QED
    BY <1>5, <2>1, Zenon

LEMMA OpenReviewKeepsInv ==
    ASSUME PreparationInv, OpenReview
    PROVE  PreparationInv'
<1>1. /\ UNCHANGED <<now, fault, confirmed, nces, site, facts, keys, crm,
                     call, run, runs>>
  BY DEF OpenReview, tables
<1>2. PICK l \in Candidates(now) :
        judge' = [ pc |-> "matches",
                   view |-> [View(l, now) EXCEPT
                                !.matches = NoCrm.matches, !.call = NoCall] ]
  BY DEF OpenReview
<1> DEFINE v == [View(l, now) EXCEPT !.matches = NoCrm.matches,
                                     !.call = NoCall]
<1>3. l \in Award /\ now \in Time
  BY DEF Candidates, PreparationInv, TableTypes
<1>4. View(l, now) \in Views
  BY <1>3, ReadingsAreViews DEF PreparationInv
<1>5. NoCall \in Calls /\ NoCrm.matches \in Matches
  BY NowIsADay, EmptyRecords DEF PreparationInv
<1>6. v \in Views
  BY <1>4, <1>5 DEF Views
<1>7. Judged'
  <2> HIDE DEF v
  <2>1. judge' = [pc |-> "matches", view |-> v]
    BY <1>2 DEF v
  <2>2. QED
    BY <1>6, <2>1 DEF Judged
<1>8. QED
  BY <1>1, <1>7, ReviewKeepsInv

\* A review that is on its way has a view.
LEMMA ReviewHasAView ==
    ASSUME Judged, judge.pc \in {"matches", "call"}
    PROVE  judge \in [pc : {"matches", "call"}, view : Views]
BY DEF Judged, NoJudge

LEMMA ReadMatchesKeepsInv ==
    ASSUME PreparationInv, ReadMatches
    PROVE  PreparationInv'
<1>1. /\ judge.pc = "matches"
      /\ judge' = [judge EXCEPT !.pc = "call",
                      !.view.matches = crm[judge.view.lead].matches]
      /\ UNCHANGED <<now, fault, confirmed, nces, site, facts, keys, crm,
                     call, run, runs>>
  BY DEF ReadMatches, tables
<1>2. judge \in [pc : {"matches", "call"}, view : Views]
  BY <1>1, ReviewHasAView DEF PreparationInv
<1>3. judge.view \in Views /\ judge.view.lead \in Award
  BY <1>2 DEF Views
<1> DEFINE m == crm[judge.view.lead].matches
           v == [judge.view EXCEPT !.matches = m]
<1>4. m \in Matches
  BY <1>3 DEF PreparationInv, TableTypes, Crms
<1>5. v \in Views
  <2> HIDE DEF m
  <2>1. QED
    BY <1>3, <1>4 DEF Views
<1>6. judge' = [pc |-> "call", view |-> v]
  <2> HIDE DEF m
  <2>1. judge' = [judge EXCEPT !.pc = "call", !.view = v]
    BY <1>1, <1>2 DEF m
  <2> HIDE DEF v
  <2>2. QED
    BY <1>2, <2>1
<1>7. Judged'
  <2> HIDE DEF v
  <2>1. QED
    BY <1>5, <1>6 DEF Judged
<1>8. QED
  BY <1>1, <1>7, ReviewKeepsInv

LEMMA JudgeKeepsInv ==
    ASSUME PreparationInv, Judge
    PROVE  PreparationInv'
<1> DEFINE v == [judge.view EXCEPT !.call = call[judge.view.lead]]
<1>1. /\ judge.pc = "call"
      /\ judge' = IF Evaluate(v) = "eligible"
                  THEN [pc |-> "drafted", draft |-> Draft(v)] ELSE NoJudge
      /\ UNCHANGED <<now, fault, confirmed, nces, site, facts, keys, crm,
                     call, run, runs>>
  BY DEF Judge, tables
<1>2. judge \in [pc : {"matches", "call"}, view : Views]
  BY <1>1, ReviewHasAView DEF PreparationInv
<1>3. judge.view \in Views /\ judge.view.lead \in Award
  BY <1>2 DEF Views
<1>4. call[judge.view.lead] \in Calls
  BY <1>3 DEF PreparationInv, TableTypes
<1>5. v \in Views
  BY <1>3, <1>4 DEF Views
<1>6. Judged'
  <2> HIDE DEF v
  <2>1. CASE Evaluate(v) = "eligible"
    <3>1. judge' = [pc |-> "drafted", draft |-> Draft(v)]
      BY <1>1, <2>1
    <3>2. judge'.pc = "drafted" /\ judge'.draft = Draft(v)
      BY <3>1
    <3>3. QED
      BY <1>5, <2>1, <3>2, DraftHolds DEF Judged
  <2>2. CASE Evaluate(v) # "eligible"
    BY <1>1, <2>2 DEF Judged
  <2>3. QED
    BY <2>1, <2>2
<1>7. QED
  BY <1>1, <1>6, ReviewKeepsInv

LEMMA FreezeDraftKeepsInv ==
    ASSUME PreparationInv, FreezeDraft
    PROVE  PreparationInv'
<1>1. /\ judge' = NoJudge
      /\ UNCHANGED <<now, fault, confirmed, nces, site, facts, keys, crm,
                     call, run, runs>>
  BY DEF FreezeDraft, tables
<1>2. QED
  BY <1>1, ReviewKeepsInv DEF Judged

LEMMA PreparationNextInv ==
    ASSUME PreparationInv, [PreparationNext]_preparationVars
    PROVE  PreparationInv'
<1>1. CASE UNCHANGED preparationVars
  <2>1. UNCHANGED <<now, fault, confirmed, nces, site, facts, keys, crm, call,
                    run, runs, judge>>
    BY <1>1 DEF preparationVars, tables
  <2>2. Judged'
    BY <2>1 DEF PreparationInv, Judged
  <2>3. QED
    BY <2>1, <2>2, ReviewKeepsInv
<1>2. CASE NextDay
  BY <1>2, NextDayKeepsInv
<1>3. ASSUME NEW l \in Award, Confirm(l) \/ Upstream(l) \/ SyncCrm(l)
      PROVE  PreparationInv'
  BY <1>3, ConfirmKeepsInv, UpstreamKeepsInv, SyncCrmKeepsInv
<1>4. ASSUME NEW w \in Worker,
             StartRun(w) \/ RefreshContact(w) \/ FindContact(w)
      PROVE  PreparationInv'
  BY <1>4, StartRunKeepsInv, RefreshContactKeepsInv, FindContactKeepsInv
<1>5. ASSUME NEW w \in Worker,
             FindingFails(w) \/ LookForWebsite(w) \/ FindWebsite(w)
             \/ CheckCrm(w) \/ RefreshCrm(w)
      PROVE  PreparationInv'
  BY <1>5, FindingFailsKeepsInv, FindWebsiteKeepsInv, RefreshCrmKeepsInv
<1>6. ASSUME NEW w \in Worker,
             AskActivity(w) \/ RecordActivity(w) \/ ActivityFails(w) \/ Die(w)
      PROVE  PreparationInv'
  BY <1>6, AskActivityKeepsInv, RecordActivityKeepsInv,
     ActivityFailsKeepsInv, DieKeepsInv
<1>7. CASE OpenReview \/ ReadMatches \/ Judge \/ FreezeDraft
  BY <1>7, OpenReviewKeepsInv, ReadMatchesKeepsInv, JudgeKeepsInv,
     FreezeDraftKeepsInv
<1>8. QED
  BY <1>1, <1>2, <1>3, <1>4, <1>5, <1>6, <1>7 DEF PreparationNext

\* Whatever the runs, the nightly sync and the days do between two reads, a
\* verified contact expires a fixed time after its date, the row a discovery
\* will supersede was due when its run began, and what the review holds is a
\* view, or a draft that asserts only what holds.
THEOREM PreparationInvHolds == PreparationSpec => []PreparationInv
<1>1. PreparationInit => PreparationInv
  BY PreparationInitInv
<1>2. PreparationInv /\ [PreparationNext]_preparationVars => PreparationInv'
  BY PreparationNextInv
<1>3. QED
  BY <1>1, <1>2, PTL DEF PreparationSpec

\* What a drafted card says of Salesforce is what one exact match says, its
\* call one of that very account and fresh, its button only with a safe state
\* and a website the federal record gives, and it is drafted before the first
\* of its facts expires: for every policy window, every number of leads and
\* of runs, and however the tables change between the reads.
THEOREM PreparationDraftAssertsWhatHolds ==
    PreparationSpec => []DraftAssertsWhatHolds
<1>1. PreparationInv => DraftAssertsWhatHolds
  <2> SUFFICES ASSUME PreparationInv
               PROVE  DraftAssertsWhatHolds
    OBVIOUS
  <2>1. ASSUME NEW l \in Award
        PROVE  /\ site[l].status \in {None, "found", "not_found",
                                      "unreachable"}
               /\ site[l].evidence \in BOOLEAN /\ site[l].website \in BOOLEAN
               /\ crm[l].status \in CrmStatus \cup {""}
               /\ crm[l].at \in Time /\ crm[l].matches \in Matches
               /\ call[l].status \in {None, "verified_call",
                                      "no_recent_call", "unavailable"}
    BY DEF PreparationInv, TableTypes, Sites, Crms, Calls
  <2>2. ASSUME NEW l \in Award, NEW i \in DOMAIN facts[l]
        PROVE  /\ facts[l][i].status \in {"verified", "superseded",
                                          "removed", "not_found"}
               /\ facts[l][i].at \in Time
    <3>1. facts[l] \in Seq(Contacts)
      BY DEF PreparationInv, TableTypes
    <3>2. facts[l][i] \in Contacts
      BY <3>1
    <3>3. QED
      BY <3>2 DEF Contacts
  <2>3. \A w \in Worker : run[w].pc \in Steps /\ run[w].at <= now
    BY DEF PreparationInv, RunTypes, Memories
  <2>4. /\ judge.pc \in {"idle", "matches", "call", "drafted"}
        /\ judge.pc = "drafted" => Holds(judge.draft)
    BY DEF PreparationInv, Judged, NoJudge
  <2>5. PreparationTypeOK
    BY <2>1, <2>2, <2>3, <2>4 DEF PreparationTypeOK, PreparationInv,
       TableTypes, RunTypes, Steps, Holds
  <2>6. QED
    BY <2>4, <2>5 DEF DraftAssertsWhatHolds, Holds
<1>2. QED
  BY <1>1, PreparationInvHolds, PTL

\* Only a discovery writes contacts.
LEMMA OnlyDiscoveryWrites ==
    ASSUME [PreparationNext]_preparationVars,
           \A w \in Worker : ~FindContact(w)
    PROVE  UNCHANGED facts
BY DEF PreparationNext, preparationVars, tables, NextDay, Confirm, Upstream,
   SyncCrm, StartRun, RefreshContact, FindingFails, LookForWebsite,
   FindWebsite, CheckCrm, RefreshCrm, AskActivity, RecordActivity,
   ActivityFails, Die, OpenReview, ReadMatches, Judge, FreezeDraft

\* The answer of an older run that lands after a newer one's takes nothing
\* away from what the newer has stored: neither becomes the row a card shows
\* nor supersedes it, however many runs overlap and however late it is.
THEOREM PreparationLateAnswerHidesNothing ==
    PreparationSpec => LateAnswerHidesNothing
<1> DEFINE Late(l) == /\ Len(facts'[l]) > Len(facts[l])
                      /\ facts'[l][Len(facts'[l])].at < Latest(l).at
<1>1. ASSUME PreparationInv, [PreparationNext]_preparationVars,
             NEW l \in Award, Late(l)
      PROVE  Latest(l)' = Latest(l)
  <2>1. CASE \E w \in Worker : FindContact(w)
    BY <1>1, <2>1, LateAnswerKeepsLatest
  <2>2. CASE \A w \in Worker : ~FindContact(w)
    <3>1. facts' = facts
      BY <1>1, <2>2, OnlyDiscoveryWrites
    <3>2. Len(facts[l]) \in Nat
      BY <1>1 DEF PreparationInv, TableTypes
    <3>3. QED
      BY <1>1, <3>1, <3>2
  <2>3. QED
    BY <2>1, <2>2
<1>2. PreparationInv /\ [PreparationNext]_preparationVars
        => [\A l \in Award : Late(l) => Latest(l)' = Latest(l)]_preparationVars
  BY <1>1
<1>3. QED
  BY <1>2, PreparationInvHolds, PTL DEF PreparationSpec, LateAnswerHidesNothing
=============================================================================
