---------------------------- MODULE Reminders_proofs ----------------------------
(***************************************************************************)
(* Theorems about Reminders for any number of workers, reminders and reps, *)
(* any cadence and any choice of channels.                                 *)
(***************************************************************************)
EXTENDS Reminders, TLAPS

---------------------------------------------------------------------------
LEMMA EndTypes ==
    ASSUME TickTypeOK, NEW w \in Worker, End(w)
    PROVE  TickTypeOK'
BY DEF TickTypeOK, End, Goto

LEMMA NextChannelTypes ==
    ASSUME TickTypeOK, NEW w \in Worker, pc[w] \in {"reserve", "send"},
           NextChannel(w), UNCHANGED <<queue, item, late>>,
           heard' \in [Worker -> BOOLEAN]
    PROVE  TickTypeOK'
BY DEF TickTypeOK, NextChannel, Goto

\* A worker that delivers is at a slot of its reminder.
LEMMA SlotType ==
    ASSUME TickTypeOK, NEW w \in Worker, pc[w] \in {"reserve", "send"}
    PROVE  Rem(w) \in Reminder /\ SlotOf(w) \in Slot
<1>1. item[w] \in Reminder \X Occurrence
  BY DEF TickTypeOK
<1>2. Turn(w) \in Channel
  BY DEF Turn, Channel
<1>3. QED
  BY <1>1, <1>2 DEF Rem, SlotOf, Slot

LEMMA InitTypeOK == Init => TypeOK
BY ReminderAssumption
DEF Init, TypeOK, TickTypeOK, States, Outcomes, Occurrence, Time, NoItem

LEMMA RepTypeStep ==
    ASSUME TypeOK,
           \/ \E r \in Reminder : Ask(r) \/ Create(r) \/ Cancel(r)
           \/ \E p \in Rep : OptOut(p) \/ OptIn(p)
           \/ Tick
    PROVE  TypeOK'
<1> USE DEF local, table, hist
<1>1. ASSUME NEW r \in Reminder, Ask(r) \/ Create(r) \/ Cancel(r)
      PROVE  TypeOK'
  <2>1. now \in Occurrence
    BY ReminderAssumption DEF TypeOK, Time, Occurrence
  <2>2. QED
    BY <1>1, <2>1 DEF TypeOK, TickTypeOK, Ask, Create, Cancel, States
<1>2. ASSUME NEW p \in Rep, OptOut(p)
      PROVE  TypeOK'
  <2>1. state' \in [Reminder -> States]
    BY <1>2 DEF TypeOK, OptOut, States
  <2>2. QED
    BY <1>2, <2>1 DEF TypeOK, TickTypeOK, OptOut
<1>3. ASSUME NEW p \in Rep, OptIn(p)
      PROVE  TypeOK'
  BY <1>3 DEF TypeOK, TickTypeOK, OptIn
<1>4. CASE Tick
  BY <1>4, ReminderAssumption DEF TypeOK, TickTypeOK, Tick, Time
<1>5. QED
  BY <1>1, <1>2, <1>3, <1>4

LEMMA QueueTypeStep ==
    ASSUME TypeOK, NEW w \in Worker,
           \/ ReadDue(w) \/ NothingDue(w)
           \/ \E i \in queue[w] : OptedOut(w, i) \/ TakeUp(w, i) \/ RenderFails(w, i)
    PROVE  TypeOK'
<1> USE DEF local, table, hist
<1>1. CASE ReadDue(w)
  <2>1. queue' \in [Worker -> SUBSET (Reminder \X Occurrence)]
    BY <1>1 DEF TypeOK, TickTypeOK, ReadDue
  <2>2. QED
    BY <1>1, <2>1 DEF TypeOK, TickTypeOK, ReadDue, Goto
<1>2. CASE NothingDue(w)
  BY <1>2, EndTypes DEF TypeOK, NothingDue
<1>3. ASSUME NEW i \in queue[w],
             OptedOut(w, i) \/ TakeUp(w, i) \/ RenderFails(w, i)
      PROVE  TypeOK'
  <2>1. i \in Reminder \X Occurrence /\ i # NoItem /\ i[1] \in Reminder
    BY <1>3 DEF TypeOK, TickTypeOK, NoItem
  <2>2. queue' \in [Worker -> SUBSET (Reminder \X Occurrence)]
    BY <1>3 DEF TypeOK, TickTypeOK, OptedOut, TakeUp, RenderFails
  <2>3. CASE OptedOut(w, i) \/ RenderFails(w, i)
    BY <2>1, <2>2, <2>3 DEF TypeOK, TickTypeOK, OptedOut, RenderFails, States
  <2>4. CASE TakeUp(w, i)
    <3>1. Via[i[1]] \in SUBSET Channel
      BY <2>1, ReminderAssumption
    <3>2. QED
      BY <2>1, <2>2, <2>4, <3>1 DEF TypeOK, TickTypeOK, TakeUp, Goto
  <2>5. QED
    BY <1>3, <2>3, <2>4
<1>4. QED
  BY <1>1, <1>2, <1>3

LEMMA DeliverTypeStep ==
    ASSUME TypeOK, NEW w \in Worker,
           \/ Reserve(w) \/ AlreadyReserved(w)
           \/ Delivered(w) \/ Refused(w) \/ Ambiguous(w)
           \/ Retire(w) \/ Rearm(w) \/ LeaveActive(w) \/ Crash(w)
    PROVE  TypeOK'
<1> USE DEF local, table, hist
<1>1. CASE Reserve(w)
  BY <1>1 DEF TypeOK, TickTypeOK, Reserve, Goto, Outcomes
<1>2. CASE AlreadyReserved(w)
  BY <1>2, NextChannelTypes DEF TypeOK, TickTypeOK, AlreadyReserved
<1>3. CASE Delivered(w) \/ Refused(w) \/ Ambiguous(w)
  <2>1. TickTypeOK'
    BY <1>3, NextChannelTypes
    DEF TypeOK, TickTypeOK, Delivered, Refused, Ambiguous
  <2>2. delivery' \in [Slot -> Outcomes]
    BY <1>3 DEF TypeOK, Delivered, Refused, Ambiguous, Outcomes
  <2>3. landed' \in [Slot -> Nat]
    BY <1>3 DEF TypeOK, Delivered, Refused, Ambiguous
  <2>4. QED
    BY <1>3, <2>1, <2>2, <2>3 DEF TypeOK, Delivered, Refused, Ambiguous
<1>4. CASE Retire(w)
  BY <1>4, EndTypes DEF TypeOK, Retire, States
<1>5. CASE Rearm(w)
  <2>1. now + 1 \in Occurrence
    BY ReminderAssumption DEF TypeOK, Time, Occurrence
  <2>2. QED
    BY <1>5, <2>1, EndTypes DEF TypeOK, Rearm
<1>6. CASE LeaveActive(w)
  BY <1>6, EndTypes DEF TypeOK, LeaveActive
<1>7. CASE Crash(w)
  <2>1. landed' \in [Slot -> Nat]
    BY <1>7 DEF TypeOK, Crash
  <2>2. crashes' \in 0..MaxCrashes
    BY <1>7, ReminderAssumption DEF TypeOK, Crash
  <2>3. QED
    BY <1>7, <2>1, <2>2, EndTypes DEF TypeOK, Crash
<1>8. QED
  BY <1>1, <1>2, <1>3, <1>4, <1>5, <1>6, <1>7

LEMMA NextTypeOK == TypeOK /\ [Next]_vars => TypeOK'
<1> SUFFICES ASSUME TypeOK, [Next]_vars
             PROVE  TypeOK'
  OBVIOUS
<1>1. CASE UNCHANGED vars
  BY <1>1 DEF TypeOK, TickTypeOK, vars, table, local, hist
<1>2. ASSUME NEW w \in Worker, ReadDue(w) \/ Step(w) \/ Crash(w)
      PROVE  TypeOK'
  BY <1>2, QueueTypeStep, DeliverTypeStep DEF Step
<1>3. QED
  BY <1>1, <1>2, RepTypeStep DEF Next

(***************************************************************************)
(* Every value stays in its domain, and a worker that delivers has an      *)
(* occurrence in hand and, when it sends, a channel to send over.          *)
(***************************************************************************)
THEOREM TypeCorrect == Spec => []TypeOK
BY InitTypeOK, NextTypeOK, PTL DEF Spec
---------------------------------------------------------------------------
(***************************************************************************)
(* A slot and its row.  Nothing lands before the row is there; who sends   *)
(* has reserved the row, alone, and nothing has landed yet; and no row is  *)
(* ever taken away, so nobody reserves a slot a second time.               *)
(***************************************************************************)
RowFirst == \A s \in Slot : landed[s] <= 1 /\ (delivery[s] = "none" => landed[s] = 0)

Sending(w) == pc[w] = "send" =>
    delivery[SlotOf(w)] = "reserved" /\ landed[SlotOf(w)] = 0

Alone == \A v, w \in Worker :
    pc[v] = "send" /\ pc[w] = "send" /\ SlotOf(v) = SlotOf(w) => v = w

SlotInv == RowFirst /\ (\A w \in Worker : Sending(w)) /\ Alone

\* A step that touches no slot and starts no send.
LEMMA OffSlotsStep ==
    ASSUME SlotInv, UNCHANGED <<delivery, landed>>,
           \A w \in Worker : pc'[w] = "send" =>
               pc[w] = "send" /\ item'[w] = item[w] /\ via'[w] = via[w]
    PROVE  SlotInv'
<1>1. \A w \in Worker : pc'[w] = "send" => SlotOf(w)' = SlotOf(w)
  BY DEF SlotOf, Rem, Turn
<1>2. QED
  BY <1>1 DEF SlotInv, RowFirst, Sending, Alone

LEMMA OffSlots ==
    ASSUME TypeOK, SlotInv,
           \/ \E r \in Reminder : Ask(r) \/ Create(r) \/ Cancel(r)
           \/ \E p \in Rep : OptOut(p) \/ OptIn(p)
           \/ Tick
           \/ \E w \in Worker :
                 \/ ReadDue(w) \/ NothingDue(w) \/ AlreadyReserved(w)
                 \/ \E i \in queue[w] :
                       OptedOut(w, i) \/ TakeUp(w, i) \/ RenderFails(w, i)
                 \/ Retire(w) \/ Rearm(w) \/ LeaveActive(w)
    PROVE  SlotInv'
<1> USE DEF local, table, hist
<1>1. UNCHANGED <<delivery, landed>>
  BY DEF Ask, Create, Cancel, OptOut, OptIn, Tick, ReadDue, NothingDue,
         AlreadyReserved, OptedOut, TakeUp, RenderFails, Retire, Rearm,
         LeaveActive
<1>2. \A w \in Worker : pc'[w] = "send" =>
          pc[w] = "send" /\ item'[w] = item[w] /\ via'[w] = via[w]
  BY DEF Ask, Create, Cancel, OptOut, OptIn, Tick, ReadDue, NothingDue,
         AlreadyReserved, OptedOut, TakeUp, RenderFails, Retire, Rearm,
         LeaveActive, End, Goto, NextChannel, TypeOK, TickTypeOK
<1>3. QED
  BY <1>1, <1>2, OffSlotsStep

\* A step of w at its slot s; afterwards w sends there or nowhere.
LEMMA AtSlotStep ==
    ASSUME SlotInv, NEW w \in Worker, NEW s \in Slot, SlotOf(w) = s,
           \A v \in Worker \ {w} :
               pc'[v] = pc[v] /\ item'[v] = item[v] /\ via'[v] = via[v],
           \A v \in Worker \ {w} : pc[v] = "send" => SlotOf(v) # s,
           \A t \in Slot \ {s} :
               delivery'[t] = delivery[t] /\ landed'[t] = landed[t],
           \A v \in Worker : pc[v] = "send" => SlotOf(v) \in Slot,
           landed'[s] <= 1, delivery'[s] # "none",
           pc'[w] = "send" =>
               /\ delivery'[s] = "reserved" /\ landed'[s] = 0
               /\ item'[w] = item[w] /\ via'[w] = via[w]
    PROVE  SlotInv'
<1>1. \A v \in Worker : pc'[v] = "send" => SlotOf(v)' = SlotOf(v)
  BY DEF SlotOf, Rem, Turn
<1>2. RowFirst'
  BY DEF SlotInv, RowFirst
<1>3. \A v \in Worker : Sending(v)'
  BY <1>1 DEF SlotInv, Sending
<1>4. Alone'
  BY <1>1 DEF SlotInv, Alone
<1>5. QED
  BY <1>2, <1>3, <1>4 DEF SlotInv

LEMMA ReserveSlotInv ==
    ASSUME TypeOK, SlotInv, NEW w \in Worker, Reserve(w)
    PROVE  SlotInv'
<1> USE DEF local, hist
<1> DEFINE s == SlotOf(w)
<1>1. \A v \in Worker : pc[v] = "send" => SlotOf(v) \in Slot
  BY SlotType DEF TypeOK
<1>2. s \in Slot
  BY SlotType DEF TypeOK, Reserve
<1>3. delivery[s] = "none" /\ landed[s] = 0
  BY <1>2 DEF Reserve, SlotInv, RowFirst
<1>4. /\ \A t \in Slot \ {s} : delivery'[t] = delivery[t] /\ landed'[t] = landed[t]
      /\ delivery'[s] = "reserved" /\ landed'[s] = 0
  BY <1>2, <1>3 DEF Reserve, TypeOK
<1>5. UNCHANGED <<item, via>> /\ \A v \in Worker \ {w} : pc'[v] = pc[v]
  BY DEF Reserve, Goto, TypeOK, TickTypeOK
<1>6. \A v \in Worker \ {w} : pc[v] = "send" => SlotOf(v) # s
  BY <1>3 DEF SlotInv, Sending
<1> HIDE DEF s
<1>7. ASSUME NEW t \in Slot, t = s
      PROVE  SlotInv'
  <2>1. SlotOf(w) = t
    BY <1>7 DEF s
  <2>2. QED
    BY <1>1, <1>4, <1>5, <1>6, <1>7, <2>1, AtSlotStep
<1>8. QED
  BY <1>2, <1>7

LEMMA SendSlotInv ==
    ASSUME TypeOK, SlotInv, NEW w \in Worker, pc[w] = "send",
           Delivered(w) \/ Refused(w) \/ Ambiguous(w) \/ Crash(w)
    PROVE  SlotInv'
<1> USE DEF local, hist, table
<1> DEFINE s == SlotOf(w)
<1>1. \A v \in Worker : pc[v] = "send" => SlotOf(v) \in Slot
  BY SlotType DEF TypeOK
<1>2. s \in Slot /\ delivery[s] = "reserved" /\ landed[s] = 0
  BY <1>1 DEF SlotInv, Sending
<1>3. /\ \A t \in Slot \ {s} : delivery'[t] = delivery[t] /\ landed'[t] = landed[t]
      /\ delivery'[s] # "none" /\ landed'[s] <= 1
  BY <1>2 DEF Delivered, Refused, Ambiguous, Crash, TypeOK
<1>4. /\ \A v \in Worker \ {w} :
            pc'[v] = pc[v] /\ item'[v] = item[v] /\ via'[v] = via[v]
      /\ pc'[w] # "send"
  BY DEF Delivered, Refused, Ambiguous, Crash, NextChannel, End, Goto, TypeOK,
         TickTypeOK
<1>5. \A v \in Worker \ {w} : pc[v] = "send" => SlotOf(v) # s
  BY DEF SlotInv, Alone
<1> HIDE DEF s
<1>6. ASSUME NEW t \in Slot, t = s
      PROVE  SlotInv'
  <2>1. SlotOf(w) = t
    BY <1>6 DEF s
  <2>2. QED
    BY <1>1, <1>3, <1>4, <1>5, <1>6, <2>1, AtSlotStep
<1>7. QED
  BY <1>2, <1>6

LEMMA CrashSlotInv ==
    ASSUME TypeOK, SlotInv, NEW w \in Worker, Crash(w)
    PROVE  SlotInv'
<1>1. CASE pc[w] = "send"
  BY <1>1, SendSlotInv
<1>2. CASE pc[w] # "send"
  <2>1. UNCHANGED <<delivery, landed>>
    BY <1>2 DEF Crash, table
  <2>2. \A v \in Worker : pc'[v] = "send" =>
            pc[v] = "send" /\ item'[v] = item[v] /\ via'[v] = via[v]
    BY DEF Crash, End, Goto, TypeOK, TickTypeOK
  <2>3. QED
    BY <2>1, <2>2, OffSlotsStep
<1>3. QED
  BY <1>1, <1>2

LEMMA NextSlotInv == TypeOK /\ SlotInv /\ [Next]_vars => SlotInv'
<1> SUFFICES ASSUME TypeOK, SlotInv, [Next]_vars
             PROVE  SlotInv'
  OBVIOUS
<1>1. CASE UNCHANGED vars
  BY <1>1, OffSlotsStep DEF vars, table, local, hist
<1>2. ASSUME NEW w \in Worker, ReadDue(w) \/ Step(w) \/ Crash(w)
      PROVE  SlotInv'
  <2>1. CASE Delivered(w) \/ Refused(w) \/ Ambiguous(w)
    BY <2>1, SendSlotInv DEF Delivered, Refused, Ambiguous
  <2>2. QED
    BY <1>2, <2>1, OffSlots, ReserveSlotInv, CrashSlotInv DEF Step
<1>3. QED
  BY <1>1, <1>2, OffSlots DEF Next

(***************************************************************************)
(* One occurrence reaches a rep at most once over each channel: the row    *)
(* inserted before the send is never taken back (reserve, complete).       *)
(***************************************************************************)
THEOREM NoDuplicates == Spec => []AtMostOncePerOccurrence
<1>1. Init => SlotInv
  BY DEF Init, SlotInv, RowFirst, Sending, Alone
<1>2. SlotInv => AtMostOncePerOccurrence
  BY DEF SlotInv, RowFirst, AtMostOncePerOccurrence
<1>3. QED
  BY <1>1, <1>2, InitTypeOK, NextTypeOK, NextSlotInv, PTL DEF Spec

---------------------------------------------------------------------------
LEMMA NextOptOut == TypeOK /\ OptOutIsHonoured /\ [Next]_vars => OptOutIsHonoured'
<1> SUFFICES ASSUME TypeOK, OptOutIsHonoured, [Next]_vars
             PROVE  OptOutIsHonoured'
  OBVIOUS
<1> USE DEF local, hist, table
<1>1. ASSUME \A w \in Worker :
                pc'[w] \in {"reserve", "send"} =>
                    /\ pc[w] \in {"reserve", "send"} /\ item'[w] = item[w]
                    /\ w \in late => w \in late',
             out' \subseteq out
      PROVE  OptOutIsHonoured'
  BY <1>1 DEF OptOutIsHonoured, Rem
<1>2. ASSUME NEW w \in Worker,
             \/ NothingDue(w) \/ Retire(w) \/ Rearm(w) \/ LeaveActive(w)
             \/ Crash(w)
      PROVE  OptOutIsHonoured'
  <2>1. End(w) /\ UNCHANGED out
    BY <1>2 DEF NothingDue, Retire, Rearm, LeaveActive, Crash
  <2>2. QED
    BY <1>1, <2>1 DEF End, Goto, TypeOK, TickTypeOK
<1>3. ASSUME NEW w \in Worker,
             \/ ReadDue(w) \/ Reserve(w) \/ AlreadyReserved(w)
             \/ Delivered(w) \/ Refused(w) \/ Ambiguous(w)
             \/ \E i \in queue[w] : OptedOut(w, i) \/ RenderFails(w, i)
      PROVE  OptOutIsHonoured'
  BY <1>1, <1>3
  DEF ReadDue, Reserve, AlreadyReserved, Delivered, Refused, Ambiguous,
      OptedOut, RenderFails, NextChannel, Goto, TypeOK, TickTypeOK
<1>4. ASSUME NEW w \in Worker, NEW i \in queue[w], TakeUp(w, i)
      PROVE  OptOutIsHonoured'
  <2>1. /\ item'[w] = i /\ Owner[i[1]] \notin out
        /\ UNCHANGED <<out, late>>
    BY <1>4 DEF TakeUp, TypeOK, TickTypeOK
  <2>2. \A v \in Worker \ {w} : pc'[v] = pc[v] /\ item'[v] = item[v]
    BY <1>4 DEF TakeUp, Goto, TypeOK, TickTypeOK
  <2>3. QED
    BY <2>1, <2>2 DEF OptOutIsHonoured, Rem
<1>5. ASSUME NEW p \in Rep, OptOut(p)
      PROVE  OptOutIsHonoured'
  <2>1. \A w \in Worker : pc[w] \in {"reserve", "send"} => item[w] # NoItem
    BY DEF TypeOK, TickTypeOK
  <2>2. QED
    BY <1>5, <2>1 DEF OptOut, OptOutIsHonoured, Rem
<1>6. CASE \/ \E r \in Reminder : Ask(r) \/ Create(r) \/ Cancel(r)
           \/ \E p \in Rep : OptIn(p)
           \/ Tick \/ UNCHANGED vars
  BY <1>1, <1>6 DEF Ask, Create, Cancel, OptIn, Tick, vars
<1>7. QED
  BY <1>2, <1>3, <1>4, <1>5, <1>6 DEF Next, Step

(***************************************************************************)
(* A rep who opted out hears at most of the reminder a worker already had  *)
(* past its test (set_optout, run).                                        *)
(***************************************************************************)
THEOREM OptOutHolds == Spec => []OptOutIsHonoured
<1>1. Init => OptOutIsHonoured
  BY DEF Init, OptOutIsHonoured
<1>2. QED
  BY <1>1, InitTypeOK, NextTypeOK, NextOptOut, PTL DEF Spec

================================================================================
