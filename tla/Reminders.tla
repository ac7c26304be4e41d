-------------------------------- MODULE Reminders --------------------------------
(***************************************************************************)
(* Reminders a rep asked for (reminders.py), the worker that delivers them *)
(* (reminder_worker.py) and the right to switch them off.                  *)
(*                                                                         *)
(* A cron tick reads what is due, oldest first, and delivers one reminder: *)
(* for each of its channels it reserves the occurrence, sends, and records *)
(* the outcome; then it re-arms or retires the reminder if the lines it is *)
(* about to log say "delivered".  Ticks may overlap and die anywhere; a    *)
(* send may land or not whatever is known of it; a rep may cancel, opt out *)
(* and opt in at any point.                                                *)
(*                                                                         *)
(* Time counts in steps of the cadence: occurrence k of a reminder is due  *)
(* from time k on, and is the key of its deliveries (occurrence_key).      *)
(***************************************************************************)
EXTENDS Integers, FiniteSets

CONSTANTS Worker,         \* processes that may run reminder_worker.run
          Reminder,       \* ids the reminders table hands out
          Rep,
          Owner,          \* Reminder -> requested_by_slack
          Via,            \* Reminder -> its channels, deliver_via
          Recurring,      \* the reminders whose cadence is not 'once'
          MaxOccurrences, \* MAX_OCCURRENCES
          MaxTime,        \* BOUND: how long time goes on
          MaxCrashes      \* BOUND: ticks that die

Channel == {"slack", "email"}
Time == 0..MaxTime
Occurrence == 0..(MaxTime + 1)
Slot == Reminder \X Occurrence \X Channel

ASSUME ReminderAssumption ==
    /\ Owner \in [Reminder -> Rep]
    /\ Via \in [Reminder -> (SUBSET Channel) \ {{}}]
    /\ Recurring \subseteq Reminder
    /\ MaxOccurrences \in Nat \ {0}
    /\ MaxTime \in Nat /\ MaxCrashes \in Nat

VARIABLES
    state,     \* reminders.state; "asked": past the opt-out test of create
    due,       \* reminders.next_due_at
    delivery,  \* reminder_deliveries: the state of each slot's row
    out,       \* reps with an active opt-out from reminders
    now,
    pc,
    queue,     \* what is left of due(): pairs of a reminder and an occurrence
    item,      \* the pair being worked on
    via,       \* its channels still to do
    heard,     \* "delivered" stands in the lines of this reminder
    landed,    \* history: how often a slot's message reached the rep
    late,      \* history: the rep opted out after this worker had tested it
    crashes

table == <<state, due, delivery, out>>
local == <<queue, item, via, heard>>
hist == <<landed, late>>
vars == <<table, now, pc, local, hist, crashes>>

States == {"none", "asked", "active", "cancelled", "completed", "failed"}
Outcomes == {"none", "reserved", "delivered", "failed", "unknown"}
NoItem == <<>>

\* The variables of the ticks.
TickTypeOK ==
    /\ pc \in [Worker -> {"off", "next", "reserve", "send"}]
    /\ queue \in [Worker -> SUBSET (Reminder \X Occurrence)]
    /\ item \in [Worker -> (Reminder \X Occurrence) \cup {NoItem}]
    /\ \A w \in Worker : pc[w] \in {"reserve", "send"} => item[w] # NoItem
    /\ via \in [Worker -> SUBSET Channel]
    /\ \A w \in Worker : pc[w] = "send" => via[w] # {}
    /\ heard \in [Worker -> BOOLEAN]
    /\ late \subseteq Worker

\* Every value stays in its domain; who delivers has an item and a channel.
TypeOK ==
    /\ state \in [Reminder -> States]
    /\ due \in [Reminder -> Occurrence]
    /\ delivery \in [Slot -> Outcomes]
    /\ out \subseteq Rep
    /\ now \in Time
    /\ landed \in [Slot -> Nat]
    /\ crashes \in 0..MaxCrashes
    /\ TickTypeOK

Init ==
    /\ state = [r \in Reminder |-> "none"]
    /\ due = [r \in Reminder |-> 0]
    /\ delivery = [s \in Slot |-> "none"]
    /\ out = {} /\ now = 0
    /\ pc = [w \in Worker |-> "off"]
    /\ queue = [w \in Worker |-> {}]
    /\ item = [w \in Worker |-> NoItem]
    /\ via = [w \in Worker |-> {}]
    /\ heard = [w \in Worker |-> FALSE]
    /\ landed = [s \in Slot |-> 0] /\ late = {}
    /\ crashes = 0

Goto(w, p) == pc' = [pc EXCEPT ![w] = p]

End(w) ==
    /\ Goto(w, "off")
    /\ queue' = [queue EXCEPT ![w] = {}]
    /\ item' = [item EXCEPT ![w] = NoItem]
    /\ via' = [via EXCEPT ![w] = {}]
    /\ heard' = [heard EXCEPT ![w] = FALSE]
    /\ late' = late \ {w}

---------------------------------------------------------------------------
(***************************************************************************)
(* What the rep does.                                                      *)
(***************************************************************************)
\* create: the opt-out is tested, then the row inserted.
Ask(r) ==
    /\ state[r] = "none" /\ Owner[r] \notin out
    /\ state' = [state EXCEPT ![r] = "asked"]
    /\ UNCHANGED <<due, delivery, out, now, pc, local, hist, crashes>>

\* Due at once: one due later is in the table for nobody but the rep.
Create(r) ==
    /\ state[r] = "asked"
    /\ state' = [state EXCEPT ![r] = "active"]
    /\ due' = [due EXCEPT ![r] = now]
    /\ UNCHANGED <<delivery, out, now, pc, local, hist, crashes>>

Cancel(r) ==
    /\ state[r] = "active"
    /\ state' = [state EXCEPT ![r] = "cancelled"]
    /\ UNCHANGED <<due, delivery, out, now, pc, local, hist, crashes>>

\* set_optout: one transaction with the cancelling of what is active.
OptOut(p) ==
    /\ p \notin out
    /\ out' = out \cup {p}
    /\ state' = [r \in Reminder |->
                   IF Owner[r] = p /\ state[r] = "active" THEN "cancelled"
                                                          ELSE state[r]]
    /\ late' = late \cup {w \in Worker :
                             item[w] # NoItem /\ Owner[item[w][1]] = p}
    /\ UNCHANGED <<due, delivery, now, pc, local, landed, crashes>>

OptIn(p) ==
    /\ p \in out
    /\ out' = out \ {p}
    /\ UNCHANGED <<state, due, delivery, now, pc, local, hist, crashes>>

---------------------------------------------------------------------------
(***************************************************************************)
(* reminder_worker.run.                                                    *)
(***************************************************************************)
ReadDue(w) ==
    /\ pc[w] = "off"
    /\ queue' = [queue EXCEPT ![w] =
          {<<r, due[r]>> : r \in {q \in Reminder :
                                     state[q] = "active" /\ due[q] <= now}}]
    /\ Goto(w, "next")
    /\ UNCHANGED <<table, now, item, via, heard, hist, crashes>>

NothingDue(w) ==
    /\ pc[w] = "next" /\ queue[w] = {}
    /\ End(w)
    /\ UNCHANGED <<table, now, landed, crashes>>

Oldest(w) == {i \in queue[w] : \A j \in queue[w] : i[2] <= j[2]}

OptedOut(w, i) ==
    /\ pc[w] = "next" /\ i \in Oldest(w)
    /\ Owner[i[1]] \in out
    /\ state' = [state EXCEPT ![i[1]] = IF @ = "active" THEN "cancelled" ELSE @]
    /\ queue' = [queue EXCEPT ![w] = @ \ {i}]
    /\ UNCHANGED <<due, delivery, out, now, pc, item, via, heard, hist, crashes>>

\* Mutant of TakeUp: the worker does not look at the opt-outs.
TakeUpAnyway(w, i) ==
    /\ pc[w] = "next" /\ i \in Oldest(w)
    /\ queue' = [queue EXCEPT ![w] = @ \ {i}]
    /\ item' = [item EXCEPT ![w] = i]
    /\ via' = [via EXCEPT ![w] = Via[i[1]]]
    /\ Goto(w, "reserve")
    /\ UNCHANGED <<table, now, heard, hist, crashes>>

\* Past the opt-out test, and rendered.
TakeUp(w, i) ==
    /\ pc[w] = "next" /\ i \in Oldest(w)
    /\ Owner[i[1]] \notin out
    /\ queue' = [queue EXCEPT ![w] = @ \ {i}]
    /\ item' = [item EXCEPT ![w] = i]
    /\ via' = [via EXCEPT ![w] = Via[i[1]]]
    /\ Goto(w, "reserve")
    /\ UNCHANGED <<table, now, heard, hist, crashes>>

\* Mutant of RenderFails: the exception leaves run, and the reminder active.
RenderRaises(w, i) ==
    /\ pc[w] = "next" /\ i \in Oldest(w)
    /\ Owner[i[1]] \notin out
    /\ End(w)
    /\ UNCHANGED <<table, now, landed, crashes>>

\* The search raised: failed, whatever the state is by now.
RenderFails(w, i) ==
    /\ pc[w] = "next" /\ i \in Oldest(w)
    /\ Owner[i[1]] \notin out
    /\ queue' = [queue EXCEPT ![w] = @ \ {i}]
    /\ state' = [state EXCEPT ![i[1]] = "failed"]
    /\ UNCHANGED <<due, delivery, out, now, pc, item, via, heard, hist, crashes>>

---------------------------------------------------------------------------
(***************************************************************************)
(* _deliver_slack, then _deliver_email.                                    *)
(***************************************************************************)
Rem(w) == item[w][1]

Turn(w) == IF "slack" \in via[w] THEN "slack" ELSE "email"

SlotOf(w) == <<Rem(w), item[w][2], Turn(w)>>

NextChannel(w) ==
    /\ via' = [via EXCEPT ![w] = @ \ {Turn(w)}]
    /\ Goto(w, "reserve")

\* Mutant of Reserve: a slot that failed or is uncertain may be tried again.
ReserveAgain(w) ==
    /\ pc[w] = "reserve" /\ via[w] # {}
    /\ delivery[SlotOf(w)] # "delivered"
    /\ delivery' = [delivery EXCEPT ![SlotOf(w)] = "reserved"]
    /\ Goto(w, "send")
    /\ UNCHANGED <<state, due, out, now, local, hist, crashes>>

Reserve(w) ==
    /\ pc[w] = "reserve" /\ via[w] # {}
    /\ delivery[SlotOf(w)] = "none"
    /\ delivery' = [delivery EXCEPT ![SlotOf(w)] = "reserved"]
    /\ Goto(w, "send")
    /\ UNCHANGED <<state, due, out, now, local, hist, crashes>>

\* The row exists, whatever became of it: "already delivered".
AlreadyReserved(w) ==
    /\ pc[w] = "reserve" /\ via[w] # {}
    /\ delivery[SlotOf(w)] # "none"
    /\ heard' = [heard EXCEPT ![w] = TRUE]
    /\ NextChannel(w)
    /\ UNCHANGED <<table, now, queue, item, hist, crashes>>

\* The answer came; a refusal or a missing client; or nothing usable, and the
\* message may be there all the same.
Delivered(w) ==
    /\ pc[w] = "send"
    /\ landed' = [landed EXCEPT ![SlotOf(w)] = @ + 1]
    /\ delivery' = [delivery EXCEPT ![SlotOf(w)] = "delivered"]
    /\ heard' = [heard EXCEPT ![w] = TRUE]
    /\ NextChannel(w)
    /\ UNCHANGED <<state, due, out, now, queue, item, late, crashes>>

Refused(w) ==
    /\ pc[w] = "send"
    /\ delivery' = [delivery EXCEPT ![SlotOf(w)] = "failed"]
    /\ NextChannel(w)
    /\ UNCHANGED <<state, due, out, now, queue, item, heard, hist, crashes>>

Ambiguous(w) ==
    /\ pc[w] = "send"
    /\ \E n \in {0, 1} : landed' = [landed EXCEPT ![SlotOf(w)] = @ + n]
    /\ delivery' = [delivery EXCEPT ![SlotOf(w)] = "unknown"]
    /\ NextChannel(w)
    /\ UNCHANGED <<state, due, out, now, queue, item, heard, late, crashes>>

---------------------------------------------------------------------------
DeliveredSlots(r) == {s \in Slot : s[1] = r /\ delivery[s] = "delivered"}

\* Both channels done.
Done(w) == pc[w] = "reserve" /\ via[w] = {}

RunItsCourse(r) == Cardinality(DeliveredSlots(r)) >= MaxOccurrences

\* advance, for one reminder and this tick.
Retire(w) ==
    /\ Done(w) /\ heard[w]
    /\ Rem(w) \in Recurring => RunItsCourse(Rem(w))
    /\ state' = [state EXCEPT ![Rem(w)] = "completed"]
    /\ End(w)
    /\ UNCHANGED <<due, delivery, out, now, landed, crashes>>

\* From the due time in whole steps to the first one still to come.
Rearm(w) ==
    /\ Done(w) /\ heard[w]
    /\ Rem(w) \in Recurring /\ ~RunItsCourse(Rem(w))
    /\ due' = [due EXCEPT ![Rem(w)] = now + 1]
    /\ End(w)
    /\ UNCHANGED <<state, delivery, out, now, landed, crashes>>

\* Left active for the next tick.
LeaveActive(w) ==
    /\ Done(w) /\ ~heard[w]
    /\ End(w)
    /\ UNCHANGED <<table, now, landed, crashes>>

Crash(w) ==
    /\ pc[w] # "off" /\ crashes < MaxCrashes
    /\ crashes' = crashes + 1
    /\ \/ UNCHANGED landed
       \/ pc[w] = "send" /\ landed' = [landed EXCEPT ![SlotOf(w)] = @ + 1]
    /\ End(w)
    /\ UNCHANGED <<table, now>>

Tick ==
    /\ now < MaxTime /\ now' = now + 1
    /\ UNCHANGED <<table, pc, local, hist, crashes>>

Step(w) ==
    \/ NothingDue(w)
    \/ \E i \in queue[w] : OptedOut(w, i) \/ TakeUp(w, i) \/ RenderFails(w, i)
    \/ Reserve(w) \/ AlreadyReserved(w)
    \/ Delivered(w) \/ Refused(w) \/ Ambiguous(w)
    \/ Retire(w) \/ Rearm(w) \/ LeaveActive(w)

Next ==
    \/ \E r \in Reminder : Ask(r) \/ Create(r) \/ Cancel(r)
    \/ \E p \in Rep : OptOut(p) \/ OptIn(p)
    \/ \E w \in Worker : ReadDue(w) \/ Step(w) \/ Crash(w)
    \/ Tick

Spec == Init /\ [][Next]_vars

\* Cron goes on starting ticks, and a tick that was started goes on.
LiveSpec == Spec /\ \A w \in Worker : WF_vars(ReadDue(w)) /\ WF_vars(Step(w))

---------------------------------------------------------------------------
(***************************************************************************)
(* One occurrence reaches a rep at most once over each channel, however    *)
(* ticks overlap, die and come back (reserve, complete, advance).          *)
(***************************************************************************)
AtMostOncePerOccurrence == \A s \in Slot : landed[s] <= 1

(***************************************************************************)
(* A rep who opted out hears at most of the reminder a tick already had in *)
(* hand: a stale queue or a reminder created across the opt-out ends at    *)
(* the worker's own test (create, set_optout, run).                        *)
(***************************************************************************)
OptOutIsHonoured ==
    \A w \in Worker :
        pc[w] \in {"reserve", "send"} /\ Owner[Rem(w)] \in out => w \in late

(***************************************************************************)
(* One bad reminder does not stop the rest, although a tick takes only the *)
(* oldest: each due occurrence leaves the head of the queue.               *)
(***************************************************************************)
NoneWedged ==
    \A r \in Reminder, k \in Time :
        (state[r] = "active" /\ due[r] = k /\ k <= now)
            ~> ~(state[r] = "active" /\ due[r] = k)

================================================================================
