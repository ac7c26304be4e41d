------------------------------- MODULE Turns ---------------------------------
(***************************************************************************)
(* The turns of one Slack thread with Grant (slack/grant.py,               *)
(* slack/conversation.py) and the watchdog over them (slack/watchdog.py).  *)
(*                                                                         *)
(* A message to Grant is claimed by a receipt, waits for the thread's      *)
(* lock, shows a spinner, and runs an agent loop: the model answers or     *)
(* asks for tools, some of which send, spend or read a stranger's page.    *)
(* The spinner is then edited into the answer and the receipt is closed.   *)
(* Slack may deliver a message again, its calls may fail, the process may  *)
(* die, and another process looks after the spinners left behind.          *)
(***************************************************************************)
EXTENDS Integers, Sequences, FiniteSets

CONSTANTS Message,       \* what people say to Grant in this thread
          Listener,      \* handler threads of the Slack app
          None,
          Arg,           \* arguments the model may give a tool
          MaxToolTurns,  \* MAX_TOOL_TURNS
          MaxFetches,    \* MAX_FETCHES_PER_TURN
          MaxBlocks,     \* BOUND: tool calls in one model turn
          MaxRestarts    \* BOUND: the process dies

ASSUME TurnsAssumption ==
    /\ None \notin Message \cup Listener
    /\ MaxToolTurns \in Nat /\ MaxFetches \in Nat /\ MaxBlocks \in Nat

VARIABLES
    drip,      \* the thread hangs under a lead's post (_handle_drip_thread)
    receipt,   \* state of each message's receipt
    reviewed,  \* receipts somebody has dealt with
    old,       \* receipts older than STUCK_AFTER
    lock,      \* the listener that holds the thread
    screen,    \* what Grant has posted: spinners, final texts, recoveries
    step, msg, \* where a listener is, and its message
    loop,      \* its agent loop: model turns taken, tool calls of the present
               \* one, keys of the results kept, pages scraped; history: mails
               \* and pulls started
    spot,      \* the listener's own message on the screen; 0 without
    repair,    \* the watchdog: the receipt it works on, the spinner it found
    turns,     \* history: turns started for a message,
    swayed,    \*   messages whose model had tools left after it read a page,
    answered,  \*   and messages whose answer reached Slack
    restarts

turn == <<step, msg, loop, spot>>
effects == <<turns, swayed, answered>>
turnsVars == <<drip, receipt, reviewed, old, lock, screen, turn, repair,
               effects, restarts>>

\* Tools that send or spend, tools that read a page, and those that only
\* look into Grant's own records, whose arguments tell nothing apart.
Mail == {"email_results"} \X Arg
Page == {"fetch_url"} \X Arg
Tool == Mail \cup Page \cup {<<"search_leads", None>>}

\* The watchdog has no turn in hand.
NoRepair == [of |-> None, at |-> 0]

NoLoop == [round |-> 0, blocks |-> 0, cached |-> {}, paid |-> 0,
           sent |-> 0]

TurnsInit ==
    /\ drip \in BOOLEAN
    /\ receipt = [m \in Message |-> "none"]
    /\ reviewed = {} /\ old = {}
    /\ lock = None
    /\ screen = <<>>
    /\ step = [l \in Listener |-> "idle"]
    /\ msg = [l \in Listener |-> None]
    /\ loop = [l \in Listener |-> NoLoop]
    /\ spot = [l \in Listener |-> 0]
    /\ repair = NoRepair
    /\ swayed = {} /\ answered = {}
    /\ turns = [m \in Message |-> 0]
    /\ restarts = 0

Enter(l, s) == step' = [step EXCEPT ![l] = s]

\* respond returns or raises.
Leave(l, s) == Enter(l, s) /\ loop' = [loop EXCEPT ![l] = NoLoop]

\* The listener drops what it held for the turn.
Idle(ls) ==
    LET reset(f, x) == [l \in Listener |-> IF l \in ls THEN x ELSE f[l]]
    IN /\ step' = reset(step, "idle") /\ msg' = reset(msg, None)
       /\ loop' = reset(loop, NoLoop) /\ spot' = reset(spot, 0)

---------------------------------------------------------------------------
(***************************************************************************)
(* on_mention, on_message: claim, wait, show a spinner.                    *)
(***************************************************************************)
Unclaimed(m) == receipt[m] = "none"

\* claim_slack_event: Slack may deliver a message any number of times.
Deliver(l, m) ==
    /\ step[l] = "idle" /\ Unclaimed(m)
    /\ receipt' = [receipt EXCEPT ![m] = "processing"]
    /\ msg' = [msg EXCEPT ![l] = m]
    /\ Enter(l, "wait")
    /\ UNCHANGED <<drip, reviewed, old, lock, screen, loop, spot, repair,
                   effects, restarts>>

\* _thread_lock, then _Status.start: the spinner may fail to appear.
Begin(l) ==
    /\ step[l] = "wait" /\ lock = None
    /\ lock' = l
    /\ turns' = [turns EXCEPT ![msg[l]] = @ + 1]
    /\ \/ /\ screen' = Append(screen, "spinner")
          /\ spot' = [spot EXCEPT ![l] = Len(screen) + 1]
       \/ UNCHANGED <<screen, spot>>
    /\ Enter(l, "think")
    /\ UNCHANGED <<drip, receipt, reviewed, old, msg, loop, repair, swayed,
                   answered, restarts>>

(***************************************************************************)
(* conversation.respond.                                                   *)
(***************************************************************************)
\* The model asks for tools, falls silent, answers, or cannot be reached.
Think(l) ==
    /\ step[l] = "think"
    /\ \/ Enter(l, "tools") /\ loop' = [loop EXCEPT ![l].blocks = 0]
       \/ /\ loop[l].round < MaxToolTurns - 1
          /\ loop' = [loop EXCEPT ![l].round = @ + 1]
          /\ UNCHANGED step
       \/ Leave(l, "act")
       \/ Leave(l, "apologize")
    /\ UNCHANGED <<drip, receipt, reviewed, old, lock, screen, msg, spot,
                   repair, effects, restarts>>

\* _single_execution_tool_key, else the tool and its arguments.
CacheKey(t) == IF t[1] = "email_results" THEN <<t[1], None>> ELSE t

HasRead(l) == \E k \in loop[l].cached : k[1] = "fetch_url"

\* An unanchored search makes the turn end with one scoping question.
AskScope(l) ==
    /\ step[l] = "tools" /\ loop[l].blocks < MaxBlocks
    /\ Leave(l, "act")
    /\ UNCHANGED <<drip, receipt, reviewed, old, lock, screen, msg, spot,
                   repair, effects, restarts>>

\* Neither in the cache nor over the page budget.
Runs(l, t) ==
    /\ CacheKey(t) \notin loop[l].cached
    /\ t[1] = "fetch_url" => loop[l].paid < MaxFetches

\* One tool call of the model's turn: the result is kept, also where the call
\* was answered from the cache or turned down.
RunTool(l, t) ==
    LET one(class) == IF Runs(l, t) /\ t \in class THEN 1 ELSE 0
    IN /\ step[l] = "tools" /\ loop[l].blocks < MaxBlocks
       /\ loop' = [loop EXCEPT ![l].blocks = @ + 1,
                               ![l].cached = @ \cup {CacheKey(t)},
                               ![l].paid = @ + one(Page),
                               ![l].sent = @ + one(Mail)]
       /\ UNCHANGED <<drip, receipt, reviewed, old, lock, screen, step, msg,
                      spot, repair, effects, restarts>>

\* run_tool lets exceptions through, and what was sent or bought is out.
ToolRaises(l, t) ==
    /\ step[l] = "tools" /\ loop[l].blocks < MaxBlocks /\ Runs(l, t)
    /\ Leave(l, "apologize")
    /\ UNCHANGED <<drip, receipt, reviewed, old, lock, screen, msg, spot,
                   repair, effects, restarts>>

\* Mutant of StopAfter: reading a page does not end the loop.
StopAfterLast(l) == loop[l].round = MaxToolTurns - 1

\* A page a stranger wrote has been read, or the turns are used up.
StopAfter(l) == HasRead(l) \/ loop[l].round = MaxToolTurns - 1

ToolsDone(l) ==
    /\ step[l] = "tools" /\ loop[l].blocks > 0
    /\ IF StopAfter(l)
       THEN Leave(l, "act") /\ UNCHANGED swayed
       ELSE /\ Enter(l, "think")
            /\ loop' = [loop EXCEPT ![l].round = @ + 1]
            /\ swayed' = IF HasRead(l) THEN swayed \cup {msg[l]} ELSE swayed
    /\ UNCHANGED <<drip, receipt, reviewed, old, lock, screen, msg, spot,
                   repair, turns, answered, restarts>>

---------------------------------------------------------------------------
(***************************************************************************)
(* _handle_drip_thread, _converse_general: act on the intent and answer.   *)
(***************************************************************************)
\* Under a lead's post: uploads are contained, the intent's own action (a
\* draft request, a status of the lead) is not.
ActOnLead(l) ==
    /\ step[l] = "act" /\ drip
    /\ Enter(l, "answer") \/ Enter(l, "raised")
    /\ UNCHANGED <<drip, receipt, reviewed, old, lock, screen, msg, loop, spot,
                   repair, effects, restarts>>

\* Elsewhere everything that raises ends in the fallback answer.
ActInGeneral(l) ==
    /\ step[l] = "act" /\ ~drip
    /\ Enter(l, "answer") \/ Enter(l, "apologize")
    /\ UNCHANGED <<drip, receipt, reviewed, old, lock, screen, msg, loop, spot,
                   repair, effects, restarts>>

\* _Status.finalize: edit the spinner, else post, else give up.
Finalize(l) ==
    LET told == answered' = answered \cup {msg[l]}
    IN /\ step[l] \in {"answer", "apologize"}
       /\ \/ /\ spot[l] > 0
             /\ screen' = [screen EXCEPT ![spot[l]] = "final"]
             /\ told
             /\ Enter(l, IF step[l] = "answer" THEN "remember" ELSE "delivered")
          \/ /\ screen' = Append(screen, "final")
             /\ told
             /\ Enter(l, IF step[l] = "answer" THEN "remember" ELSE "delivered")
          \/ /\ Enter(l, "undelivered")
             /\ UNCHANGED <<screen, answered>>
       /\ UNCHANGED <<drip, receipt, reviewed, old, lock, msg, loop, spot,
                      repair, turns, swayed, restarts>>

\* _remember_from swallows its errors, but not the connection of its caller.
Remember(l) ==
    /\ step[l] = "remember"
    /\ \/ Enter(l, "delivered")
       \/ ~drip /\ Enter(l, "apologize")
    /\ UNCHANGED <<drip, receipt, reviewed, old, lock, screen, msg, loop, spot,
                   repair, effects, restarts>>

\* Leaving the with block, on a return or on an exception.
Unlock(l) ==
    /\ step[l] \in {"delivered", "undelivered", "raised"} /\ lock = l
    /\ lock' = None
    /\ UNCHANGED <<drip, receipt, reviewed, old, screen, turn, repair, effects,
                   restarts>>

\* Mutant of Outcome: the return value of finalize is ignored.
OutcomeUnlessRaised(l) ==
    IF step[l] = "raised" THEN "needs_reconciliation" ELSE "complete"

Outcome(l) ==
    IF step[l] = "delivered" THEN "complete" ELSE "needs_reconciliation"

\* finish_slack_event.
Finish(l) ==
    /\ step[l] \in {"delivered", "undelivered", "raised"} /\ lock # l
    /\ receipt' = [receipt EXCEPT ![msg[l]] = Outcome(l)]
    /\ Idle({l})
    /\ UNCHANGED <<drip, reviewed, old, lock, screen, repair, effects,
                   restarts>>

\* The process dies with all its listeners and locks; or the watchdog does.
Restart ==
    /\ restarts < MaxRestarts
    /\ restarts' = restarts + 1
    /\ \/ Idle(Listener) /\ lock' = None /\ UNCHANGED repair
       \/ repair' = NoRepair /\ UNCHANGED <<turn, lock>>
    /\ UNCHANGED <<drip, receipt, reviewed, old, screen, effects>>

---------------------------------------------------------------------------
(***************************************************************************)
(* The watchdog, and the operator's review.                                *)
(***************************************************************************)
Open(m) ==
    receipt[m] \in {"processing", "needs_reconciliation"} /\ m \notin reviewed

\* STUCK_AFTER passes: only for a turn no listener is running by then.
GrowOld(m) ==
    /\ Open(m) /\ m \notin old
    /\ \A l \in Listener : msg[l] = m => step[l] = "wait"
    /\ old' = old \cup {m}
    /\ UNCHANGED <<drip, receipt, reviewed, lock, screen, turn, repair,
                   effects, restarts>>

\* stuck_turns, find_spinner: only Grant's latest message is looked at.
Inspect(m) ==
    /\ repair.of = None /\ Open(m) /\ m \in old
    /\ IF screen # <<>> /\ screen[Len(screen)] = "spinner"
       THEN repair' = [of |-> m, at |-> Len(screen)] /\ UNCHANGED reviewed
       ELSE reviewed' = reviewed \cup {m} /\ UNCHANGED repair
    /\ UNCHANGED <<drip, receipt, old, lock, screen, turn, effects, restarts>>

\* The recovery text replaces the message, if Slack takes the edit.
Mend ==
    /\ repair.at > 0
    /\ \/ /\ screen' = [screen EXCEPT ![repair.at] = "recovery"]
          /\ repair' = [repair EXCEPT !.at = 0]
       \/ /\ repair' = NoRepair
          /\ UNCHANGED screen
    /\ UNCHANGED <<drip, receipt, reviewed, old, lock, turn, effects,
                   restarts>>

\* _mark_reviewed.
MarkReviewed ==
    /\ repair.of # None /\ repair.at = 0
    /\ reviewed' = reviewed \cup {repair.of}
    /\ repair' = NoRepair
    /\ UNCHANGED <<drip, receipt, old, lock, screen, turn, effects, restarts>>

\* mark_slack_event_reviewed, from the command line.
Review(m) ==
    /\ receipt[m] = "needs_reconciliation" /\ m \notin reviewed
    /\ reviewed' = reviewed \cup {m}
    /\ UNCHANGED <<drip, receipt, old, lock, screen, turn, repair, effects,
                   restarts>>

TurnsNext ==
    \/ \E l \in Listener :
          \/ \E m \in Message : Deliver(l, m)
          \/ Begin(l) \/ Think(l) \/ AskScope(l) \/ ToolsDone(l)
          \/ \E t \in Tool : RunTool(l, t) \/ ToolRaises(l, t)
          \/ ActOnLead(l) \/ ActInGeneral(l)
          \/ Finalize(l) \/ Remember(l) \/ Unlock(l) \/ Finish(l)
    \/ Restart
    \/ \E m \in Message : GrowOld(m) \/ Inspect(m) \/ Review(m)
    \/ Mend \/ MarkReviewed

TurnsSpec == TurnsInit /\ [][TurnsNext]_turnsVars

---------------------------------------------------------------------------
(***************************************************************************)
(* What a person said is acted on once: whatever Slack delivers again and  *)
(* whenever the process dies, one message starts one turn, sends one mail, *)
(* buys no more pages than the budget, and no tool is left to a model that *)
(* has read a stranger's page (claim_slack_event, respond).                *)
(***************************************************************************)
WordsActOnce ==
    /\ \A m \in Message : turns[m] <= 1
    /\ \A l \in Listener : loop[l].sent <= 1 /\ loop[l].paid <= MaxFetches
    /\ swayed = {}

(***************************************************************************)
(* Nobody is left without an answer unnoticed: a message no listener works *)
(* on any more was answered, or its receipt still says that it was not     *)
(* (finish_slack_event; what the watchdog and the follow-ups look for).    *)
(***************************************************************************)
NoSilentEnd ==
    \A m \in Message :
        /\ receipt[m] # "none" /\ \A l \in Listener : msg[l] # m
        /\ m \notin answered
        => receipt[m] \in {"processing", "needs_reconciliation"}
================================================================================
