-------------------------------- MODULE Nudges --------------------------------
(***************************************************************************)
(* Proactive follow-ups (slack/nudges.py, nudge_sources.py,                *)
(* nudge_silence.py, nudge_variants.py) and the register they answer from  *)
(* (capability_asks.py, announce.py).                                      *)
(*                                                                         *)
(* A run lists every piece of unfinished work, looks for a reason to stay  *)
(* quiet, paces itself, reserves the subject in a row of followup_nudges   *)
(* and posts.  Reading the database, asking Slack, reserving, posting and  *)
(* recording are separate steps: cron starts runs without a lock, people   *)
(* act meanwhile, and a run may die anywhere.                              *)
(***************************************************************************)
EXTENDS Integers, FiniteSets

CONSTANTS Card,        \* cards of one lead each in a channel
          Ask,         \* things reps asked for that Grant could not do
          Work,        \* Salesforce previews and batches waiting for a person
          Thread,      \* conversations Grant failed to answer
          Person, Manager, Nobody,
          Owner,       \* the person each of them belongs to, or Nobody
          Audience, Channel,
          Place,       \* the audience each of them is in
          Worker,
          MaxPerDay, MaxPerPerson,
          MaxDays,     \* BOUND
          MaxRuns,     \* BOUND: runs of the cron job
          MaxActs,     \* BOUND: what people do meanwhile
          MaxCrashes   \* BOUND

Thing == Card \cup Ask \cup Work \cup Thread

ASSUME NudgeAssumption ==
    /\ Manager \in Person /\ Nobody \notin Person
    /\ Owner \in [Thing -> Person \cup {Nobody}]
    /\ Channel \subseteq Audience
    /\ Place \in [Thing -> Audience]
    /\ {MaxPerDay, MaxPerPerson} \subseteq Nat
    /\ IsFiniteSet(Thing)
    /\ MaxDays \in Nat \ {0} /\ {MaxRuns, MaxActs, MaxCrashes} \subseteq Nat

\* NUDGE_SUBJECT_KINDS; the two kinds of stopped batches are Work.
Subject == ({"card_unengaged", "card_escalated"} \X Card)
           \cup ({"capability_now_available", "offer_unanswered"} \X Ask)
           \cup ({"work"} \X Work) \cup ({"thread_abandoned"} \X Thread)

ChannelPostKinds == {"card_escalated", "offer_unanswered"}

VARIABLES
    day,
    due,       \* subjects whose grace is over
    stale,     \* subjects past DROP_AFTER
    settled,   \* things whose records show that somebody acted
    parked,    \* cards of leads that a person set aside
    claimed,   \* cards of leads that a rep claims now
    replied,   \* things somebody answered in Slack
    optout,    \* people who asked for no follow-ups
    guard,     \* a channel guard is active
    ask,       \* state of each capability_asks row
    engaged,   \* offers with engaged_at
    news,      \* the announcement row: pending until posted_at is set
    state,     \* of each subject's followup_nudges row
    on,        \* the day of its reserved_at
    to,        \* its target_slack
    landed,    \* history: messages about a subject that reached Slack
    refused,   \* history: subjects whose target Slack refused
    named,     \* history: cards whose owner an escalation named
    after,     \* history: cards whose owner was asked after that
    aired,     \* history: announcements that reached Slack
    overlap,   \* history: two runs were under way at once
    pc, queue,
    tagged,    \* cards the run takes their owner to be tagged on
    idle,      \* cards the run has seen parked
    cur, answer, runs, acts, crashes

\* No subject in hand.
nobody == <<"none", Nobody>>

world == <<due, stale, settled, parked, claimed, replied, optout, guard>>
asks == <<ask, engaged, news>>
ledger == <<state, on, to>>
history == <<landed, refused, named, after, aired, overlap>>
view == <<queue, tagged, idle>>
local == <<pc, view, cur, answer>>
bounds == <<runs, acts, crashes>>
vars == <<day, world, asks, ledger, history, local, bounds>>

State == {"none", "reserved", "delivered", "unknown", "suppressed"}

Point == {"idle", "list", "retire", "slack", "pace", "reserve", "post", "back",
          "close", "air", "told"}

WorldOK ==
    /\ due \subseteq Subject /\ stale \subseteq due
    /\ settled \subseteq Thing /\ parked \subseteq Card
    /\ claimed \subseteq Card /\ replied \subseteq Thing
    /\ optout \subseteq Person /\ guard \in BOOLEAN

AsksOK ==
    /\ ask \in [Ask -> {"none", "waiting", "shipped", "answered"}]
    /\ engaged \subseteq Ask /\ news \in {"pending", "posted"}

LedgerOK ==
    /\ state \in [Subject -> State] /\ on \in [Subject -> 0..MaxDays]
    /\ to \in [Subject -> Person \cup {Nobody}]

HistoryOK ==
    /\ landed \in [Subject -> Nat] /\ refused \subseteq Subject
    /\ named \subseteq Card /\ after \subseteq Card /\ aired \in Nat
    /\ overlap \in BOOLEAN

RunsOK ==
    /\ pc \in [Worker -> Point]
    /\ queue \in [Worker -> SUBSET Subject]
    /\ tagged \in [Worker -> SUBSET Card] /\ idle \in [Worker -> SUBSET Card]
    /\ cur \in [Worker -> Subject \cup {nobody}]
    /\ answer \in [Worker -> {"none", "ok", "lost", "bad_target", "retryable"}]

\* A run past its choice has a subject, and a subject that somebody is sending
\* has its row.
HandsOK ==
    \A w \in Worker :
       /\ cur[w] = nobody <=> pc[w] \in {"idle", "list", "air", "told"}
       /\ pc[w] \in {"post", "back"} => state[cur[w]] = "reserved"

TypeOK ==
    /\ day \in 1..MaxDays
    /\ WorldOK /\ AsksOK /\ LedgerOK /\ HistoryOK /\ RunsOK /\ HandsOK
    /\ runs \in 0..MaxRuns /\ acts \in 0..MaxActs /\ crashes \in 0..MaxCrashes

\* Nothing has happened yet; one reviewed announcement is on file.
Init ==
    /\ day = 1
    /\ due = {} /\ stale = {} /\ settled = {} /\ parked = {} /\ claimed = {}
    /\ replied = {} /\ optout = {} /\ guard = FALSE
    /\ ask = [a \in Ask |-> "none"] /\ engaged = {} /\ news = "pending"
    /\ state = [s \in Subject |-> "none"]
    /\ on = [s \in Subject |-> 0]
    /\ to = [s \in Subject |-> Nobody]
    /\ landed = [s \in Subject |-> 0] /\ refused = {}
    /\ named = {} /\ after = {} /\ aired = 0 /\ overlap = FALSE
    /\ pc = [w \in Worker |-> "idle"]
    /\ queue = [w \in Worker |-> {}]
    /\ tagged = [w \in Worker |-> {}] /\ idle = [w \in Worker |-> {}]
    /\ cur = [w \in Worker |-> nobody]
    /\ answer = [w \in Worker |-> "none"]
    /\ runs = 0 /\ acts = 0 /\ crashes = 0

Quiescent == \A w \in Worker : pc[w] = "idle"

\* The two jobs share only the asks: BOUND, they are not run at once.
Airing == \E v \in Worker : pc[v] \in {"air", "told"}

Goto(w, l) == pc' = [pc EXCEPT ![w] = l]

\* The run returns, with whatever it has seen.
End(w) ==
    /\ Goto(w, "idle")
    /\ queue' = [queue EXCEPT ![w] = {}]
    /\ tagged' = [tagged EXCEPT ![w] = {}]
    /\ idle' = [idle EXCEPT ![w] = {}]
    /\ cur' = [cur EXCEPT ![w] = nobody]
    /\ answer' = [answer EXCEPT ![w] = "none"]

\* The subject is passed over and the next one is tried.
Skip(w) ==
    /\ Goto(w, "list")
    /\ cur' = [cur EXCEPT ![w] = nobody]
    /\ UNCHANGED <<view, answer>>

Kind(s) == s[1]
ThingOf(s) == s[2]

---------------------------------------------------------------------------
(***************************************************************************)
(* What is outstanding: nudge_sources.py.                                  *)
(***************************************************************************)
\* A preview that lapsed or a batch that stopped, and still waits for somebody.
StalledWork == {s \in due : Kind(s) = "work" /\ ThingOf(s) \notin settled}

\* A receipt without an answer and without a later message.
AbandonedThreads ==
    {s \in due : Kind(s) = "thread_abandoned" /\ ThingOf(s) \notin settled}

\* A card draws its own subject, and one for the manager unless it is theirs.
UnengagedCards(tags) ==
    {s \in due : /\ Kind(s) \in {"card_unengaged", "card_escalated"}
                 /\ ThingOf(s) \notin settled
                 /\ Kind(s) = "card_escalated" =>
                      /\ Place[ThingOf(s)] \in Channel
                      /\ ThingOf(s) \in tags => Owner[ThingOf(s)] # Manager}

CapabilityAsks ==
    {s \in due : Kind(s) = "capability_now_available" /\ ask[ThingOf(s)] = "shipped"}

\* Offers that were delivered in a channel and that nobody has answered.
UnansweredOffers ==
    {s \in due : /\ Kind(s) = "offer_unanswered"
                 /\ state[<<"capability_now_available", ThingOf(s)>>] = "delivered"
                 /\ ThingOf(s) \notin engaged
                 /\ Owner[ThingOf(s)] \notin {Manager, Nobody}
                 /\ Place[ThingOf(s)] \in Channel}

Candidates(tags) == StalledWork \cup AbandonedThreads \cup UnengagedCards(tags)
                    \cup CapabilityAsks \cup UnansweredOffers

\* mark_engagement: replies Grant has a receipt for.
Engagements == SUBSET {a \in Ask : /\ a \in replied
                                   /\ state[<<"capability_now_available", a>>]
                                        = "delivered"}

\* A card tags its owner unless the owner has opted out.
Tagged == {c \in Card : Owner[c] # Nobody /\ Owner[c] \notin optout}

Start(w) ==
    /\ runs < MaxRuns
    /\ pc[w] = "idle" /\ ~Airing
    /\ \E e \in Engagements : engaged' = engaged \cup e
    /\ queue' = [queue EXCEPT ![w] = Candidates(Tagged)]
    /\ tagged' = [tagged EXCEPT ![w] = Tagged]
    /\ idle' = [idle EXCEPT ![w] = parked]
    /\ Goto(w, "list")
    /\ runs' = runs + 1
    /\ overlap' = (overlap \/ \E v \in Worker : pc[v] # "idle")
    /\ UNCHANGED <<day, world, ask, news, ledger, landed, refused, named, after, aired,
                   cur, answer, acts, crashes>>

NothingLeft(w) ==
    /\ pc[w] = "list" /\ queue[w] = {}
    /\ End(w)
    /\ UNCHANGED <<day, world, asks, ledger, history, bounds>>

---------------------------------------------------------------------------
(***************************************************************************)
(* May it be said: suppress_reason.                                        *)
(***************************************************************************)
TargetOf(w, s) ==
    LET x == ThingOf(s) IN
    IF Kind(s) \in ChannelPostKinds THEN Manager
    ELSE IF x \in Card /\ x \notin tagged[w] THEN Nobody ELSE Owner[x]

\* The person a message talks about.
SubjectPerson(w, s) ==
    LET x == ThingOf(s) IN
    IF Kind(s) = "offer_unanswered" \/ x \in tagged[w] THEN Owner[x] ELSE Nobody

\* Opting out protects the person a message is about as well.
Quiet(w, s) == guard \/ {TargetOf(w, s), SubjectPerson(w, s)} \cap optout # {}

\* _card_was_acted_on: a reply, a reaction, a button or a Salesforce approval.
ActedOn(c) == c \in settled

\* The records show that there is nothing to follow up on, and never will be.
Over(w, s) ==
    LET x == ThingOf(s) IN
    \/ x \in Work /\ x \in settled
    \/ Kind(s) = "capability_now_available" /\ ask[x] # "shipped"
    \/ x \in Card /\ (ActedOn(x) \/ x \in idle[w])

\* Mutant of Premature: whoever owns the card need not have been asked.
PrematureIfUnknown(w, s) ==
    /\ Kind(s) = "card_escalated" /\ ThingOf(s) \in tagged[w]
    /\ state[<<"card_unengaged", ThingOf(s)>>] = "unknown"

\* _escalation_is_premature: any row counts as the owner's turn.
Premature(w, s) ==
    /\ Kind(s) = "card_escalated" /\ ThingOf(s) \in tagged[w]
    /\ state[<<"card_unengaged", ThingOf(s)>>] = "none"

\* True now, and perhaps not tomorrow: a claim can be released.
Transient(w, s) == ThingOf(s) \in claimed \/ Premature(w, s)

Retires(w, s) == s \in stale \/ (~Quiet(w, s) /\ Over(w, s))

Holds(w, s) ==
    s \notin stale /\ (Quiet(w, s) \/ (~Over(w, s) /\ Transient(w, s)))

\* The next candidate; one that has a row is passed over.
Consider(w, s) ==
    /\ pc[w] = "list" /\ s \in queue[w]
    /\ queue' = [queue EXCEPT ![w] = @ \ {s}]
    /\ IF state[s] # "none" THEN UNCHANGED <<pc, cur>>
       ELSE \/ /\ Retires(w, s)
               /\ Goto(w, "retire")
               /\ cur' = [cur EXCEPT ![w] = s]
            \/ Holds(w, s) /\ UNCHANGED <<pc, cur>>
            \/ /\ ~Retires(w, s) /\ ~Holds(w, s)
               /\ Goto(w, IF Kind(s) \in ChannelPostKinds THEN "slack" ELSE "pace")
               /\ cur' = [cur EXCEPT ![w] = s]
    /\ UNCHANGED <<day, world, asks, ledger, history, tagged, idle, answer,
                   bounds>>

\* The row that retires a subject; another run's row makes the insert fail,
\* which here nobody catches.
Retire(w) ==
    LET s == cur[w] IN
    /\ pc[w] = "retire"
    /\ IF state[s] # "none" THEN End(w) /\ UNCHANGED ledger
       ELSE /\ state' = [state EXCEPT ![s] = "suppressed"]
            /\ on' = [on EXCEPT ![s] = day]
            /\ to' = [to EXCEPT ![s] = TargetOf(w, s)]
            /\ Skip(w)
    /\ UNCHANGED <<day, world, asks, history, bounds>>

\* Whose reply counts: the silent person's, or anybody's but the manager's.
Answered(x) == x \in replied

\* The manager is not in the channel, or Slack would not say.
CannotSee(w) == Skip(w)

AskSlack(w) ==
    LET x == ThingOf(cur[w]) IN
    /\ pc[w] = "slack"
    /\ \/ CannotSee(w)
       \/ /\ Goto(w, IF Answered(x) THEN "retire" ELSE "pace")
          /\ UNCHANGED <<view, cur, answer>>
    /\ UNCHANGED <<day, world, asks, ledger, history, bounds>>

---------------------------------------------------------------------------
(***************************************************************************)
(* May it be said now: pacing_reason.                                      *)
(***************************************************************************)
Live == {"reserved", "delivered", "unknown"}

SentToday(place) ==
    {s \in Subject : state[s] \in Live /\ on[s] = day /\ Place[ThingOf(s)] = place}

\* Across every audience: a phone does not know which channel it rang for.
SentToPersonToday(p) ==
    {s \in Subject : state[s] \in Live /\ on[s] = day /\ to[s] = p}

\* Mutant of CapReached: what may have arrived is not counted.
CapOfDelivered(s) ==
    Cardinality({t \in SentToday(Place[ThingOf(s)]) : state[t] = "delivered"})
        >= MaxPerDay

CapReached(s) == Cardinality(SentToday(Place[ThingOf(s)])) >= MaxPerDay

HadTheirs(w, s) ==
    Cardinality(SentToPersonToday(TargetOf(w, s))) >= MaxPerPerson

\* daily_slots: before the slot drawn for today the run stops, as it does
\* outside the hours and too soon after the last message.
TooEarly(w) == End(w)

\* _target_local_hour: a person asleep lets the others pass.
Asleep(w, s) == TargetOf(w, s) # Nobody /\ Skip(w)

Pace(w) ==
    LET s == cur[w] IN
    /\ pc[w] = "pace"
    /\ \/ TooEarly(w)
       \/ Asleep(w, s)
       \/ CapReached(s) /\ End(w)
       \/ ~CapReached(s) /\ TargetOf(w, s) # Nobody /\ HadTheirs(w, s) /\ Skip(w)
       \/ /\ ~CapReached(s)
          /\ TargetOf(w, s) = Nobody \/ ~HadTheirs(w, s)
          /\ Goto(w, "reserve")
          /\ UNCHANGED <<view, cur, answer>>
    /\ UNCHANGED <<day, world, asks, ledger, history, bounds>>

---------------------------------------------------------------------------
(***************************************************************************)
(* Sending.                                                                *)
(***************************************************************************)
\* One row per subject, ever: the loser of a race moves on.
Reserve(w) ==
    LET s == cur[w] IN
    /\ pc[w] = "reserve"
    /\ IF state[s] # "none" THEN Skip(w) /\ UNCHANGED ledger
       ELSE /\ state' = [state EXCEPT ![s] = "reserved"]
            /\ on' = [on EXCEPT ![s] = day]
            /\ to' = [to EXCEPT ![s] = TargetOf(w, s)]
            /\ Goto(w, "post")
            /\ UNCHANGED <<view, cur, answer>>
    /\ UNCHANGED <<day, world, asks, history, bounds>>

\* Slack takes the message and says so or not, or refuses it.
Post(w) ==
    LET s == cur[w] IN
    /\ pc[w] = "post"
    /\ \E a \in {"ok", "lost", "bad_target", "retryable"}, arrives \in BOOLEAN :
         /\ a = "ok" => arrives
         /\ a \in {"bad_target", "retryable"} => ~arrives
         /\ answer' = [answer EXCEPT ![w] = a]
         /\ landed' = [landed EXCEPT ![s] = IF arrives THEN @ + 1 ELSE @]
         /\ refused' = IF a = "bad_target" THEN refused \cup {s} ELSE refused
         /\ named' = IF /\ arrives /\ Kind(s) = "card_escalated"
                        /\ ThingOf(s) \in tagged[w]
                     THEN named \cup {ThingOf(s)} ELSE named
         /\ after' = IF /\ arrives /\ Kind(s) = "card_unengaged"
                        /\ ThingOf(s) \in named
                     THEN after \cup {ThingOf(s)} ELSE after
    /\ Goto(w, "back")
    /\ UNCHANGED <<day, world, asks, ledger, aired, overlap, view, cur, bounds>>

\* Mutant of OutcomeOf: an ambiguous send is taken for a refusal.
OutcomeReleasesAll(a) == CASE a = "ok" -> "delivered"
                           [] a = "bad_target" -> "suppressed"
                           [] a \in {"retryable", "lost"} -> "none"

\* A wrong target stays wrong; a busy Slack gives the subject its chance back;
\* whatever may have arrived is never tried again.
OutcomeOf(a) == CASE a = "ok" -> "delivered"
                  [] a = "bad_target" -> "suppressed"
                  [] a = "retryable" -> "none"
                  [] a = "lost" -> "unknown"

Record(w) ==
    LET s == cur[w] IN
    /\ pc[w] = "back"
    /\ state' = [state EXCEPT ![s] = OutcomeOf(answer[w])]
    /\ IF answer[w] = "ok" /\ Kind(s) = "capability_now_available"
       THEN Goto(w, "close") /\ UNCHANGED <<view, cur, answer>>
       ELSE End(w)
    /\ UNCHANGED <<day, world, asks, on, to, history, bounds>>

\* The ask is dealt with, in a commit of its own.
CloseAsk(w) ==
    LET a == ThingOf(cur[w]) IN
    /\ pc[w] = "close"
    /\ ask' = [ask EXCEPT ![a] = IF @ \in {"waiting", "shipped"} THEN "answered" ELSE @]
    /\ End(w)
    /\ UNCHANGED <<day, world, engaged, news, ledger, history, bounds>>

---------------------------------------------------------------------------
(***************************************************************************)
(* Asks and the announcement that answers them.                            *)
(***************************************************************************)
\* Filed at the moment of refusal; asking again changes nothing.
RecordAsk(a) ==
    /\ ask[a] = "none" /\ Quiescent
    /\ ask' = [ask EXCEPT ![a] = "waiting"]
    /\ UNCHANGED <<day, world, engaged, news, ledger, history, local, bounds>>

Shipped == [a \in Ask |-> IF ask[a] = "waiting" THEN "shipped" ELSE ask[a]]

\* Declared from the command line.
MarkAvailable ==
    /\ Shipped # ask /\ Quiescent
    /\ ask' = Shipped
    /\ UNCHANGED <<day, world, engaged, news, ledger, history, local, bounds>>

FindNews(w) ==
    /\ runs < MaxRuns
    /\ pc[w] = "idle" /\ news = "pending" /\ (Quiescent \/ Airing)
    /\ Goto(w, "air")
    /\ runs' = runs + 1
    /\ overlap' = (overlap \/ \E v \in Worker : pc[v] # "idle")
    /\ UNCHANGED <<day, world, asks, ledger, landed, refused, named, after, aired, view,
                   cur, answer, acts, crashes>>

\* posted_at and the asks that are now shipped, in one transaction.
ReserveNews(w) ==
    /\ pc[w] = "air"
    /\ IF news = "pending"
       THEN news' = "posted" /\ ask' = Shipped /\ Goto(w, "told")
       ELSE Goto(w, "idle") /\ UNCHANGED <<news, ask>>
    /\ UNCHANGED <<day, world, engaged, ledger, history, view, cur, answer,
                   bounds>>

Announce(w) ==
    /\ pc[w] = "told"
    /\ \E arrives \in {0, 1} : aired' = aired + arrives
    /\ Goto(w, "idle")
    /\ UNCHANGED <<day, world, asks, ledger, landed, refused, named, after, overlap, view,
                   cur, answer, bounds>>

---------------------------------------------------------------------------
(***************************************************************************)
(* Time, people and crashes.                                               *)
(***************************************************************************)
Rest == UNCHANGED <<asks, ledger, history, local, runs, crashes>>

\* Nothing is modelled of a thing that no message can be about any more.
Open(x) == \E s \in due : ThingOf(s) = x /\ state[s] \in {"none", "reserved"}

Acts ==
    /\ acts < MaxActs
    /\ due # {}
    /\ acts' = acts + 1
    /\ Rest

\* Runs take seconds inside the working day.
Turn ==
    /\ day < MaxDays /\ Quiescent
    /\ day' = day + 1
    /\ UNCHANGED <<world, acts>> /\ Rest

\* GRACE: an escalation comes due after its card, an offer's after it is out.
ComesDue(s) ==
    /\ s \notin due /\ Quiescent /\ runs < MaxRuns
    /\ Kind(s) = "card_escalated" => <<"card_unengaged", ThingOf(s)>> \in due
    /\ Kind(s) = "capability_now_available" => ask[ThingOf(s)] = "shipped"
    /\ Kind(s) = "offer_unanswered" =>
         state[<<"capability_now_available", ThingOf(s)>>] = "delivered"
    /\ due' = due \cup {s}
    /\ UNCHANGED <<day, stale, settled, parked, claimed, replied, optout, guard,
                   acts>>
    /\ Rest

GrowsStale(s) ==
    /\ s \in due \ stale /\ state[s] = "none" /\ Quiescent
    /\ stale' = stale \cup {s}
    /\ UNCHANGED <<day, due, settled, parked, claimed, replied, optout, guard>>
    /\ Acts

\* Somebody works on it where Grant's records show it.
Settles(x) ==
    /\ x \in (Card \cup Work \cup Thread) \ settled /\ Open(x)
    /\ settled' = settled \cup {x}
    /\ UNCHANGED <<day, due, stale, parked, claimed, replied, optout, guard>>
    /\ Acts

\* Somebody answers, where Grant may not have woken up.
Replies(x) ==
    /\ x \in (Card \cup Ask) \ replied /\ Open(x)
    /\ replied' = replied \cup {x}
    /\ UNCHANGED <<day, due, stale, settled, parked, claimed, optout, guard>>
    /\ Acts

Parks(c) ==
    /\ c \notin parked /\ Open(c)
    /\ parked' = parked \cup {c}
    /\ UNCHANGED <<day, due, stale, settled, claimed, replied, optout, guard>>
    /\ Acts

\* A claim, and its release.
Claims(c) ==
    /\ Open(c)
    /\ claimed' = IF c \in claimed THEN claimed \ {c} ELSE claimed \cup {c}
    /\ UNCHANGED <<day, due, stale, settled, parked, replied, optout, guard>>
    /\ Acts

OptsOut(p) ==
    /\ optout' = IF p \in optout THEN optout \ {p} ELSE optout \cup {p}
    /\ UNCHANGED <<day, due, stale, settled, parked, claimed, replied, guard>>
    /\ Acts

Guards ==
    /\ guard' = ~guard
    /\ UNCHANGED <<day, due, stale, settled, parked, claimed, replied, optout>>
    /\ Acts

Crash(w) ==
    /\ crashes < MaxCrashes
    /\ pc[w] # "idle"
    /\ End(w)
    /\ crashes' = crashes + 1
    /\ UNCHANGED <<day, world, asks, ledger, history, runs, acts>>

RunStep(w) ==
    \/ Start(w) \/ NothingLeft(w) \/ Retire(w) \/ AskSlack(w) \/ Pace(w)
    \/ Reserve(w) \/ Post(w) \/ Record(w) \/ CloseAsk(w)
    \/ FindNews(w) \/ ReserveNews(w) \/ Announce(w) \/ Crash(w)
    \/ \E s \in Subject : Consider(w, s)

People ==
    \/ \E s \in Subject : ComesDue(s) \/ GrowsStale(s)
    \/ \E x \in Thing : Settles(x) \/ Replies(x)
    \/ \E c \in Card : Parks(c) \/ Claims(c)
    \/ \E a \in Ask : RecordAsk(a)
    \/ \E p \in Person : OptsOut(p)
    \/ Guards \/ MarkAvailable \/ Turn

Next == People \/ \E w \in Worker : RunStep(w)

Spec == Init /\ [][Next]_vars

---------------------------------------------------------------------------
\* However runs overlap, crash or lose Slack's answer, each subject is
\* mentioned at most once, ever, and the announcement is made once; and a
\* subject is retired only by a fact that stays true: a claim that is
\* released, an opt-out that is taken back or an outage leaves it its chance.
OneChanceEach ==
    /\ TypeOK
    /\ aired <= 1 /\ \A s \in Subject : landed[s] <= 1
    /\ \A s \in Subject : state[s] = "suppressed" =>
         \/ s \in stale \cup refused
         \/ ThingOf(s) \in settled \cup parked \cup replied
         \/ /\ Kind(s) = "capability_now_available"
            /\ ask[ThingOf(s)] = "answered"

\* While no two runs overlap, an audience hears at most MaxPerDay messages a
\* day and a person at most MaxPerPerson over all of them, counting those
\* whose outcome nobody knows.
CapsHold ==
    overlap \/ \A d \in 1..MaxDays :
        LET out == {s \in Subject : landed[s] > 0 /\ on[s] = d} IN
        /\ \A p \in Person :
             Cardinality({s \in out : to[s] = p}) <= MaxPerPerson
        /\ \A place \in Audience :
             Cardinality({s \in out : Place[ThingOf(s)] = place}) <= MaxPerDay

\* While no two runs overlap, nobody is asked about a card after the manager
\* has been told that they did not answer.
ManagerHearsLast == overlap \/ after = {}
================================================================================
