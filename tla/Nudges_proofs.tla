----------------------------- MODULE Nudges_proofs -----------------------------
(***************************************************************************)
(* Theorems about Nudges for any subjects, runs, people and crashes, and   *)
(* for any caps.                                                           *)
(***************************************************************************)
EXTENDS Nudges, FiniteSetTheorems, TLAPS

---------------------------------------------------------------------------
(***************************************************************************)
(* The inductive invariants.                                               *)
(***************************************************************************)
\* A subject in a message that is on its way, or whose outcome is being recorded.
Sending(w) == pc[w] \in {"post", "back"}

\* Slack has not taken the message of this run.
Unsent(w) ==
    pc[w] = "post" \/ (pc[w] = "back" /\ answer[w] \in {"bad_target", "retryable"})

\* Two runs never send the same subject.
SendInv ==
    /\ \A v, w \in Worker : Sending(v) /\ Sending(w) /\ v # w => cur[v] # cur[w]
    /\ \A w \in Worker : pc[w] = "back" =>
          answer[w] \in {"ok", "lost", "bad_target", "retryable"}

\* What arrived keeps a row that counts, and what is about to be sent is new.
LandInv ==
    /\ \A s \in Subject : landed[s] <= 1 /\ (landed[s] > 0 => state[s] \in Live)
    /\ \A w \in Worker : Unsent(w) => landed[cur[w]] = 0

\* The announcement belongs to the run that set posted_at.
NewsInv ==
    /\ aired <= 1 /\ (news = "pending" => aired = 0)
    /\ \A w \in Worker : pc[w] = "told" => news = "posted" /\ aired = 0
    /\ \A v, w \in Worker : pc[v] = "told" /\ pc[w] = "told" => v = w

\* A fact that stays true speaks against the subject.
Dead(s) ==
    \/ s \in stale \cup refused
    \/ ThingOf(s) \in settled \cup parked \cup replied
    \/ Kind(s) = "capability_now_available" /\ ask[ThingOf(s)] = "answered"

\* A run that retires a subject has such a fact in hand.
DeadInv ==
    /\ \A w \in Worker : idle[w] \subseteq parked
    /\ \A w \in Worker : \A s \in Subject :
          s \in queue[w] \cup {cur[w]} /\ Kind(s) = "capability_now_available"
          => ask[ThingOf(s)] \in {"shipped", "answered"}
    /\ \A w \in Worker : pc[w] = "retire" => Dead(cur[w])
    /\ \A w \in Worker :
          pc[w] = "back" /\ answer[w] = "bad_target" => cur[w] \in refused
    /\ \A s \in Subject : state[s] = "suppressed" => Dead(s)

\* While runs do not overlap, one is under way at most.
Alone == \A v, w \in Worker : pc[v] # "idle" /\ pc[w] # "idle" => v = w

\* What counts against the caps of a day.
Heard(d, place) ==
    {s \in Subject : state[s] \in Live /\ on[s] = d /\ Place[ThingOf(s)] = place}

HeardBy(d, p) == {s \in Subject : state[s] \in Live /\ on[s] = d /\ to[s] = p}

\* Everything sent fits, and so does what a run is about to reserve.
CapInv ==
    overlap \/
        /\ Alone
        /\ \A d \in 1..MaxDays :
              /\ \A place \in Audience : Cardinality(Heard(d, place)) <= MaxPerDay
              /\ \A p \in Person : Cardinality(HeardBy(d, p)) <= MaxPerPerson
        /\ \A w \in Worker : pc[w] = "reserve" =>
              /\ ~CapReached(cur[w])
              /\ TargetOf(w, cur[w]) # Nobody => ~HadTheirs(w, cur[w])

Unengaged(c) == <<"card_unengaged", c>>

\* A run that goes on with the escalation of a card whose owner it would name.
Escalates(w) ==
    /\ pc[w] \in {"slack", "pace", "reserve", "post", "back"}
    /\ Kind(cur[w]) = "card_escalated" /\ ThingOf(cur[w]) \in tagged[w]

\* The owner of a card had their turn before the manager hears of it, and the
\* row of that turn is not in anybody's hands any more.
LastInv ==
    overlap \/
        /\ Alone /\ after = {}
        /\ \A w \in Worker : Escalates(w) =>
              state[Unengaged(ThingOf(cur[w]))] # "none"
        /\ \A c \in named :
              /\ state[Unengaged(c)] # "none"
              /\ \A w \in Worker : Sending(w) => cur[w] # Unengaged(c)

---------------------------------------------------------------------------
(***************************************************************************)
(* Subjects.                                                               *)
(***************************************************************************)
LEMMA SubjectKinds ==
    /\ nobody \notin Subject
    /\ \A c \in Card : Unengaged(c) \in Subject
    /\ \A s \in Subject :
          /\ s = <<Kind(s), ThingOf(s)>> /\ ThingOf(s) \in Thing
          /\ Kind(s) = "capability_now_available" => ThingOf(s) \in Ask
          /\ Kind(s) \in {"card_unengaged", "card_escalated"} => ThingOf(s) \in Card
BY DEF Subject, nobody, Unengaged, Kind, ThingOf, Thing

LEMMA SubjectFinite == IsFiniteSet(Subject)
<1>1. /\ IsFiniteSet(Card) /\ IsFiniteSet(Ask) /\ IsFiniteSet(Work)
      /\ IsFiniteSet(Thread)
  BY NudgeAssumption, FS_Subset DEF Thing
<1>2. /\ IsFiniteSet({"card_unengaged", "card_escalated"})
      /\ IsFiniteSet({"capability_now_available", "offer_unanswered"})
      /\ IsFiniteSet({"work"}) /\ IsFiniteSet({"thread_abandoned"})
  <2>1. \A x, y : IsFiniteSet({x, y})
    <3>1. ASSUME NEW x, NEW y PROVE IsFiniteSet({x} \cup {y})
      BY FS_Singleton, FS_Union
    <3>2. \A x, y : {x, y} = {x} \cup {y}
      OBVIOUS
    <3>3. QED
      BY <3>1, <3>2
  <2>2. QED
    BY <2>1, FS_Singleton
<1>3. /\ IsFiniteSet({"card_unengaged", "card_escalated"} \X Card)
      /\ IsFiniteSet({"capability_now_available", "offer_unanswered"} \X Ask)
      /\ IsFiniteSet({"work"} \X Work) /\ IsFiniteSet({"thread_abandoned"} \X Thread)
  BY <1>1, <1>2, FS_Product
<1>4. QED
  BY <1>3, FS_Union DEF Subject

---------------------------------------------------------------------------
(***************************************************************************)
(* Types.                                                                  *)
(***************************************************************************)
LEMMA InitTypeOK == Init => TypeOK
<1> SUFFICES ASSUME Init PROVE TypeOK
  OBVIOUS
<1>1. /\ MaxDays \in Nat \ {0} /\ MaxRuns \in Nat /\ MaxActs \in Nat
      /\ MaxCrashes \in Nat
  BY NudgeAssumption
<1>2. WorldOK /\ AsksOK
  BY DEF Init, WorldOK, AsksOK
<1>3. LedgerOK
  BY <1>1 DEF Init, LedgerOK, State
<1>4. HistoryOK
  BY DEF Init, HistoryOK
<1>5. RunsOK /\ HandsOK
  BY DEF Init, RunsOK, HandsOK, Point
<1>6. QED
  BY <1>1, <1>2, <1>3, <1>4, <1>5 DEF Init, TypeOK

\* A step of one run leaves the others where they are.
LEMMA OthersKept ==
    ASSUME TypeOK, NEW w \in Worker, RunStep(w), NEW v \in Worker, v # w
    PROVE  /\ pc'[v] = pc[v] /\ cur'[v] = cur[v] /\ answer'[v] = answer[v]
           /\ queue'[v] = queue[v] /\ tagged'[v] = tagged[v] /\ idle'[v] = idle[v]
<1> USE DEF TypeOK, RunsOK, End, Skip, Goto, view, local
<1>1. CASE Start(w) \/ NothingLeft(w) \/ Retire(w) \/ AskSlack(w) \/ Pace(w)
  BY <1>1 DEF Start, NothingLeft, Retire, AskSlack, CannotSee, Pace, TooEarly, Asleep
<1>2. CASE Reserve(w) \/ Post(w) \/ Record(w) \/ CloseAsk(w) \/ Crash(w)
  BY <1>2 DEF Reserve, Post, Record, CloseAsk, Crash
<1>3. CASE FindNews(w) \/ ReserveNews(w) \/ Announce(w)
  BY <1>3 DEF FindNews, ReserveNews, Announce
<1>4. CASE \E s \in Subject : Consider(w, s)
  BY <1>4 DEF Consider
<1>5. QED
  BY <1>1, <1>2, <1>3, <1>4 DEF RunStep

\* An ending and a skip keep every value in its domain.
LEMMA EndRuns ==
    ASSUME RunsOK, NEW w \in Worker, End(w) \/ Skip(w)
    PROVE  RunsOK'
BY DEF RunsOK, End, Skip, Goto, view, Point

LEMMA RunTypes ==
    ASSUME TypeOK, SendInv, NEW w \in Worker, RunStep(w)
    PROVE  RunsOK'
<1> USE DEF TypeOK, RunsOK, Goto, view, local
<1>1. CASE End(w) \/ Skip(w)
  BY <1>1, EndRuns
<1>2. CASE Start(w)
  <2>1. Candidates(Tagged) \subseteq Subject /\ Tagged \subseteq Card
    BY DEF Candidates, Tagged, StalledWork, AbandonedThreads, UnengagedCards,
           CapabilityAsks, UnansweredOffers, WorldOK
  <2>2. QED
    BY <1>2, <2>1 DEF Start, WorldOK, Point
<1>3. CASE (AskSlack(w) \/ Pace(w) \/ Reserve(w)) /\ ~Skip(w)
  BY <1>1, <1>3 DEF AskSlack, CannotSee, Pace, TooEarly, Asleep, Reserve, Point
<1>4. CASE Post(w)
  BY <1>4 DEF Post, Point
<1>5. CASE Record(w)
  BY <1>1, <1>5 DEF Record, Point
<1>6. CASE FindNews(w) \/ ReserveNews(w) \/ Announce(w)
  BY <1>6 DEF FindNews, ReserveNews, Announce, Point
<1>7. ASSUME NEW s \in Subject, Consider(w, s) PROVE RunsOK'
  BY <1>7 DEF Consider, Point
<1>8. CASE NothingLeft(w) \/ Retire(w) \/ CloseAsk(w) \/ Crash(w)
  BY <1>1, <1>8 DEF NothingLeft, Retire, CloseAsk, Crash
<1>9. QED
  BY <1>1, <1>2, <1>3, <1>4, <1>5, <1>6, <1>7, <1>8 DEF RunStep

\* What a run has in hand where it goes.
LEMMA RunMoves ==
    ASSUME TypeOK, NEW w \in Worker, RunStep(w)
    PROVE  /\ pc'[w] \in {"idle", "list", "air", "told"} => cur'[w] = nobody
           /\ pc'[w] \notin {"idle", "list", "air", "told"} => cur'[w] \in Subject
           /\ pc'[w] = "post" =>
                 /\ pc[w] = "reserve" /\ cur'[w] = cur[w]
                 /\ state[cur[w]] = "none" /\ state'[cur[w]] = "reserved"
           /\ pc'[w] = "back" => pc[w] = "post" /\ cur'[w] = cur[w] /\ state' = state
<1> USE DEF TypeOK, RunsOK, HandsOK, Goto, view, local
<1>0. cur[w] \in Subject \/ pc[w] \in {"idle", "list", "air", "told"}
  OBVIOUS
<1>1. CASE End(w) \/ Skip(w)
  BY <1>1 DEF End, Skip
<1>2. CASE Start(w) \/ FindNews(w) \/ ReserveNews(w) \/ Announce(w)
  BY <1>2 DEF Start, FindNews, ReserveNews, Announce
<1>3. CASE AskSlack(w) \/ Pace(w)
  BY <1>0, <1>1, <1>3 DEF AskSlack, CannotSee, Pace, TooEarly, Asleep
<1>4. CASE Reserve(w)
  BY <1>0, <1>1, <1>4 DEF Reserve, LedgerOK
<1>5. CASE Post(w)
  BY <1>0, <1>5 DEF Post, ledger
<1>6. CASE Record(w)
  BY <1>0, <1>1, <1>6 DEF Record
<1>7. ASSUME NEW s \in Subject, Consider(w, s)
      PROVE  /\ pc'[w] \in {"idle", "list", "air", "told"} => cur'[w] = nobody
             /\ pc'[w] \notin {"idle", "list", "air", "told"} =>
                   cur'[w] \in Subject /\ pc'[w] \notin {"post", "back"}
  BY <1>7 DEF Consider
<1>8. CASE NothingLeft(w) \/ Retire(w) \/ CloseAsk(w) \/ Crash(w)
  BY <1>1, <1>8 DEF NothingLeft, Retire, CloseAsk, Crash
<1>9. QED
  BY <1>1, <1>2, <1>3, <1>4, <1>5, <1>6, <1>7, <1>8 DEF RunStep

\* The row of a subject changes where a run retires, reserves or records it.
LEMMA RowChanges ==
    ASSUME TypeOK, SendInv, NEW w \in Worker, RunStep(w)
    PROVE  \/ UNCHANGED ledger
           \/ /\ pc[w] = "retire" /\ cur[w] \in Subject /\ state[cur[w]] = "none"
              /\ state' = [state EXCEPT ![cur[w]] = "suppressed"]
              /\ on' = [on EXCEPT ![cur[w]] = day]
              /\ to' = [to EXCEPT ![cur[w]] = TargetOf(w, cur[w])]
              /\ pc'[w] = "list"
           \/ /\ pc[w] = "reserve" /\ cur[w] \in Subject /\ state[cur[w]] = "none"
              /\ state' = [state EXCEPT ![cur[w]] = "reserved"]
              /\ on' = [on EXCEPT ![cur[w]] = day]
              /\ to' = [to EXCEPT ![cur[w]] = TargetOf(w, cur[w])]
              /\ pc'[w] = "post" /\ cur'[w] = cur[w]
           \/ /\ pc[w] = "back" /\ cur[w] \in Subject /\ state[cur[w]] = "reserved"
              /\ state' = [state EXCEPT ![cur[w]] = OutcomeOf(answer[w])]
              /\ OutcomeOf(answer[w]) \in {"delivered", "suppressed", "none", "unknown"}
              /\ UNCHANGED <<on, to>>
              /\ pc'[w] \in {"close", "idle"}
<1> USE DEF TypeOK, RunsOK, HandsOK, Goto, ledger
<1>1. CASE Retire(w)
  BY <1>1 DEF Retire, Skip
<1>2. CASE Reserve(w)
  BY <1>2 DEF Reserve
<1>3. CASE Record(w)
  <2>1. OutcomeOf(answer[w]) \in {"delivered", "suppressed", "none", "unknown"}
    BY <1>3 DEF Record, SendInv, OutcomeOf
  <2>2. QED
    BY <1>3, <2>1 DEF Record, End
<1>4. CASE Start(w) \/ NothingLeft(w) \/ AskSlack(w) \/ Pace(w) \/ Post(w)
           \/ CloseAsk(w) \/ FindNews(w) \/ ReserveNews(w) \/ Announce(w) \/ Crash(w)
  BY <1>4 DEF Start, NothingLeft, AskSlack, Pace, Post, CloseAsk, FindNews,
              ReserveNews, Announce, Crash
<1>5. CASE \E s \in Subject : Consider(w, s)
  BY <1>5 DEF Consider
<1>6. QED
  BY <1>1, <1>2, <1>3, <1>4, <1>5 DEF RunStep

LEMMA HandTypes ==
    ASSUME TypeOK, SendInv, NEW w \in Worker, RunStep(w)
    PROVE  HandsOK' /\ SendInv'
<1> USE DEF TypeOK, RunsOK, HandsOK, LedgerOK
<1>1. nobody \notin Subject
  BY SubjectKinds
<1>2. \A v \in Worker : v # w => /\ pc'[v] = pc[v] /\ cur'[v] = cur[v]
                                 /\ answer'[v] = answer[v]
  BY OthersKept
<1>3. ASSUME NEW v \in Worker, v # w, Sending(v)
      PROVE  state'[cur[v]] = "reserved" /\ (Sending(w)' => cur'[w] # cur[v])
  <2>1. state[cur[v]] = "reserved" /\ cur[v] \in Subject
    BY <1>3 DEF Sending
  <2>2. Sending(w) => cur[w] # cur[v]
    BY <1>3 DEF SendInv
  <2>3. CASE UNCHANGED ledger
    <3>1. Sending(w)' => Sending(w) /\ cur'[w] = cur[w]
      BY <2>3, RunMoves DEF Sending, ledger
    <3>2. QED
      BY <2>1, <2>2, <2>3, <3>1 DEF ledger
  <2>4. CASE ~UNCHANGED ledger
    BY <2>1, <2>2, <2>4, RowChanges DEF Sending
  <2>5. QED
    BY <2>3, <2>4
<1>4. HandsOK'
  BY <1>1, <1>2, <1>3, RunMoves DEF Sending
<1>5. pc'[w] = "back" => answer'[w] \in {"ok", "lost", "bad_target", "retryable"}
  BY DEF RunStep, Start, NothingLeft, Retire, AskSlack, CannotSee, Pace, TooEarly,
         Asleep, Reserve, Post, Record, CloseAsk, FindNews, ReserveNews, Announce,
         Crash, Consider, End, Skip, Goto
<1>6. SendInv'
  BY <1>2, <1>3, <1>5 DEF SendInv, Sending
<1>7. QED
  BY <1>4, <1>6

LEMMA TargetTypes ==
    ASSUME NEW w \in Worker, NEW s \in Subject
    PROVE  TargetOf(w, s) \in Person \cup {Nobody}
BY SubjectKinds, NudgeAssumption DEF TargetOf

\* Ledger, history, register and bounds stay in their domains.
LEMMA BookTypes ==
    ASSUME TypeOK, SendInv, NEW w \in Worker, RunStep(w)
    PROVE  /\ day' = day /\ WorldOK' /\ AsksOK' /\ LedgerOK' /\ HistoryOK'
           /\ runs' \in 0..MaxRuns /\ acts' = acts /\ crashes' \in 0..MaxCrashes
<1> USE DEF TypeOK, world, asks, ledger, history, bounds
<1>0. MaxRuns \in Nat /\ MaxCrashes \in Nat /\ day \in 0..MaxDays
  BY NudgeAssumption
<1>1. LedgerOK'
  BY <1>0, RowChanges, TargetTypes DEF LedgerOK, State
<1>2. day' = day /\ UNCHANGED <<world, acts>>
  <2>1. CASE Start(w) \/ NothingLeft(w) \/ Retire(w) \/ AskSlack(w) \/ Pace(w)
    BY <2>1 DEF Start, NothingLeft, Retire, AskSlack, Pace
  <2>2. CASE Reserve(w) \/ Post(w) \/ Record(w) \/ CloseAsk(w) \/ Crash(w)
    BY <2>2 DEF Reserve, Post, Record, CloseAsk, Crash
  <2>3. CASE FindNews(w) \/ ReserveNews(w) \/ Announce(w)
    BY <2>3 DEF FindNews, ReserveNews, Announce
  <2>4. CASE \E s \in Subject : Consider(w, s)
    BY <2>4 DEF Consider
  <2>5. QED
    BY <2>1, <2>2, <2>3, <2>4 DEF RunStep
<1>3. WorldOK'
  BY <1>2 DEF WorldOK
<1>4. CASE Start(w) \/ FindNews(w)
  <2>1. overlap' \in BOOLEAN
    BY <1>4, Zenon DEF Start, FindNews
  <2>2. runs' \in 0..MaxRuns /\ UNCHANGED crashes
    BY <1>0, <1>4 DEF Start, FindNews
  <2>3. HistoryOK'
    BY <1>4, <2>1 DEF Start, FindNews, HistoryOK
  <2>4. AsksOK'
    BY <1>4 DEF Start, FindNews, AsksOK, Engagements
  <2>5. QED
    BY <1>1, <1>2, <1>3, <2>2, <2>3, <2>4
<1>5. CASE Post(w)
  <2>1. cur[w] \in Subject
    BY <1>5 DEF Post, RunsOK, HandsOK
  <2>2. landed' \in [Subject -> Nat] /\ refused' \subseteq Subject
    BY <1>5, <2>1 DEF Post, HistoryOK
  <2>3. named' \subseteq Card /\ after' \subseteq Card
    BY <1>5, <2>1, SubjectKinds DEF Post, HistoryOK
  <2>4. HistoryOK'
    BY <1>5, <2>2, <2>3 DEF Post, HistoryOK
  <2>5. QED
    BY <1>1, <1>2, <1>3, <1>5, <2>4 DEF Post, AsksOK
<1>6. CASE CloseAsk(w)
  <2>1. AsksOK'
    BY <1>6 DEF CloseAsk, AsksOK
  <2>2. QED
    BY <1>1, <1>2, <1>3, <1>6, <2>1 DEF CloseAsk, HistoryOK
<1>7. CASE ReserveNews(w)
  <2>1. AsksOK'
    BY <1>7 DEF ReserveNews, Shipped, AsksOK
  <2>2. QED
    BY <1>1, <1>2, <1>3, <1>7, <2>1 DEF ReserveNews, HistoryOK
<1>8. CASE Announce(w)
  BY <1>1, <1>2, <1>3, <1>8 DEF Announce, HistoryOK, AsksOK
<1>9. CASE Crash(w)
  BY <1>0, <1>1, <1>2, <1>3, <1>9 DEF Crash, HistoryOK, AsksOK
<1>10. CASE UNCHANGED <<asks, history, runs, crashes>>
  BY <1>1, <1>2, <1>3, <1>10 DEF HistoryOK, AsksOK
<1>11. QED
  BY <1>4, <1>5, <1>6, <1>7, <1>8, <1>9, <1>10 DEF RunStep, NothingLeft, Retire,
     AskSlack, Pace, Reserve, Record, Consider

\* People and time touch no row, no run and nothing that was said; what speaks
\* against a subject for good stays, and an ask goes forward only.
PeopleFrame ==
    /\ UNCHANGED <<ledger, history, local, runs, crashes, engaged, news>>
    /\ stale \subseteq stale' /\ settled \subseteq settled'
    /\ parked \subseteq parked' /\ replied \subseteq replied'
    /\ \A a \in Ask : ask[a] \in {"shipped", "answered"} => ask'[a] = ask[a]
    /\ ask' \in [Ask -> {"none", "waiting", "shipped", "answered"}]
    /\ WorldOK' /\ acts' \in 0..MaxActs /\ day' \in 1..MaxDays
    /\ day' # day => \A w \in Worker : pc[w] = "idle"

LEMMA PeopleStep ==
    ASSUME TypeOK, People
    PROVE  PeopleFrame
<1> USE DEF TypeOK, WorldOK, AsksOK, world, asks, Rest, PeopleFrame
<1>0. MaxActs \in Nat /\ MaxDays \in Nat
  BY NudgeAssumption
<1>1. Acts => acts' \in 0..MaxActs /\ Rest
  BY <1>0 DEF Acts
<1>2. ASSUME NEW s \in Subject, ComesDue(s) \/ GrowsStale(s) PROVE PeopleFrame
  BY <1>1, <1>2 DEF ComesDue, GrowsStale
<1>3. ASSUME NEW x \in Thing, Settles(x) \/ Replies(x) PROVE PeopleFrame
  BY <1>1, <1>3 DEF Settles, Replies
<1>4. ASSUME NEW c \in Card, Parks(c) \/ Claims(c) PROVE PeopleFrame
  <2>1. claimed' \subseteq Card /\ parked' \subseteq Card
    BY <1>4 DEF Parks, Claims
  <2>2. QED
    BY <1>1, <1>4, <2>1 DEF Parks, Claims
<1>5. ASSUME NEW p \in Person, OptsOut(p) PROVE PeopleFrame
  <2>1. optout' \subseteq Person
    BY <1>5 DEF OptsOut
  <2>2. QED
    BY <1>1, <1>5, <2>1 DEF OptsOut
<1>6. CASE Guards
  BY <1>1, <1>6 DEF Guards
<1>7. CASE Turn
  BY <1>0, <1>7 DEF Turn, Quiescent
<1>8. CASE MarkAvailable
  BY <1>8 DEF MarkAvailable, Shipped, history, bounds
<1>9. ASSUME NEW a \in Ask, RecordAsk(a) PROVE PeopleFrame
  BY <1>9 DEF RecordAsk, history, bounds
<1>10. QED
  BY <1>2, <1>3, <1>4, <1>5, <1>6, <1>7, <1>8, <1>9 DEF People

LEMMA NextTypeOK == TypeOK /\ SendInv /\ [Next]_vars => TypeOK' /\ SendInv'
<1> SUFFICES ASSUME TypeOK, SendInv, [Next]_vars PROVE TypeOK' /\ SendInv'
  OBVIOUS
<1>1. ASSUME NEW w \in Worker, RunStep(w) PROVE TypeOK' /\ SendInv'
  BY <1>1, RunTypes, HandTypes, BookTypes DEF TypeOK
<1>2. ASSUME UNCHANGED <<ledger, history, local>>
      PROVE  LedgerOK' /\ HistoryOK' /\ RunsOK' /\ HandsOK' /\ SendInv'
  BY <1>2 DEF ledger, history, local, view, TypeOK, LedgerOK, HistoryOK, RunsOK,
              HandsOK, SendInv, Sending
<1>3. CASE People
  <2>1. AsksOK'
    BY <1>3, PeopleStep DEF PeopleFrame, TypeOK, AsksOK
  <2>2. QED
    BY <1>2, <1>3, <2>1, PeopleStep DEF PeopleFrame, TypeOK
<1>4. CASE UNCHANGED vars
  <2>1. AsksOK' /\ WorldOK' /\ UNCHANGED <<day, runs, acts, crashes>>
    BY <1>4 DEF vars, TypeOK, AsksOK, WorldOK, asks, world, bounds
  <2>2. QED
    BY <1>2, <1>4, <2>1 DEF vars, TypeOK
<1>5. QED
  BY <1>1, <1>3, <1>4 DEF Next

LEMMA InitSend == Init => SendInv
BY DEF Init, SendInv, Sending

\* Types, and the row each run is sending belongs to it alone.
THEOREM TypeCorrect == Spec => [](TypeOK /\ SendInv)
BY InitTypeOK, InitSend, NextTypeOK, PTL DEF Spec

---------------------------------------------------------------------------
(***************************************************************************)
(* One message about each subject, and one announcement.                   *)
(***************************************************************************)
\* Only a post reaches Slack.
LEMMA PostOrNot ==
    ASSUME TypeOK, NEW w \in Worker, RunStep(w)
    PROVE  Post(w) \/ (/\ pc'[w] # "back"
                       /\ UNCHANGED <<landed, refused, named, after>>)
<1> USE DEF TypeOK, RunsOK, End, Skip, Goto, history
<1>1. CASE Start(w) \/ NothingLeft(w) \/ Retire(w) \/ AskSlack(w) \/ Pace(w)
  <2>1. UNCHANGED <<landed, refused, named, after>>
    BY <1>1 DEF Start, NothingLeft, Retire, AskSlack, Pace
  <2>2. pc'[w] # "back"
    BY <1>1 DEF Start, NothingLeft, Retire, AskSlack, CannotSee, Pace, TooEarly, Asleep
  <2>3. QED
    BY <2>1, <2>2
<1>2. CASE Reserve(w) \/ Record(w) \/ CloseAsk(w) \/ Crash(w)
  <2>1. UNCHANGED <<landed, refused, named, after>>
    BY <1>2 DEF Reserve, Record, CloseAsk, Crash
  <2>2. pc'[w] # "back"
    BY <1>2 DEF Reserve, Record, CloseAsk, Crash
  <2>3. QED
    BY <2>1, <2>2
<1>3. CASE FindNews(w) \/ ReserveNews(w) \/ Announce(w)
  BY <1>3 DEF FindNews, ReserveNews, Announce
<1>4. CASE \E s \in Subject : Consider(w, s)
  BY <1>4 DEF Consider
<1>5. QED
  BY <1>1, <1>2, <1>3, <1>4 DEF RunStep

LEMMA PostLands ==
    ASSUME TypeOK, SendInv, LandInv, NEW w \in Worker, Post(w)
    PROVE  LandInv'
<1> USE DEF TypeOK, RunsOK, HandsOK, HistoryOK
<1>1. PICK a \in {"ok", "lost", "bad_target", "retryable"}, arrives \in BOOLEAN :
          /\ a \in {"bad_target", "retryable"} => ~arrives
          /\ answer' = [answer EXCEPT ![w] = a]
          /\ landed' = [landed EXCEPT ![cur[w]] = IF arrives THEN @ + 1 ELSE @]
  BY DEF Post
<1>2. /\ pc[w] = "post" /\ pc' = [pc EXCEPT ![w] = "back"]
      /\ UNCHANGED <<state, cur>> /\ cur[w] \in Subject /\ state[cur[w]] = "reserved"
  BY DEF Post, Goto, ledger
<1>3. landed[cur[w]] = 0
  BY <1>2 DEF LandInv, Unsent
<1>4. \A s \in Subject : landed'[s] <= 1 /\ (landed'[s] > 0 => state'[s] \in Live)
  BY <1>1, <1>2, <1>3 DEF LandInv, Live
<1>5. ASSUME NEW v \in Worker, Unsent(v)' PROVE landed'[cur'[v]] = 0
  <2>1. CASE v = w
    <3>1. ~arrives
      BY <1>1, <1>2, <1>5, <2>1 DEF Unsent
    <3>2. QED
      BY <1>1, <1>2, <1>3, <2>1, <3>1
  <2>2. CASE v # w
    <3>1. Unsent(v) /\ cur[v] # cur[w]
      BY <1>1, <1>2, <1>5, <2>2 DEF SendInv, Sending, Unsent
    <3>2. QED
      BY <1>1, <1>2, <3>1 DEF LandInv
  <2>3. QED
    BY <2>1, <2>2
<1>6. QED
  BY <1>4, <1>5 DEF LandInv

LEMMA NextLand == TypeOK /\ SendInv /\ LandInv /\ [Next]_vars => LandInv'
<1> SUFFICES ASSUME TypeOK, SendInv, LandInv, [Next]_vars PROVE LandInv'
  OBVIOUS
<1>1. ASSUME NEW w \in Worker, RunStep(w) PROVE LandInv'
  <2>1. CASE Post(w)
    BY <2>1, PostLands
  <2>2. CASE ~Post(w)
    <3>1. landed' = landed /\ pc'[w] # "back"
      BY <1>1, <2>2, PostOrNot
    <3>2. \A v \in Worker : Unsent(v)' =>
              \/ v = w /\ cur'[w] = cur[w] /\ state[cur[w]] = "none"
                 /\ cur[w] \in Subject
              \/ v # w /\ Unsent(v) /\ cur'[v] = cur[v]
      BY <1>1, <3>1, OthersKept, RunMoves DEF Unsent
    <3>3. \A v \in Worker : Unsent(v)' => landed'[cur'[v]] = 0
      BY <3>1, <3>2 DEF LandInv, Live, TypeOK, HistoryOK
    <3>4. \A s \in Subject : landed[s] > 0 => state'[s] \in Live
      <4>1. CASE UNCHANGED ledger
        BY <4>1 DEF ledger, LandInv
      <4>2. CASE state[cur[w]] = "none" /\ \E x : state' = [state EXCEPT ![cur[w]] = x]
        BY <4>2 DEF LandInv, Live, TypeOK, LedgerOK
      <4>3. CASE /\ pc[w] = "back"
                 /\ state' = [state EXCEPT ![cur[w]] = OutcomeOf(answer[w])]
        BY <4>3 DEF LandInv, Live, TypeOK, LedgerOK, SendInv, Unsent, OutcomeOf
      <4>4. QED
        BY <1>1, <4>1, <4>2, <4>3, RowChanges
    <3>5. QED
      BY <3>1, <3>3, <3>4 DEF LandInv
  <2>3. QED
    BY <2>1, <2>2
<1>2. CASE People
  BY <1>2, PeopleStep DEF PeopleFrame, ledger, history, local, LandInv, Unsent
<1>3. CASE UNCHANGED vars
  BY <1>3 DEF vars, ledger, history, local, LandInv, Unsent
<1>4. QED
  BY <1>1, <1>2, <1>3 DEF Next

\* The announcement's row is taken once, by a run that then speaks once.
LEMMA NextNews == TypeOK /\ NewsInv /\ [Next]_vars => NewsInv'
<1> SUFFICES ASSUME TypeOK, NewsInv, [Next]_vars PROVE NewsInv'
  OBVIOUS
<1>1. ASSUME NEW w \in Worker, RunStep(w) PROVE NewsInv'
  <2>1. CASE ReserveNews(w)
    <3>1. aired' = aired /\ pc[w] = "air"
      BY <2>1 DEF ReserveNews, history
    <3>2. CASE news = "pending"
      <4>1. news' = "posted" /\ pc'[w] = "told"
        BY <2>1, <3>2 DEF ReserveNews, Goto, TypeOK, RunsOK
      <4>2. QED
        BY <1>1, <3>1, <3>2, <4>1, OthersKept DEF NewsInv
    <3>3. CASE news # "pending"
      <4>1. news' = news /\ pc'[w] = "idle"
        BY <2>1, <3>3 DEF ReserveNews, Goto, TypeOK, RunsOK
      <4>2. QED
        BY <1>1, <3>1, <3>3, <4>1, OthersKept DEF NewsInv
    <3>4. QED
      BY <3>2, <3>3
  <2>2. CASE Announce(w)
    <3>1. /\ pc[w] = "told" /\ pc'[w] = "idle" /\ news' = news
          /\ aired' \in {aired, aired + 1}
      BY <2>2 DEF Announce, Goto, asks, TypeOK, RunsOK, HistoryOK
    <3>2. QED
      BY <1>1, <3>1, OthersKept DEF NewsInv, TypeOK, HistoryOK
  <2>3. CASE ~ReserveNews(w) /\ ~Announce(w)
    <3>1. UNCHANGED <<news, aired>>
      BY <1>1, <2>3 DEF RunStep, Start, NothingLeft, Retire, AskSlack, Pace, Reserve,
         Post, Record, CloseAsk, FindNews, Crash, Consider, asks, history
    <3>2. pc'[w] # "told"
      BY <1>1, <2>3 DEF RunStep, Start, NothingLeft, Retire, AskSlack, CannotSee, Pace,
         TooEarly, Asleep, Reserve, Post, Record, CloseAsk, FindNews, Crash, Consider,
         End, Skip, Goto, TypeOK, RunsOK
    <3>3. QED
      BY <1>1, <3>1, <3>2, OthersKept DEF NewsInv
  <2>4. QED
    BY <2>1, <2>2, <2>3
<1>2. CASE People
  BY <1>2, PeopleStep DEF PeopleFrame, history, local, NewsInv
<1>3. CASE UNCHANGED vars
  BY <1>3 DEF vars, asks, history, local, NewsInv
<1>4. QED
  BY <1>1, <1>2, <1>3 DEF Next

---------------------------------------------------------------------------
(***************************************************************************)
(* What retires a subject stays true.                                      *)
(***************************************************************************)
\* Nothing takes back what speaks against a subject.
LEMMA RunFacts ==
    ASSUME TypeOK, NEW w \in Worker, RunStep(w)
    PROVE  /\ UNCHANGED <<stale, settled, parked, replied>> /\ refused \subseteq refused'
           /\ \A a \in Ask :
                 /\ ask[a] \in {"shipped", "answered"} =>
                       ask'[a] \in {"shipped", "answered"}
                 /\ ask[a] = "answered" => ask'[a] = "answered"
<1> USE DEF world, history, asks
<1>1. CASE ReserveNews(w)
  BY <1>1 DEF ReserveNews, Shipped, TypeOK, AsksOK
<1>2. CASE CloseAsk(w)
  BY <1>2 DEF CloseAsk, TypeOK, AsksOK
<1>3. CASE Start(w) \/ NothingLeft(w) \/ Retire(w) \/ AskSlack(w) \/ Pace(w)
  BY <1>3 DEF Start, NothingLeft, Retire, AskSlack, Pace
<1>4. CASE Reserve(w) \/ Post(w) \/ Record(w) \/ FindNews(w) \/ Announce(w) \/ Crash(w)
  BY <1>4 DEF Reserve, Post, Record, FindNews, Announce, Crash
<1>5. CASE \E s \in Subject : Consider(w, s)
  BY <1>5 DEF Consider
<1>6. QED
  BY <1>1, <1>2, <1>3, <1>4, <1>5 DEF RunStep

LEMMA DeadStays ==
    ASSUME stale \subseteq stale', refused \subseteq refused',
           settled \subseteq settled', parked \subseteq parked',
           replied \subseteq replied',
           \A a \in Ask : ask[a] = "answered" => ask'[a] = "answered",
           NEW s \in Subject, Dead(s)
    PROVE  Dead(s)'
BY SubjectKinds DEF Dead, Kind, ThingOf

\* What a run finds over is over for good.
LEMMA OverIsDead ==
    ASSUME TypeOK, DeadInv, NEW w \in Worker, NEW s \in Subject, s \in queue[w],
           Retires(w, s)
    PROVE  Dead(s)
BY SubjectKinds DEF DeadInv, Dead, Retires, Over, ActedOn

\* A run works off the list it drew up, on which no ask was still waiting.
LEMMA QueueShrinks ==
    ASSUME TypeOK, NEW w \in Worker, RunStep(w), NEW s \in Subject,
           s \in queue'[w] \cup {cur'[w]}
    PROVE  \/ s \in queue[w] \cup {cur[w]}
           \/ Kind(s) = "capability_now_available" => ask[ThingOf(s)] = "shipped"
<1> USE DEF TypeOK, RunsOK, HandsOK, view
<1>1. CASE Start(w)
  BY <1>1, SubjectKinds DEF Start, Candidates, StalledWork, AbandonedThreads,
     UnengagedCards, CapabilityAsks, UnansweredOffers
<1>2. CASE NothingLeft(w) \/ Retire(w) \/ AskSlack(w) \/ Pace(w)
  BY <1>2, SubjectKinds DEF NothingLeft, Retire, AskSlack, CannotSee, Pace, TooEarly,
     Asleep, End, Skip
<1>3. CASE Reserve(w) \/ Post(w) \/ Record(w) \/ CloseAsk(w) \/ Crash(w)
  BY <1>3, SubjectKinds DEF Reserve, Post, Record, CloseAsk, Crash, End, Skip
<1>4. CASE FindNews(w) \/ ReserveNews(w) \/ Announce(w)
  BY <1>4 DEF FindNews, ReserveNews, Announce
<1>5. ASSUME NEW t \in Subject, Consider(w, t) PROVE s \in queue[w] \cup {cur[w]}
  BY <1>5 DEF Consider
<1>6. QED
  BY <1>1, <1>2, <1>3, <1>4, <1>5 DEF RunStep

LEMMA NextDead == TypeOK /\ SendInv /\ DeadInv /\ [Next]_vars => DeadInv'
<1> SUFFICES ASSUME TypeOK, SendInv, DeadInv, [Next]_vars PROVE DeadInv'
  OBVIOUS
<1> DEFINE Shipping(s) == Kind(s) = "capability_now_available" =>
                              ask[ThingOf(s)] \in {"shipped", "answered"}
<1>1. ASSUME NEW w \in Worker, RunStep(w) PROVE DeadInv'
  <2>1. \A s \in Subject : Dead(s) => Dead(s)'
    BY <1>1, RunFacts, DeadStays
  <2>2. \A s \in Subject : Shipping(s) => Shipping(s)'
    BY <1>1, RunFacts, SubjectKinds DEF Kind, ThingOf
  <2>3. idle'[w] \subseteq parked'
    BY <1>1, RunFacts DEF RunStep, Start, NothingLeft, Retire, AskSlack, CannotSee, Pace,
         TooEarly, Asleep, Reserve, Post, Record, CloseAsk, FindNews, ReserveNews,
         Announce, Crash, Consider, End, Skip, view, DeadInv, TypeOK, RunsOK
  <2>4. \A s \in Subject : s \in queue'[w] \cup {cur'[w]} => Shipping(s)
    BY <1>1, QueueShrinks DEF DeadInv
  <2>5. pc'[w] = "retire" => Dead(cur'[w])
    <3>1. CASE AskSlack(w)
      <4>1. CASE Skip(w)
        BY <4>1 DEF Skip, Goto, TypeOK, RunsOK
      <4>2. CASE ~Skip(w)
        BY <3>1, <4>2 DEF AskSlack, CannotSee, Answered, Dead, Goto, TypeOK, RunsOK
      <4>3. QED
        BY <4>1, <4>2
    <3>2. ASSUME NEW s \in Subject, Consider(w, s), pc'[w] = "retire"
          PROVE  Dead(cur'[w])
      <4>1. Retires(w, s) /\ cur'[w] = s /\ s \in queue[w]
        BY <3>2 DEF Consider, Goto, TypeOK, RunsOK
      <4>2. QED
        BY <4>1, OverIsDead
    <3>3. CASE ~AskSlack(w) /\ \A s \in Subject : ~Consider(w, s)
      BY <1>1, <3>3 DEF RunStep, Start, NothingLeft, Retire, Pace, TooEarly, Asleep,
         Reserve, Post, Record, CloseAsk, FindNews, ReserveNews, Announce, Crash, End,
         Skip, Goto, TypeOK, RunsOK
    <3>4. QED
      BY <3>1, <3>2, <3>3
  <2>6. pc'[w] = "back" /\ answer'[w] = "bad_target" => cur'[w] \in refused'
    BY <1>1, PostOrNot DEF Post, TypeOK, RunsOK
  <2>7. \A s \in Subject : state'[s] = "suppressed" => Dead(s)'
    <3>1. CASE UNCHANGED ledger
      BY <2>1, <3>1 DEF ledger, DeadInv
    <3>2. CASE /\ pc[w] = "retire"
               /\ state' = [state EXCEPT ![cur[w]] = "suppressed"]
      BY <2>1, <3>2 DEF DeadInv, TypeOK, LedgerOK
    <3>3. CASE state' = [state EXCEPT ![cur[w]] = "reserved"]
      BY <2>1, <3>3 DEF DeadInv, TypeOK, LedgerOK
    <3>4. CASE /\ pc[w] = "back"
               /\ state' = [state EXCEPT ![cur[w]] = OutcomeOf(answer[w])]
      <4>1. OutcomeOf(answer[w]) = "suppressed" => answer[w] = "bad_target"
        BY <3>4 DEF OutcomeOf, SendInv
      <4>2. OutcomeOf(answer[w]) = "suppressed" => Dead(cur[w])
        BY <3>4, <4>1 DEF DeadInv, Dead
      <4>3. QED
        BY <2>1, <3>4, <4>2 DEF DeadInv, TypeOK, LedgerOK
    <3>5. QED
      BY <1>1, <3>1, <3>2, <3>3, <3>4, RowChanges
  <2>8. \A v \in Worker : v # w =>
            /\ pc'[v] = pc[v] /\ cur'[v] = cur[v] /\ answer'[v] = answer[v]
            /\ queue'[v] = queue[v] /\ idle'[v] = idle[v]
    BY <1>1, OthersKept
  <2>9. \A v \in Worker : idle'[v] \subseteq parked'
    BY <1>1, <2>3, <2>8, RunFacts DEF DeadInv
  <2>10. \A v \in Worker : \A s \in Subject :
            s \in queue'[v] \cup {cur'[v]} => Shipping(s)'
    <3>1. \A v \in Worker : \A s \in Subject :
              s \in queue'[v] \cup {cur'[v]} => Shipping(s)
      BY <2>4, <2>8 DEF DeadInv
    <3>2. QED
      BY <2>2, <3>1
  <2>11. ASSUME NEW v \in Worker, pc'[v] = "retire" PROVE Dead(cur[v])'
    <3>1. Dead(cur'[v])
      BY <2>5, <2>8, <2>11 DEF DeadInv
    <3>2. cur'[v] \in Subject
      BY <1>1, <2>8, <2>11, RunMoves DEF TypeOK, RunsOK, HandsOK
    <3>3. QED
      BY <2>1, <3>1, <3>2
  <2>12. \A v \in Worker :
            pc'[v] = "back" /\ answer'[v] = "bad_target" => cur'[v] \in refused'
    BY <1>1, <2>6, <2>8, RunFacts DEF DeadInv
  <2>13. QED
    BY <2>7, <2>9, <2>10, <2>11, <2>12 DEF DeadInv
<1>2. CASE People
  <2>1. \A s \in Subject : Dead(s) => Dead(s)'
    BY <1>2, PeopleStep, DeadStays DEF PeopleFrame, history
  <2>2. \A s \in Subject : Shipping(s) => Shipping(s)'
    BY <1>2, PeopleStep, SubjectKinds DEF PeopleFrame, Kind, ThingOf
  <2>3. QED
    BY <1>2, <2>1, <2>2, PeopleStep
       DEF PeopleFrame, history, ledger, local, view, DeadInv, TypeOK, RunsOK, HandsOK
<1>3. CASE UNCHANGED vars
  BY <1>3 DEF vars, world, asks, ledger, history, local, view, DeadInv, Dead
<1>4. QED
  BY <1>1, <1>2, <1>3 DEF Next

\* However runs overlap, crash or lose Slack's answer, each subject is mentioned
\* at most once, ever, and the announcement is made once: the unique row of
\* followup_nudges, and posted_at, are written before Slack is asked and only a
\* certain refusal takes the row back.  And a subject is retired only by a fact
\* that stays true.
THEOREM OneChance == Spec => []OneChanceEach
<1>1. Init => LandInv /\ NewsInv /\ DeadInv
  <2>1. Init => LandInv
    BY DEF Init, LandInv, Unsent
  <2>2. Init => NewsInv
    BY DEF Init, NewsInv
  <2>3. Init => DeadInv
    BY SubjectKinds DEF Init, DeadInv
  <2>4. QED
    BY <2>1, <2>2, <2>3
<1>2. TypeOK /\ LandInv /\ NewsInv /\ DeadInv => OneChanceEach
  BY DEF OneChanceEach, LandInv, NewsInv, DeadInv, Dead
<1>3. QED
  BY <1>1, <1>2, InitTypeOK, InitSend, NextTypeOK, NextLand, NextNews, NextDead, PTL
     DEF Spec

---------------------------------------------------------------------------
(***************************************************************************)
(* The caps.                                                               *)
(***************************************************************************)
\* Once two runs have overlapped the books say so, and a run that begins beside
\* another makes them overlap.
LEMMA OverlapStep ==
    ASSUME TypeOK, NEW w \in Worker, RunStep(w)
    PROVE  /\ overlap => overlap'
           /\ pc[w] = "idle" => /\ pc'[w] \in {"list", "air"}
                                /\ ledger' = ledger /\ after' = after
                                /\ ~overlap' => \A v \in Worker : pc[v] = "idle"
<1> USE DEF TypeOK, RunsOK, Goto, history
<1>1. CASE Start(w) \/ FindNews(w)
  BY <1>1 DEF Start, FindNews
<1>2. CASE NothingLeft(w) \/ Retire(w) \/ AskSlack(w) \/ Pace(w)
  BY <1>2 DEF NothingLeft, Retire, AskSlack, Pace
<1>3. CASE Reserve(w) \/ Post(w) \/ Record(w) \/ CloseAsk(w) \/ Crash(w)
  BY <1>3 DEF Reserve, Post, Record, CloseAsk, Crash
<1>4. CASE ReserveNews(w) \/ Announce(w)
  BY <1>4 DEF ReserveNews, Announce
<1>5. CASE \E s \in Subject : Consider(w, s)
  BY <1>5 DEF Consider
<1>6. QED
  BY <1>1, <1>2, <1>3, <1>4, <1>5 DEF RunStep

\* While nothing overlaps the run that moves is the only one.
LEMMA OnlyRun ==
    ASSUME TypeOK, NEW w \in Worker, RunStep(w), ~overlap', Alone
    PROVE  Alone' /\ \A v \in Worker : v # w => pc[v] = "idle" /\ pc'[v] = "idle"
<1>1. \A v \in Worker : v # w => pc'[v] = pc[v]
  BY OthersKept
<1>2. CASE pc[w] = "idle"
  BY <1>1, <1>2, OverlapStep DEF Alone
<1>3. CASE pc[w] # "idle"
  BY <1>1, <1>3 DEF Alone
<1>4. QED
  BY <1>2, <1>3

LEMMA CountLess ==
    ASSUME NEW S, IsFiniteSet(S), NEW T, T \subseteq S, NEW n \in Nat,
           Cardinality(S) <= n
    PROVE  Cardinality(T) <= n
BY FS_Subset, FS_CardinalityType

LEMMA CountOneMore ==
    ASSUME NEW S, IsFiniteSet(S), NEW x, NEW T, T \subseteq S \cup {x}, NEW n \in Nat,
           ~(Cardinality(S) >= n)
    PROVE  Cardinality(T) <= n
<1>1. IsFiniteSet(S \cup {x}) /\ Cardinality(S) \in Nat
  BY FS_AddElement, FS_CardinalityType
<1>2. Cardinality(S \cup {x}) <= n
  BY <1>1, FS_AddElement
<1>3. QED
  BY <1>1, <1>2, CountLess

LEMMA HeardFinite ==
    \A d, x : IsFiniteSet(Heard(d, x)) /\ IsFiniteSet(HeardBy(d, x))
<1> TAKE d, x
<1>1. Heard(d, x) \subseteq Subject /\ HeardBy(d, x) \subseteq Subject
  BY DEF Heard, HeardBy
<1>2. QED
  BY <1>1, SubjectFinite, FS_Subset

\* What a run found room for is what the caps still allow.
LEMMA ReserveFits ==
    ASSUME TypeOK, CapInv, ~overlap, NEW w \in Worker, pc[w] = "reserve",
           cur[w] \in Subject,
           state' = [state EXCEPT ![cur[w]] = "reserved"],
           on' = [on EXCEPT ![cur[w]] = day],
           to' = [to EXCEPT ![cur[w]] = TargetOf(w, cur[w])],
           NEW d \in 1..MaxDays
    PROVE  /\ \A place \in Audience : Cardinality(Heard(d, place)') <= MaxPerDay
           /\ \A p \in Person : Cardinality(HeardBy(d, p)') <= MaxPerPerson
<1> USE DEF TypeOK, LedgerOK
<1>0. MaxPerDay \in Nat /\ MaxPerPerson \in Nat /\ Nobody \notin Person
  BY NudgeAssumption
<1>1. ASSUME NEW place \in Audience
      PROVE  Cardinality(Heard(d, place)') <= MaxPerDay
  <2>1. Cardinality(Heard(d, place)) <= MaxPerDay
    BY DEF CapInv
  <2>2. CASE d = day /\ place = Place[ThingOf(cur[w])]
    <3>1. ~(Cardinality(Heard(day, place)) >= MaxPerDay)
      BY <2>2 DEF CapInv, CapReached, SentToday, Heard
    <3>2. Heard(d, place)' \subseteq Heard(day, place) \cup {cur[w]}
      BY <2>2 DEF Heard
    <3>3. QED
      BY <1>0, <3>1, <3>2, HeardFinite, CountOneMore
  <2>3. CASE ~(d = day /\ place = Place[ThingOf(cur[w])])
    <3>1. Heard(d, place)' \subseteq Heard(d, place)
      BY <2>3 DEF Heard
    <3>2. QED
      BY <1>0, <2>1, <3>1, HeardFinite, CountLess
  <2>4. QED
    BY <2>2, <2>3
<1>2. ASSUME NEW p \in Person
      PROVE  Cardinality(HeardBy(d, p)') <= MaxPerPerson
  <2>1. Cardinality(HeardBy(d, p)) <= MaxPerPerson
    BY DEF CapInv
  <2>2. CASE d = day /\ p = TargetOf(w, cur[w])
    <3>1. ~(Cardinality(HeardBy(day, p)) >= MaxPerPerson)
      BY <1>0, <2>2 DEF CapInv, HadTheirs, SentToPersonToday, HeardBy
    <3>2. HeardBy(d, p)' \subseteq HeardBy(day, p) \cup {cur[w]}
      BY <2>2 DEF HeardBy
    <3>3. QED
      BY <1>0, <3>1, <3>2, HeardFinite, CountOneMore
  <2>3. CASE ~(d = day /\ p = TargetOf(w, cur[w]))
    <3>1. HeardBy(d, p)' \subseteq HeardBy(d, p)
      BY <2>3 DEF HeardBy
    <3>2. QED
      BY <1>0, <2>1, <3>1, HeardFinite, CountLess
  <2>4. QED
    BY <2>2, <2>3
<1>3. QED
  BY <1>1, <1>2

\* Any other change of a row takes it out of the count or leaves it there.
LEMMA RowsFit ==
    ASSUME CapInv, ~overlap,
           \A s \in Subject : state'[s] \in Live =>
               state[s] \in Live /\ on'[s] = on[s] /\ to'[s] = to[s],
           NEW d \in 1..MaxDays
    PROVE  /\ \A place \in Audience : Cardinality(Heard(d, place)') <= MaxPerDay
           /\ \A p \in Person : Cardinality(HeardBy(d, p)') <= MaxPerPerson
<1>0. MaxPerDay \in Nat /\ MaxPerPerson \in Nat
  BY NudgeAssumption
<1>1. ASSUME NEW place \in Audience
      PROVE  Cardinality(Heard(d, place)') <= MaxPerDay
  <2>1. Cardinality(Heard(d, place)) <= MaxPerDay
    BY DEF CapInv
  <2>2. Heard(d, place)' \subseteq Heard(d, place)
    BY DEF Heard
  <2>3. QED
    BY <1>0, <2>1, <2>2, HeardFinite, CountLess
<1>2. ASSUME NEW p \in Person
      PROVE  Cardinality(HeardBy(d, p)') <= MaxPerPerson
  <2>1. Cardinality(HeardBy(d, p)) <= MaxPerPerson
    BY DEF CapInv
  <2>2. HeardBy(d, p)' \subseteq HeardBy(d, p)
    BY DEF HeardBy
  <2>3. QED
    BY <1>0, <2>1, <2>2, HeardFinite, CountLess
<1>3. QED
  BY <1>1, <1>2

\* A run reserves what it has just found room for.
LEMMA RoomFound ==
    ASSUME TypeOK, NEW w \in Worker, RunStep(w), pc'[w] = "reserve"
    PROVE  /\ UNCHANGED <<day, ledger, cur, tagged>>
           /\ ~CapReached(cur[w])
           /\ TargetOf(w, cur[w]) # Nobody => ~HadTheirs(w, cur[w])
<1> USE DEF TypeOK, RunsOK, Goto, End, Skip
<1>1. Pace(w)
  BY DEF RunStep, Start, NothingLeft, Retire, AskSlack, CannotSee, Reserve, Post,
         Record, CloseAsk, FindNews, ReserveNews, Announce, Crash, Consider
<1>2. ~End(w) /\ ~Skip(w)
  OBVIOUS
<1>3. QED
  BY <1>1, <1>2 DEF Pace, TooEarly, Asleep, view

LEMMA NextCap == TypeOK /\ SendInv /\ CapInv /\ [Next]_vars => CapInv'
<1> SUFFICES ASSUME TypeOK, SendInv, CapInv, [Next]_vars, ~overlap' PROVE CapInv'
  BY DEF CapInv
<1>1. ASSUME NEW w \in Worker, RunStep(w) PROVE CapInv'
  <2>1. ~overlap /\ Alone
    BY <1>1, OverlapStep DEF CapInv
  <2>2. Alone' /\ \A v \in Worker : v # w => pc'[v] = "idle"
    BY <1>1, <2>1, OnlyRun
  <2>3. ASSUME NEW d \in 1..MaxDays
        PROVE  /\ \A place \in Audience : Cardinality(Heard(d, place)') <= MaxPerDay
               /\ \A p \in Person : Cardinality(HeardBy(d, p)') <= MaxPerPerson
    <3>1. CASE /\ pc[w] = "reserve" /\ cur[w] \in Subject
               /\ state' = [state EXCEPT ![cur[w]] = "reserved"]
               /\ on' = [on EXCEPT ![cur[w]] = day]
               /\ to' = [to EXCEPT ![cur[w]] = TargetOf(w, cur[w])]
      BY <2>1, <3>1, ReserveFits
    <3>2. CASE UNCHANGED ledger
      BY <2>1, <3>2, RowsFit DEF ledger
    <3>3. CASE /\ pc[w] = "retire" /\ cur[w] \in Subject
               /\ state' = [state EXCEPT ![cur[w]] = "suppressed"]
               /\ on' = [on EXCEPT ![cur[w]] = day]
               /\ to' = [to EXCEPT ![cur[w]] = TargetOf(w, cur[w])]
      BY <2>1, <3>3, RowsFit DEF Live, TypeOK, LedgerOK
    <3>4. CASE /\ cur[w] \in Subject /\ state[cur[w]] = "reserved"
               /\ state' = [state EXCEPT ![cur[w]] = OutcomeOf(answer[w])]
               /\ UNCHANGED <<on, to>>
      BY <2>1, <3>4, RowsFit DEF Live, TypeOK, LedgerOK
    <3>5. QED
      BY <1>1, <3>1, <3>2, <3>3, <3>4, RowChanges
  <2>4. ASSUME NEW v \in Worker, pc'[v] = "reserve"
        PROVE  (/\ ~CapReached(cur[v])
                /\ TargetOf(v, cur[v]) # Nobody => ~HadTheirs(v, cur[v]))'
    <3>1. v = w
      BY <2>2, <2>4
    <3>2. /\ UNCHANGED <<day, ledger, cur, tagged>>
          /\ ~CapReached(cur[w])
          /\ TargetOf(w, cur[w]) # Nobody => ~HadTheirs(w, cur[w])
      BY <1>1, <2>4, <3>1, RoomFound
    <3>3. QED
      BY <3>1, <3>2 DEF ledger, CapReached, SentToday, TargetOf, HadTheirs,
                        SentToPersonToday
  <2>5. QED
    BY <2>2, <2>3, <2>4 DEF CapInv
<1>2. CASE People
  <2>1. /\ UNCHANGED <<ledger, local, overlap>>
        /\ day' # day => \A w \in Worker : pc[w] = "idle"
    BY <1>2, PeopleStep DEF PeopleFrame, history
  <2>2. ASSUME NEW d \in 1..MaxDays
        PROVE  /\ \A place \in Audience : Cardinality(Heard(d, place)') <= MaxPerDay
               /\ \A p \in Person : Cardinality(HeardBy(d, p)') <= MaxPerPerson
    BY <2>1, <2>2, RowsFit DEF ledger
  <2>3. ASSUME NEW v \in Worker, pc'[v] = "reserve"
        PROVE  (/\ ~CapReached(cur[v])
                /\ TargetOf(v, cur[v]) # Nobody => ~HadTheirs(v, cur[v]))'
    <3>1. day' = day /\ pc[v] = "reserve"
      BY <2>1, <2>3 DEF local
    <3>2. QED
      BY <2>1, <3>1 DEF CapInv, ledger, local, view, CapReached, SentToday, TargetOf,
                        HadTheirs, SentToPersonToday
  <2>4. Alone'
    BY <2>1 DEF CapInv, Alone, local
  <2>5. QED
    BY <2>2, <2>3, <2>4 DEF CapInv
<1>3. CASE UNCHANGED vars
  <2>1. UNCHANGED <<ledger, local, overlap, day>>
    BY <1>3 DEF vars, history
  <2>2. ASSUME NEW d \in 1..MaxDays
        PROVE  /\ \A place \in Audience : Cardinality(Heard(d, place)') <= MaxPerDay
               /\ \A p \in Person : Cardinality(HeardBy(d, p)') <= MaxPerPerson
    BY <2>1, RowsFit DEF ledger
  <2>3. ASSUME NEW v \in Worker, pc'[v] = "reserve"
        PROVE  (/\ ~CapReached(cur[v])
                /\ TargetOf(v, cur[v]) # Nobody => ~HadTheirs(v, cur[v]))'
    BY <2>1, <2>3 DEF CapInv, ledger, local, view, CapReached, SentToday, TargetOf,
                      HadTheirs, SentToPersonToday
  <2>4. Alone'
    BY <2>1 DEF CapInv, Alone, local
  <2>5. QED
    BY <2>2, <2>3, <2>4 DEF CapInv
<1>4. QED
  BY <1>1, <1>2, <1>3 DEF Next

\* While no two runs overlap, an audience hears at most MAX_NUDGES_PER_DAY
\* messages a day and a person at most MaxPerPerson over all of them: every row
\* that may have reached somebody counts, whatever its outcome.
THEOREM CapsKept == Spec => []CapsHold
<1>1. Init => LandInv /\ CapInv
  <2>1. Init => LandInv
    BY DEF Init, LandInv, Unsent
  <2>2. ASSUME Init PROVE CapInv
    <3>1. \A d, x : Heard(d, x) = {} /\ HeardBy(d, x) = {}
      BY <2>2 DEF Init, Heard, HeardBy, Live
    <3>2. Cardinality({}) = 0 /\ MaxPerDay \in Nat /\ MaxPerPerson \in Nat
      BY FS_EmptySet, NudgeAssumption
    <3>3. Alone /\ \A w \in Worker : pc[w] # "reserve"
      BY <2>2 DEF Init, Alone
    <3>4. QED
      BY <3>1, <3>2, <3>3 DEF CapInv
  <2>3. QED
    BY <2>1, <2>2
<1>2. TypeOK /\ LandInv /\ CapInv => CapsHold
  <2> SUFFICES ASSUME LandInv, CapInv, ~overlap, NEW d \in 1..MaxDays
               PROVE  LET out == {s \in Subject : landed[s] > 0 /\ on[s] = d} IN
                      /\ \A p \in Person :
                            Cardinality({s \in out : to[s] = p}) <= MaxPerPerson
                      /\ \A place \in Audience :
                            Cardinality({s \in out : Place[ThingOf(s)] = place})
                                <= MaxPerDay
    BY DEF CapsHold
  <2> DEFINE out == {s \in Subject : landed[s] > 0 /\ on[s] = d}
  <2>0. MaxPerDay \in Nat /\ MaxPerPerson \in Nat
    BY NudgeAssumption
  <2>1. ASSUME NEW p \in Person
        PROVE  Cardinality({s \in out : to[s] = p}) <= MaxPerPerson
    <3>1. {s \in out : to[s] = p} \subseteq HeardBy(d, p)
      BY DEF LandInv, HeardBy
    <3>2. Cardinality(HeardBy(d, p)) <= MaxPerPerson
      BY DEF CapInv
    <3>3. QED
      BY <2>0, <3>1, <3>2, HeardFinite, CountLess
  <2>2. ASSUME NEW place \in Audience
        PROVE  Cardinality({s \in out : Place[ThingOf(s)] = place}) <= MaxPerDay
    <3>1. {s \in out : Place[ThingOf(s)] = place} \subseteq Heard(d, place)
      BY DEF LandInv, Heard
    <3>2. Cardinality(Heard(d, place)) <= MaxPerDay
      BY DEF CapInv
    <3>3. QED
      BY <2>0, <3>1, <3>2, HeardFinite, CountLess
  <2>3. QED
    BY <2>1, <2>2
<1>3. QED
  BY <1>1, <1>2, InitTypeOK, InitSend, NextTypeOK, NextLand, NextCap, PTL DEF Spec

---------------------------------------------------------------------------
(***************************************************************************)
(* The manager hears last.                                                 *)
(***************************************************************************)
\* A run goes on with an escalation that names the owner only when the owner has
\* had their turn.
LEMMA EscalationBegins ==
    ASSUME TypeOK, NEW w \in Worker, RunStep(w), Escalates(w)'
    PROVE  \/ Escalates(w) /\ cur'[w] = cur[w]
           \/ /\ cur'[w] \in Subject /\ ledger' = ledger
              /\ state[Unengaged(ThingOf(cur'[w]))] # "none"
<1> USE DEF TypeOK, RunsOK, Goto, End, Skip, Escalates, view
<1>1. CASE \E s \in Subject : Consider(w, s)
  <2>1. PICK s \in Subject : Consider(w, s)
    BY <1>1
  <2>2. cur'[w] = s /\ tagged' = tagged /\ ledger' = ledger
        /\ ~Retires(w, s) /\ ~Holds(w, s)
    BY <2>1 DEF Consider, HandsOK
  <2>3. Kind(s) = "card_escalated" /\ ThingOf(s) \in tagged[w]
    BY <2>2
  <2>4. state[Unengaged(ThingOf(s))] # "none"
    BY <2>2, <2>3 DEF Retires, Holds, Transient, Premature, Unengaged
  <2>5. QED
    BY <2>2, <2>4
<1>2. CASE Start(w) \/ NothingLeft(w) \/ Retire(w) \/ AskSlack(w) \/ Pace(w)
  BY <1>2 DEF Start, NothingLeft, Retire, AskSlack, CannotSee, Pace, TooEarly, Asleep
<1>3. CASE Reserve(w) \/ Post(w) \/ Record(w) \/ CloseAsk(w) \/ Crash(w)
  BY <1>3 DEF Reserve, Post, Record, CloseAsk, Crash
<1>4. CASE FindNews(w) \/ ReserveNews(w) \/ Announce(w)
  BY <1>4 DEF FindNews, ReserveNews, Announce
<1>5. QED
  BY <1>1, <1>2, <1>3, <1>4 DEF RunStep

LEMMA NextLast == TypeOK /\ SendInv /\ LastInv /\ [Next]_vars => LastInv'
<1> SUFFICES ASSUME TypeOK, SendInv, LastInv, [Next]_vars, ~overlap' PROVE LastInv'
  BY DEF LastInv
<1>1. ASSUME NEW w \in Worker, RunStep(w) PROVE LastInv'
  <2>1. ~overlap /\ Alone /\ after = {}
    BY <1>1, OverlapStep DEF LastInv
  <2>2. Alone' /\ \A v \in Worker : v # w => pc[v] = "idle" /\ pc'[v] = "idle"
    BY <1>1, <2>1, OnlyRun
  \* The row of an owner's turn is given up only by the run that is sending it.
  <2>3. ASSUME NEW c \in Card, state[Unengaged(c)] # "none",
               Sending(w) => cur[w] # Unengaged(c)
        PROVE  /\ state'[Unengaged(c)] # "none"
               /\ Sending(w)' => cur'[w] # Unengaged(c)
    <3>1. Unengaged(c) \in Subject
      BY SubjectKinds
    <3>2. state'[Unengaged(c)] # "none"
      BY <1>1, <2>3, <3>1, RowChanges DEF Sending, TypeOK, LedgerOK, ledger
    <3>3. Sending(w)' => cur'[w] # Unengaged(c)
      BY <1>1, <2>3, RunMoves DEF Sending
    <3>4. QED
      BY <3>2, <3>3
  <2>4. ASSUME Escalates(w)' PROVE state'[Unengaged(ThingOf(cur'[w]))] # "none"
    <3>1. CASE Escalates(w) /\ cur'[w] = cur[w]
      <4>1. /\ cur[w] \in Subject /\ ThingOf(cur[w]) \in Card
            /\ cur[w] # Unengaged(ThingOf(cur[w]))
        BY <3>1, SubjectKinds DEF Escalates, TypeOK, RunsOK, HandsOK, Kind, Unengaged
      <4>2. state[Unengaged(ThingOf(cur[w]))] # "none"
        BY <2>1, <3>1 DEF LastInv
      <4>3. QED
        BY <2>3, <3>1, <4>1, <4>2
    <3>2. CASE ledger' = ledger /\ state[Unengaged(ThingOf(cur'[w]))] # "none"
      BY <3>2 DEF ledger
    <3>3. QED
      BY <1>1, <2>4, <3>1, <3>2, EscalationBegins
  <2>5. /\ after' = {}
        /\ \A c \in named' : /\ state[Unengaged(c)] # "none"
                             /\ Sending(w) => cur[w] # Unengaged(c)
    <3>1. CASE Post(w)
      <4>1. /\ pc[w] = "post" /\ cur[w] \in Subject
            /\ cur[w] = <<Kind(cur[w]), ThingOf(cur[w])>>
        BY <3>1, SubjectKinds DEF Post, TypeOK, RunsOK, HandsOK
      <4>2. after' = {}
        <5>1. Kind(cur[w]) = "card_unengaged" => ThingOf(cur[w]) \notin named
          BY <2>1, <4>1 DEF LastInv, Sending, Unengaged
        <5>2. QED
          BY <2>1, <3>1, <5>1 DEF Post
      <4>3. ASSUME NEW c \in named', c \notin named
            PROVE  /\ state[Unengaged(c)] # "none"
                   /\ Sending(w) => cur[w] # Unengaged(c)
        <5>1. Kind(cur[w]) = "card_escalated" /\ c = ThingOf(cur[w])
              /\ c \in tagged[w]
          BY <3>1, <4>3 DEF Post
        <5>2. Escalates(w)
          BY <4>1, <5>1 DEF Escalates
        <5>3. QED
          BY <2>1, <5>1, <5>2 DEF LastInv, Unengaged, Kind
      <4>4. QED
        BY <2>1, <4>2, <4>3 DEF LastInv
    <3>2. CASE UNCHANGED <<named, after>>
      BY <2>1, <3>2 DEF LastInv
    <3>3. QED
      BY <1>1, <3>1, <3>2, PostOrNot
  <2>6. named' \subseteq Card
    BY <1>1, BookTypes DEF HistoryOK
  <2>7. \A c \in named' : /\ state'[Unengaged(c)] # "none"
                          /\ \A v \in Worker : Sending(v)' => cur'[v] # Unengaged(c)
    BY <2>2, <2>3, <2>5, <2>6 DEF Sending
  <2>8. \A v \in Worker : Escalates(v)' =>
            state'[Unengaged(ThingOf(cur'[v]))] # "none"
    BY <2>2, <2>4 DEF Escalates
  <2>9. QED
    BY <2>2, <2>5, <2>7, <2>8 DEF LastInv, Unengaged
<1>2. CASE UNCHANGED <<ledger, history, local>>
  BY <1>2 DEF ledger, history, local, view, LastInv, Alone, Escalates, Sending,
              Unengaged
<1>3. CASE People
  BY <1>2, <1>3, PeopleStep DEF PeopleFrame
<1>4. CASE UNCHANGED vars
  BY <1>2, <1>4 DEF vars
<1>5. QED
  BY <1>1, <1>3, <1>4 DEF Next

\* While no two runs overlap, nobody is asked about a card after the manager has
\* been told that they did not answer: _escalation_is_premature takes any row as
\* the owner's turn, and a row is given up only by the run that is sending it.
THEOREM ManagerLast == Spec => []ManagerHearsLast
<1>1. Init => LastInv
  BY DEF Init, LastInv, Alone, Escalates
<1>2. LastInv => ManagerHearsLast
  BY DEF LastInv, ManagerHearsLast
<1>3. QED
  BY <1>1, <1>2, InitTypeOK, InitSend, NextTypeOK, NextLast, PTL DEF Spec
================================================================================
