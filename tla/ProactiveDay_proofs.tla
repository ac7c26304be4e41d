-------------------------- MODULE ProactiveDay_proofs --------------------------
(***************************************************************************)
(* Theorems about ProactiveDay for any leads, members, runs and crashes.   *)
(***************************************************************************)
EXTENDS ProactiveDay, TLAPS

---------------------------------------------------------------------------
(***************************************************************************)
(* The inductive invariants.                                               *)
(***************************************************************************)
\* A run past the choice of a member has one in hand, and a list that went to
\* Slack has one of three answers.
HandsInv ==
    /\ \A w \in Worker :
          pc[w] \in {"inspect", "note", "used", "slot", "insert", "post", "posted"}
          => cur[w] \in Member
    /\ \A w \in Worker :
          pc[w] = "listed" => answer[w] \in {"ok", "refused", "lost"}

\* A run whose rows are reserved and not yet settled.
Listing(w) == pc[w] \in {"list", "listed"}

\* Slack has not taken the batch of this run.
Unsent(w) == pc[w] = "list" \/ (pc[w] = "listed" /\ answer[w] = "refused")

\* Reserved rows belong to one run each, and a lead that was shown has a row.
ListInv ==
    /\ \A w \in Worker : pc[w] \in {"reserve", "list", "listed"} => batch[w] # {}
    /\ \A w \in Worker : Listing(w) =>
          \A l \in batch[w] : item[l] = "reserved" /\ on[l] = day
    /\ \A v, w \in Worker :
          Listing(v) /\ Listing(w) /\ v # w => batch[v] \cap batch[w] = {}
    /\ \A l \in Lead : shown[l] <= 1 /\ (shown[l] > 0 => item[l] # "none")
    /\ \A w \in Worker : Unsent(w) => \A l \in batch[w] : shown[l] = 0

\* A run between the slot it took and its end.
HoldsSlot(w) == pc[w] \in {"insert", "post", "posted"}

\* The day has one holder, and who has spoken keeps it.
SlotInv ==
    /\ \A w \in Worker : HoldsSlot(w) => slot[day] = cur[w]
    /\ \A v, w \in Worker : HoldsSlot(v) /\ HoldsSlot(w) => v = w
    /\ card # "none" => slot[day] = Card
    /\ \A d \in Day : spoken[d] <= 1 /\ (d > day => spoken[d] = 0)
    /\ spoken[day] > 0 =>
          /\ slot[day] # Free /\ card # "held"
          /\ \A w \in Worker : pc[w] \notin {"insert", "post"}

\* Only the row a run has inserted lets it speak about a member.
RemindInv ==
    /\ \A m \in Member : reminded[m] <= 1 /\ (reminded[m] > 0 => row[m] # "none")
    /\ \A w \in Worker :
          pc[w] = "post" => row[cur[w]] = "sending" /\ reminded[cur[w]] = 0

\* While runs do not overlap, a list that is out has left a row of its day.
OneListInv ==
    /\ \A d \in Day : d > day => lists[d] = 0
    /\ overlap \/
        /\ \A v, w \in Worker : pc[v] # "idle" /\ pc[w] # "idle" => v = w
        /\ \A d \in Day \ forced : lists[d] <= 1
        /\ day \notin forced /\ lists[day] > 0 =>
              /\ AlreadyListedToday
              /\ \A w \in Worker : pc[w] \notin {"pick", "reserve"} /\ ~Unsent(w)

---------------------------------------------------------------------------
(***************************************************************************)
(* Types.                                                                  *)
(***************************************************************************)
LEMMA InitTypeOK == Init => TypeOK /\ HandsInv
<1> SUFFICES ASSUME Init PROVE TypeOK /\ HandsInv
  OBVIOUS
<1>1. MaxDays \in Nat \ {0} /\ MaxRuns \in Nat /\ MaxCrashes \in Nat
  BY DayAssumption
<1>2. RowsOK
  BY <1>1 DEF Init, RowsOK, ItemState, RowState
<1>3. SaidOK
  BY DEF Init, SaidOK
<1>4. RunsOK
  BY DEF Init, RunsOK, Point, NoMember
<1>5. HandsInv
  BY DEF Init, HandsInv
<1>6. QED
  BY <1>1, <1>2, <1>3, <1>4, <1>5 DEF Init, TypeOK, Day

\* The run's own variables stay in their domains.
LEMMA RunTypes ==
    ASSUME TypeOK, HandsInv, NEW w \in Worker, RunStep(w)
    PROVE  RunsOK' /\ HandsInv'
<1> USE DEF TypeOK, RunsOK, HandsInv, NoMember, Goto
<1>1. CASE End(w)
  BY <1>1 DEF End, Point
<1>2. CASE StartList(w)
  BY <1>2 DEF StartList, Point
<1>3. CASE Pick(w) /\ ~End(w)
  <2>1. PICK some \in (SUBSET Candidates) \ {{}} :
          batch' = [batch EXCEPT ![w] = some] /\ Goto(w, "reserve")
          /\ UNCHANGED <<todo, cur, answer>>
    BY <1>3 DEF Pick
  <2>2. some \subseteq Lead
    BY <2>1 DEF Candidates, RowsOK
  <2>3. QED
    BY <2>1, <2>2 DEF Point
<1>4. CASE Reserve(w) /\ ~End(w)
  BY <1>4 DEF Reserve, Point
<1>5. CASE PostList(w)
  BY <1>5 DEF PostList, Point
<1>6. CASE StartFollowups(w)
  BY <1>6 DEF StartFollowups, Point, RowsOK
<1>7. CASE Look(w) /\ ~End(w)
  BY <1>7 DEF Look, Point
<1>8. CASE InspectActivity(w)
  BY <1>8 DEF InspectActivity, Point
<1>9. CASE Note(w)
  BY <1>9 DEF Note, Point
<1>10. CASE CheckUsed(w) /\ ~End(w)
  BY <1>10 DEF CheckUsed, Point
<1>11. CASE ReserveSlot(w) /\ ~End(w)
  BY <1>11 DEF ReserveSlot, Point
<1>12. CASE Insert(w)
  BY <1>12 DEF Insert, Point
<1>13. CASE Post(w)
  BY <1>13 DEF Post, Point
<1>14. CASE Finish(w) \/ Record(w) \/ Crash(w)
  BY <1>1, <1>14 DEF Finish, Record, Crash
<1>15. QED
  BY <1>1, <1>2, <1>3, <1>4, <1>5, <1>6, <1>7, <1>8, <1>9, <1>10, <1>11, <1>12,
     <1>13, <1>14 DEF RunStep

\* The rows and slots stay in their domains.
LEMMA RowTypes ==
    ASSUME TypeOK, HandsInv, NEW w \in Worker, RunStep(w)
    PROVE  RowsOK'
<1> USE DEF TypeOK, RowsOK, Day
<1>0. day \in 0..MaxDays /\ 0 \in 0..MaxDays
  BY DayAssumption
<1>1. CASE Reserve(w)
  <2>1. item' \in [Lead -> ItemState]
    BY <1>1 DEF Reserve, ItemState
  <2>2. on' \in [Lead -> 0..MaxDays]
    BY <1>0, <1>1 DEF Reserve
  <2>3. QED
    BY <1>1, <2>1, <2>2 DEF Reserve, crm
<1>2. CASE Finish(w)
  <2>1. item' \in [Lead -> ItemState]
    BY <1>2 DEF Finish, Outcome, HandsInv, ItemState
  <2>2. on' \in [Lead -> 0..MaxDays]
    BY <1>0, <1>2 DEF Finish
  <2>3. QED
    BY <1>2, <2>1, <2>2 DEF Finish, crm
<1>3. CASE Note(w)
  <2>1. row' \in [Member -> RowState]
    BY <1>3 DEF Note, RowState
  <2>2. checked' \in [Member -> 0..MaxDays]
    BY <1>0, <1>3 DEF Note
  <2>3. QED
    BY <1>3, <2>1, <2>2 DEF Note, list
<1>4. CASE ReserveSlot(w)
  BY <1>4 DEF ReserveSlot, list, crm, RunsOK, NoMember
<1>5. CASE Insert(w)
  <2>1. row' \in [Member -> RowState]
    BY <1>5 DEF Insert, RowState
  <2>2. checked' \in [Member -> 0..MaxDays]
    BY <1>0, <1>5 DEF Insert
  <2>3. slot' \in [Day -> Member \cup {Card, Free}]
    BY <1>5 DEF Insert, ReleaseSlot
  <2>4. QED
    BY <1>5, <2>1, <2>2, <2>3 DEF Insert, list
<1>6. CASE Record(w)
  <2>1. row' \in [Member -> RowState]
    BY <1>6 DEF Record, RowState
  <2>2. checked' \in [Member -> 0..MaxDays]
    BY <1>0, <1>6 DEF Record
  <2>3. QED
    BY <1>6, <2>1, <2>2 DEF Record, list
<1>7. CASE UNCHANGED <<list, crm, slot>>
  BY <1>7 DEF list, crm
<1>8. QED
  BY <1>1, <1>2, <1>3, <1>4, <1>5, <1>6, <1>7 DEF RunStep, StartList, Pick,
     PostList, StartFollowups, Look, InspectActivity, CheckUsed, Post, Crash

\* What was said, and the rest of the state, stays in its domain.
LEMMA SaidTypes ==
    ASSUME TypeOK, HandsInv, NEW w \in Worker, RunStep(w)
    PROVE  /\ SaidOK' /\ day' = day /\ card' = card
           /\ runs' \in 0..MaxRuns /\ crashes' \in 0..MaxCrashes
<1> USE DEF TypeOK, SaidOK
<1>0. MaxRuns \in Nat /\ MaxCrashes \in Nat
  BY DayAssumption
<1>1. CASE StartList(w) \/ StartFollowups(w)
  <2>0. overlap' \in BOOLEAN
    BY <1>1, Zenon DEF StartList, StartFollowups, Begin
  <2>1. runs' \in 0..MaxRuns
    BY <1>0, <1>1 DEF StartList, StartFollowups, Begin
  <2>2. forced' \subseteq Day
    BY <1>1 DEF StartList, StartFollowups
  <2>3. QED
    BY <1>1, <2>0, <2>1, <2>2 DEF StartList, StartFollowups, said
<1>2. CASE PostList(w)
  BY <1>2 DEF PostList
<1>3. CASE Post(w)
  <2>1. reminded' \in [Member -> Nat]
    <3>1. PICK arrives \in {0, 1} :
            reminded' = [reminded EXCEPT ![cur[w]] = @ + arrives]
      BY <1>3 DEF Post
    <3>2. QED
      BY <1>3, <3>1 DEF Post, HandsInv
  <2>2. spoken' \in [Day -> Nat] /\ tried' \subseteq Member
    BY <1>3 DEF Post, HandsInv
  <2>3. QED
    BY <1>3, <2>1, <2>2 DEF Post
<1>4. CASE Crash(w)
  BY <1>0, <1>4 DEF Crash, said
<1>5. CASE UNCHANGED <<day, said, overlap, forced, card, runs, crashes>>
  BY <1>5 DEF said
<1>6. QED
  BY <1>1, <1>2, <1>3, <1>4, <1>5 DEF RunStep, Pick, Reserve, Finish, Look,
     InspectActivity, Note, CheckUsed, ReserveSlot, Insert, Record

\* The card, time and people keep every value in its domain.
LEMMA WorldTypes ==
    ASSUME TypeOK, HandsInv,
           \/ CardReserves \/ CardSends \/ Turn
           \/ \E l \in Lead : Offers(l) \/ Withdraws(l)
           \/ \E m \in Member : ComesDue(m) \/ Touches(m)
    PROVE  TypeOK' /\ HandsInv'
<1> USE DEF TypeOK, HandsInv, RowsOK, SaidOK, list, crm, said, local
<1>1. CASE CardReserves
  BY <1>1 DEF CardReserves, RunsOK
<1>2. CASE CardSends
  <2>1. slot' \in [Day -> Member \cup {Card, Free}] /\ spoken' \in [Day -> Nat]
    BY <1>2 DEF CardSends
  <2>2. QED
    BY <1>2, <2>1 DEF CardSends, RunsOK
<1>3. CASE Turn
  <2>1. day' \in Day
    BY <1>3, DayAssumption DEF Turn, Day
  <2>2. QED
    BY <1>3, <2>1 DEF Turn, Rest, RunsOK
<1>4. ASSUME NEW l \in Lead, Offers(l) \/ Withdraws(l) PROVE TypeOK' /\ HandsInv'
  BY <1>4 DEF Offers, Withdraws, Rest, RunsOK
<1>5. ASSUME NEW m \in Member, ComesDue(m) \/ Touches(m) PROVE TypeOK' /\ HandsInv'
  BY <1>5 DEF ComesDue, Touches, Rest, RunsOK
<1>6. QED
  BY <1>1, <1>2, <1>3, <1>4, <1>5

LEMMA NextTypeOK == TypeOK /\ HandsInv /\ [Next]_vars => TypeOK' /\ HandsInv'
<1> SUFFICES ASSUME TypeOK, HandsInv, [Next]_vars PROVE TypeOK' /\ HandsInv'
  OBVIOUS
<1>1. CASE UNCHANGED vars
  BY <1>1 DEF vars, list, crm, said, local, TypeOK, HandsInv, RowsOK, SaidOK, RunsOK
<1>2. ASSUME NEW w \in Worker, RunStep(w) PROVE TypeOK' /\ HandsInv'
  BY <1>2, RunTypes, RowTypes, SaidTypes DEF TypeOK
<1>3. QED
  BY <1>1, <1>2, WorldTypes DEF Next

\* The type invariant, with what every run has in hand.
THEOREM TypeCorrect == Spec => [](TypeOK /\ HandsInv)
BY InitTypeOK, NextTypeOK, PTL DEF Spec

---------------------------------------------------------------------------
(***************************************************************************)
(* Lists.                                                                  *)
(***************************************************************************)
\* A step of one run leaves the others where they are.
LEMMA OthersKept ==
    ASSUME TypeOK, NEW w \in Worker, RunStep(w), NEW v \in Worker, v # w
    PROVE  /\ pc'[v] = pc[v] /\ batch'[v] = batch[v]
           /\ cur'[v] = cur[v] /\ answer'[v] = answer[v]
<1> USE DEF TypeOK, RunsOK, End, Goto
<1>1. CASE StartList(w) \/ Pick(w) \/ Reserve(w) \/ PostList(w) \/ Finish(w)
  BY <1>1 DEF StartList, Pick, Reserve, PostList, Finish
<1>2. CASE StartFollowups(w) \/ Look(w) \/ InspectActivity(w) \/ Note(w)
  BY <1>2 DEF StartFollowups, Look, InspectActivity, Note
<1>3. CASE CheckUsed(w) \/ ReserveSlot(w) \/ Insert(w) \/ Post(w) \/ Record(w)
           \/ Crash(w)
  BY <1>3 DEF CheckUsed, ReserveSlot, Insert, Post, Record, Crash
<1>4. QED
  BY <1>1, <1>2, <1>3 DEF RunStep

\* Runs that go on hold the same batch, and no row changes.
LEMMA ListKept ==
    ASSUME ListInv, UNCHANGED <<day, item, on, shown>>,
           \A v \in Worker : pc'[v] \in {"reserve", "list", "listed"} =>
               pc'[v] = pc[v] /\ batch'[v] = batch[v] /\ answer'[v] = answer[v]
    PROVE  ListInv'
BY DEF ListInv, Listing, Unsent

\* A reservation takes free rows: they are in no other batch and were never shown.
LEMMA ReserveList ==
    ASSUME TypeOK, ListInv, NEW w \in Worker, Reserve(w), ~End(w)
    PROVE  ListInv'
<1> USE DEF TypeOK, RunsOK, RowsOK, SaidOK, ListInv, Reserve, Listing, Goto
<1>1. /\ pc[w] = "reserve" /\ \A l \in batch[w] : item[l] = "none"
      /\ item' = [l \in Lead |-> IF l \in batch[w] THEN "reserved" ELSE item[l]]
      /\ on' = [l \in Lead |-> IF l \in batch[w] THEN day ELSE on[l]]
      /\ pc' = [pc EXCEPT ![w] = "list"]
      /\ UNCHANGED <<day, shown, batch, answer>>
  BY DEF said
<1>2. \A v \in Worker : Listing(v) => batch[v] \cap batch[w] = {}
  BY <1>1
<1>3. \A v \in Worker : v # w => pc'[v] = pc[v]
  BY <1>1
<1>4. \A v \in Worker : Listing(v)' =>
          \A l \in batch'[v] : item'[l] = "reserved" /\ on'[l] = day'
  BY <1>1, <1>2, <1>3
<1>5. \A u, v \in Worker :
          Listing(u)' /\ Listing(v)' /\ u # v => batch'[u] \cap batch'[v] = {}
  BY <1>1, <1>2, <1>3
<1>6. \A l \in Lead : shown'[l] <= 1 /\ (shown'[l] > 0 => item'[l] # "none")
  BY <1>1
<1>7. \A l \in batch[w] : shown[l] = 0
  BY <1>1
<1>8. \A v \in Worker : Unsent(v)' => \A l \in batch'[v] : shown'[l] = 0
  BY <1>1, <1>3, <1>7 DEF Unsent
<1>9. \A v \in Worker : pc'[v] \in {"reserve", "list", "listed"} => batch'[v] # {}
  BY <1>1, <1>3
<1>10. QED
  BY <1>4, <1>5, <1>6, <1>8, <1>9

\* What arrives had not been shown, and a refusal means that it did not arrive.
LEMMA PostListList ==
    ASSUME TypeOK, ListInv, NEW w \in Worker, PostList(w)
    PROVE  ListInv'
<1> USE DEF TypeOK, RunsOK, SaidOK, ListInv, Listing
<1>1. PICK a \in {"ok", "refused", "lost"}, arrives \in BOOLEAN :
          /\ a = "refused" => ~arrives
          /\ answer' = [answer EXCEPT ![w] = a]
          /\ arrives => shown' = [l \in Lead |-> IF l \in batch[w]
                                                  THEN shown[l] + 1 ELSE shown[l]]
          /\ ~arrives => shown' = shown
  BY DEF PostList
<1>2. /\ pc[w] = "list" /\ pc' = [pc EXCEPT ![w] = "listed"]
      /\ UNCHANGED <<day, item, on, batch>>
  BY DEF PostList, Goto, list
<1>3. \A v \in Worker : v # w => pc'[v] = pc[v] /\ answer'[v] = answer[v]
  BY <1>1, <1>2
<1>4. \A l \in Lead : shown'[l] <= 1 /\ (shown'[l] > 0 => item'[l] # "none")
  BY <1>1, <1>2 DEF Unsent
<1>5. \A v \in Worker : Unsent(v)' => \A l \in batch'[v] : shown'[l] = 0
  <2> SUFFICES ASSUME NEW v \in Worker, Unsent(v)', NEW l \in batch[v]
               PROVE  shown'[l] = 0
    BY <1>2
  <2>0. l \in Lead
    OBVIOUS
  <2>1. CASE v = w
    BY <1>1, <1>2, <2>0, <2>1 DEF Unsent
  <2>2. CASE v # w
    BY <1>1, <1>2, <1>3, <2>0, <2>2 DEF Unsent
  <2>3. QED
    BY <2>1, <2>2
<1>6. \A v \in Worker : Listing(v)' => Listing(v)
  BY <1>2, <1>3
<1>7. QED
  BY <1>2, <1>3, <1>4, <1>5, <1>6

\* Only a batch that Slack refused is given back.
LEMMA FinishList ==
    ASSUME TypeOK, HandsInv, ListInv, NEW w \in Worker, Finish(w)
    PROVE  ListInv'
<1> USE DEF TypeOK, RunsOK, RowsOK, SaidOK, ListInv, Listing
<1>1. /\ pc[w] = "listed" /\ pc' = [pc EXCEPT ![w] = "idle"]
      /\ UNCHANGED <<day, shown>>
      /\ \A v \in Worker : v # w => /\ pc'[v] = pc[v] /\ batch'[v] = batch[v]
                                    /\ answer'[v] = answer[v]
      /\ item' = [l \in Lead |-> IF l \in batch[w] /\ item[l] = "reserved"
                                 THEN Outcome(answer[w]) ELSE item[l]]
      /\ on' = [l \in Lead |-> IF item'[l] = "none" THEN 0 ELSE on[l]]
  BY DEF Finish, End, Goto, said
<1>2. \A v \in Worker : Listing(v)' => v # w /\ Listing(v)
  BY <1>1
<1>3. \A v \in Worker : Listing(v)' =>
          \A l \in batch'[v] : item'[l] = "reserved" /\ on'[l] = day'
  BY <1>1, <1>2
<1>4. \A l \in Lead : shown[l] > 0 => item'[l] # "none"
  BY <1>1 DEF Outcome, Unsent, HandsInv
<1>5. \A v \in Worker : Unsent(v)' => \A l \in batch'[v] : shown'[l] = 0
  BY <1>1, <1>2 DEF Unsent
<1>6. \A u, v \in Worker :
          Listing(u)' /\ Listing(v)' /\ u # v => batch'[u] \cap batch'[v] = {}
  BY <1>1, <1>2
<1>7. \A v \in Worker : pc'[v] \in {"reserve", "list", "listed"} => batch'[v] # {}
  BY <1>1
<1>8. QED
  BY <1>1, <1>3, <1>4, <1>5, <1>6, <1>7

LEMMA NextList == TypeOK /\ HandsInv /\ ListInv /\ [Next]_vars => ListInv'
<1> SUFFICES ASSUME TypeOK, HandsInv, ListInv, [Next]_vars PROVE ListInv'
  OBVIOUS
<1> USE DEF list, crm, said, local
<1>1. ASSUME NEW w \in Worker, RunStep(w) PROVE ListInv'
  <2> DEFINE Leaves == pc'[w] \notin {"reserve", "list", "listed"}
  <2>0. Leaves /\ UNCHANGED <<day, item, on, shown>> => ListInv'
    BY <1>1, OthersKept, ListKept
  <2>1. CASE Pick(w) /\ ~End(w)
    <3>0. PICK some \in (SUBSET Candidates) \ {{}} :
            batch' = [batch EXCEPT ![w] = some] /\ Goto(w, "reserve")
      BY <2>1 DEF Pick
    <3>1. pc'[w] = "reserve"
      BY <3>0 DEF Goto, TypeOK, RunsOK
    <3>2. batch'[w] # {}
      BY <3>0 DEF TypeOK, RunsOK
    <3>3. UNCHANGED <<day, item, on, shown>>
      BY <2>1 DEF Pick
    <3>4. QED
      BY <1>1, <3>1, <3>2, <3>3, OthersKept DEF ListInv, Listing, Unsent
  <2>2. CASE Reserve(w) /\ ~End(w)
    BY <2>2, ReserveList
  <2>3. CASE PostList(w)
    BY <2>3, PostListList
  <2>4. CASE Finish(w)
    BY <2>4, FinishList
  <2>5. CASE Crash(w) \/ Record(w) \/ Look(w) \/ Note(w) \/ InspectActivity(w)
    <3>1. Leaves
      BY <2>5 DEF Crash, Record, Look, Note, InspectActivity, End, Goto, TypeOK, RunsOK
    <3>2. UNCHANGED <<day, item, on, shown>>
      BY <2>5 DEF Crash, Record, Look, Note, InspectActivity
    <3>3. QED
      BY <2>0, <3>1, <3>2
  <2>6. CASE StartList(w) \/ StartFollowups(w) \/ CheckUsed(w) \/ ReserveSlot(w)
             \/ Insert(w) \/ Post(w)
    <3>1. Leaves
      BY <2>6 DEF StartList, StartFollowups, CheckUsed, ReserveSlot, Insert, Post,
                  End, Goto, TypeOK, RunsOK
    <3>2. UNCHANGED <<day, item, on, shown>>
      BY <2>6 DEF StartList, StartFollowups, CheckUsed, ReserveSlot, Insert, Post
    <3>3. QED
      BY <2>0, <3>1, <3>2
  <2>7. CASE (Pick(w) \/ Reserve(w)) /\ End(w)
    <3>1. Leaves
      BY <2>7 DEF End, Goto, TypeOK, RunsOK
    <3>2. CASE Pick(w)
      BY <2>0, <3>1, <3>2 DEF Pick
    <3>3. CASE Reserve(w)
      <4>1. pc'[w] = "idle"
        BY <2>7 DEF End, Goto, TypeOK, RunsOK
      <4>2. UNCHANGED <<day, item, on, shown>>
        BY <3>3, <4>1 DEF Reserve, Goto, TypeOK, RunsOK
      <4>3. QED
        BY <2>0, <3>1, <4>2
    <3>4. QED
      BY <2>7, <3>2, <3>3
  <2>8. QED
    BY <1>1, <2>1, <2>2, <2>3, <2>4, <2>5, <2>6, <2>7 DEF RunStep
<1>2. CASE Turn
  BY <1>2 DEF Turn, Quiescent, Rest, ListInv, Listing, Unsent
<1>3. CASE CardReserves \/ CardSends
  BY <1>3, ListKept DEF CardReserves, CardSends
<1>4. ASSUME NEW l \in Lead, Offers(l) \/ Withdraws(l) PROVE ListInv'
  BY <1>4, ListKept DEF Offers, Withdraws, Rest
<1>5. ASSUME NEW m \in Member, ComesDue(m) \/ Touches(m) PROVE ListInv'
  BY <1>5, ListKept DEF ComesDue, Touches, Rest
<1>6. CASE UNCHANGED vars
  BY <1>6, ListKept DEF vars
<1>7. QED
  BY <1>1, <1>2, <1>3, <1>4, <1>5, <1>6 DEF Next

---------------------------------------------------------------------------
(***************************************************************************)
(* The day's slot.                                                         *)
(***************************************************************************)
\* Runs that keep the slot keep their member, and the slot does not move.
LEMMA SlotKept ==
    ASSUME SlotInv, UNCHANGED <<day, slot, card, spoken>>,
           \A v \in Worker : HoldsSlot(v)' =>
               HoldsSlot(v) /\ cur'[v] = cur[v] /\ (pc'[v] = pc[v] \/ pc'[v] = "posted")
    PROVE  SlotInv'
BY DEF SlotInv, HoldsSlot

\* Who takes a free day is alone with it, and nobody has spoken yet.
LEMMA TakesSlot ==
    ASSUME TypeOK, HandsInv, SlotInv, NEW w \in Worker, ReserveSlot(w), ~End(w)
    PROVE  SlotInv'
<1> USE DEF TypeOK, RunsOK, RowsOK, HandsInv, SlotInv, HoldsSlot
<1>1. /\ pc[w] = "slot" /\ pc' = [pc EXCEPT ![w] = "insert"]
      /\ UNCHANGED <<day, card, spoken, cur>>
      /\ slot[day] = Free /\ slot' = [slot EXCEPT ![day] = cur[w]]
  BY DEF ReserveSlot, SlotIsFree, Goto, said
<1>2. Free # Card /\ Free \notin Member /\ Card \notin Member
  BY DayAssumption
<1>3. \A v \in Worker : ~HoldsSlot(v)
  BY <1>1, <1>2
<1>4. card = "none" /\ spoken[day] = 0
  BY <1>1, <1>2 DEF SaidOK
<1>5. slot'[day] = cur[w]
  BY <1>1
<1>6. \A v \in Worker : HoldsSlot(v)' => v = w
  BY <1>1, <1>3
<1>7. QED
  BY <1>1, <1>4, <1>5, <1>6

\* The loser of the insert gives back its own day, the winner keeps it.
LEMMA InsertSlot ==
    ASSUME TypeOK, HandsInv, SlotInv, NEW w \in Worker, Insert(w)
    PROVE  SlotInv'
<1> USE DEF TypeOK, RunsOK, RowsOK, SaidOK, HandsInv, SlotInv, HoldsSlot
<1>1. /\ pc[w] = "insert" /\ UNCHANGED <<day, card, spoken>>
      /\ \A v \in Worker : v # w => pc'[v] = pc[v] /\ cur'[v] = cur[v]
  BY DEF Insert, Goto, said
<1>2. slot[day] = cur[w] /\ spoken[day] = 0 /\ cur[w] \in Member
      /\ \A v \in Worker : HoldsSlot(v) => v = w
  BY <1>1
<1>3. card = "none"
  BY <1>2, DayAssumption
<1>4. CASE ReleaseSlot(cur[w]) /\ Goto(w, "look")
  <2>1. \A v \in Worker : ~HoldsSlot(v)'
    BY <1>1, <1>2, <1>4 DEF Goto
  <2>2. QED
    BY <1>1, <1>2, <1>3, <2>1
<1>5. CASE Goto(w, "post") /\ UNCHANGED <<slot, cur>>
  BY <1>1, <1>2, <1>3, <1>5 DEF Goto
<1>6. QED
  BY <1>4, <1>5 DEF Insert

\* The holder speaks once.
LEMMA PostSlot ==
    ASSUME TypeOK, HandsInv, SlotInv, NEW w \in Worker, Post(w)
    PROVE  SlotInv'
<1> USE DEF TypeOK, RunsOK, RowsOK, SaidOK, HandsInv, SlotInv, HoldsSlot
<1>1. PICK arrives \in {0, 1} : spoken' = [spoken EXCEPT ![day] = @ + arrives]
  BY DEF Post
<1>2. /\ pc[w] = "post" /\ pc' = [pc EXCEPT ![w] = "posted"]
      /\ UNCHANGED <<day, slot, card, cur>>
  BY DEF Post, Goto, crm
<1>3. /\ spoken[day] = 0 /\ slot[day] = cur[w] /\ cur[w] \in Member
      /\ \A v \in Worker : HoldsSlot(v) => v = w
  BY <1>2
<1>4. card = "none" /\ slot[day] # Free
  BY <1>3, DayAssumption
<1>5. \A d \in Day : spoken'[d] <= 1 /\ (d > day' => spoken'[d] = 0)
  BY <1>1, <1>2, <1>3 DEF Day
<1>6. \A v \in Worker : HoldsSlot(v)' => v = w
  BY <1>2, <1>3
<1>7. pc'[w] = "posted"
  BY <1>2
<1>8. QED
  BY <1>2, <1>3, <1>4, <1>5, <1>6, <1>7

\* The card takes a free day, speaks on its own day or gives it back.
LEMMA CardSlot ==
    ASSUME TypeOK, HandsInv, SlotInv, CardReserves \/ CardSends
    PROVE  SlotInv'
<1> USE DEF TypeOK, RunsOK, RowsOK, SaidOK, HandsInv, SlotInv, HoldsSlot
<1>0. Free # Card /\ Free \notin Member /\ Card \notin Member
  BY DayAssumption
<1>1. UNCHANGED <<day, pc, cur>>
  BY DEF CardReserves, CardSends, local
<1>2. slot[day] \in {Free, Card}
  BY <1>0 DEF CardReserves, CardSends
<1>3. \A v \in Worker : ~HoldsSlot(v)
  BY <1>0, <1>2
<1>4. CASE CardReserves
  <2>1. slot[day] = Free /\ spoken[day] = 0 /\ spoken' = spoken
    BY <1>4 DEF CardReserves, said
  <2>2. slot'[day] = Card
    BY <1>4 DEF CardReserves
  <2>3. QED
    BY <1>1, <1>3, <2>1, <2>2
<1>5. CASE card = "held" /\ card' = "sent" /\ spoken' = [spoken EXCEPT ![day] = @ + 1]
           /\ UNCHANGED slot
  <2>1. slot[day] = Card /\ spoken[day] = 0
    BY <1>5
  <2>2. \A d \in Day : spoken'[d] <= 1 /\ (d > day' => spoken'[d] = 0)
    BY <1>1, <1>5, <2>1 DEF Day
  <2>3. QED
    BY <1>0, <1>1, <1>3, <1>5, <2>1, <2>2
<1>6. CASE card = "held" /\ card' = "none" /\ UNCHANGED spoken
  BY <1>1, <1>3, <1>6
<1>7. QED
  BY <1>4, <1>5, <1>6 DEF CardSends

LEMMA NextSlot == TypeOK /\ HandsInv /\ SlotInv /\ [Next]_vars => SlotInv'
<1> SUFFICES ASSUME TypeOK, HandsInv, SlotInv, [Next]_vars PROVE SlotInv'
  OBVIOUS
<1> USE DEF list, crm, said, local
<1>1. ASSUME NEW w \in Worker, RunStep(w) PROVE SlotInv'
  <2>0. ~HoldsSlot(w)' /\ UNCHANGED <<day, slot, card, spoken>> => SlotInv'
    BY <1>1, OthersKept, SlotKept DEF HoldsSlot
  <2>1. CASE ReserveSlot(w) /\ ~End(w)
    BY <2>1, TakesSlot
  <2>2. CASE Insert(w)
    BY <2>2, InsertSlot
  <2>3. CASE Post(w)
    BY <2>3, PostSlot
  <2>4. CASE StartList(w) \/ Pick(w) \/ Reserve(w) \/ PostList(w) \/ Finish(w)
    <3>1. ~HoldsSlot(w)'
      BY <2>4 DEF StartList, Pick, Reserve, PostList, Finish, HoldsSlot, End, Goto,
                  TypeOK, RunsOK
    <3>2. UNCHANGED <<day, slot, card, spoken>>
      BY <2>4 DEF StartList, Pick, Reserve, PostList, Finish
    <3>3. QED
      BY <2>0, <3>1, <3>2
  <2>5. CASE StartFollowups(w) \/ Look(w) \/ InspectActivity(w) \/ Note(w)
             \/ CheckUsed(w) \/ Record(w) \/ Crash(w)
    <3>1. ~HoldsSlot(w)'
      BY <2>5 DEF StartFollowups, Look, InspectActivity, Note, CheckUsed, Record,
                  Crash, HoldsSlot, End, Goto, TypeOK, RunsOK
    <3>2. UNCHANGED <<day, slot, card, spoken>>
      BY <2>5 DEF StartFollowups, Look, InspectActivity, Note, CheckUsed, Record,
                  Crash
    <3>3. QED
      BY <2>0, <3>1, <3>2
  <2>6. CASE ReserveSlot(w) /\ End(w)
    <3>1. pc'[w] = "idle"
      BY <2>6 DEF End, Goto, TypeOK, RunsOK
    <3>2. UNCHANGED <<day, slot, card, spoken>>
      BY <2>6, <3>1 DEF ReserveSlot, Goto, TypeOK, RunsOK
    <3>3. QED
      BY <2>0, <3>1, <3>2 DEF HoldsSlot
  <2>7. QED
    BY <1>1, <2>1, <2>2, <2>3, <2>4, <2>5, <2>6 DEF RunStep
<1>2. CASE Turn
  <2>1. day' = day + 1 /\ card' = "none" /\ UNCHANGED <<slot, spoken, pc>>
        /\ \A w \in Worker : pc[w] = "idle"
    BY <1>2 DEF Turn, Rest, Quiescent
  <2>2. day' \in Day /\ day' > day
    BY <1>2, <2>1, DayAssumption DEF Turn, Day, TypeOK
  <2>3. spoken[day'] = 0
    BY <2>2 DEF SlotInv
  <2>4. \A d \in Day : spoken'[d] <= 1 /\ (d > day' => spoken'[d] = 0)
    BY <2>1, <2>2 DEF SlotInv, Day, TypeOK
  <2>5. QED
    BY <2>1, <2>3, <2>4 DEF SlotInv, HoldsSlot
<1>3. CASE CardReserves \/ CardSends
  BY <1>3, CardSlot
<1>4. ASSUME NEW l \in Lead, Offers(l) \/ Withdraws(l) PROVE SlotInv'
  BY <1>4, SlotKept DEF Offers, Withdraws, Rest, HoldsSlot
<1>5. ASSUME NEW m \in Member, ComesDue(m) \/ Touches(m) PROVE SlotInv'
  BY <1>5, SlotKept DEF ComesDue, Touches, Rest, HoldsSlot
<1>6. CASE UNCHANGED vars
  BY <1>6, SlotKept DEF vars, HoldsSlot
<1>7. QED
  BY <1>1, <1>2, <1>3, <1>4, <1>5, <1>6 DEF Next

---------------------------------------------------------------------------
(***************************************************************************)
(* Reminders.                                                              *)
(***************************************************************************)
\* A settled member stays settled, and nobody who is about to speak changes.
LEMMA RemindKept ==
    ASSUME RemindInv, HandsInv, reminded' = reminded,
           \A m \in Member : row[m] # "none" => row'[m] = row[m],
           \A v \in Worker : pc'[v] = "post" => pc[v] = "post" /\ cur'[v] = cur[v]
    PROVE  RemindInv'
BY DEF RemindInv, HandsInv

LEMMA NextRemind ==
    TypeOK /\ HandsInv /\ SlotInv /\ RemindInv /\ [Next]_vars => RemindInv'
<1> SUFFICES ASSUME TypeOK, HandsInv, SlotInv, RemindInv, [Next]_vars
             PROVE  RemindInv'
  OBVIOUS
<1> USE DEF list, crm, said, local
<1>1. ASSUME NEW w \in Worker, RunStep(w) PROVE RemindInv'
  <2>0. /\ pc'[w] # "post" /\ reminded' = reminded
        /\ \A m \in Member : row[m] # "none" => row'[m] = row[m]
        => RemindInv'
    BY <1>1, OthersKept, RemindKept
  <2>1. CASE Insert(w) /\ row[cur[w]] = "none"
    <3>1. /\ pc[w] = "insert" /\ pc'[w] = "post" /\ cur' = cur /\ reminded' = reminded
          /\ cur[w] \in Member /\ row' = [row EXCEPT ![cur[w]] = "sending"]
      BY <2>1 DEF Insert, Goto, TypeOK, RunsOK, HandsInv
    <3>2. reminded[cur[w]] = 0
      BY <2>1, <3>1 DEF RemindInv, TypeOK, SaidOK
    <3>3. \A v \in Worker : pc'[v] = "post" => v = w
      BY <1>1, <3>1, OthersKept DEF SlotInv, HoldsSlot
    <3>4. QED
      BY <3>1, <3>2, <3>3 DEF RemindInv, TypeOK, RowsOK
  <2>2. CASE Post(w)
    <3>1. PICK arrives \in {0, 1} :
            reminded' = [reminded EXCEPT ![cur[w]] = @ + arrives]
      BY <2>2 DEF Post
    <3>2. /\ pc[w] = "post" /\ pc'[w] = "posted" /\ row' = row
          /\ cur[w] \in Member
      BY <2>2 DEF Post, Goto, TypeOK, RunsOK, HandsInv
    <3>3. \A v \in Worker : pc'[v] # "post"
      BY <1>1, <3>2, OthersKept DEF SlotInv, HoldsSlot
    <3>4. reminded[cur[w]] = 0 /\ row[cur[w]] = "sending"
      BY <3>2 DEF RemindInv
    <3>5. QED
      BY <3>1, <3>2, <3>3, <3>4 DEF RemindInv, TypeOK, SaidOK
  <2>3. CASE Record(w)
    <3>1. /\ pc[w] = "posted" /\ pc'[w] = "idle" /\ reminded' = reminded
          /\ cur[w] \in Member
          /\ row' = [row EXCEPT ![cur[w]] = IF answer[w] = "ok" THEN "delivered"
                                            ELSE "unknown"]
      BY <2>3 DEF Record, End, Goto, TypeOK, RunsOK, HandsInv
    <3>2. \A v \in Worker : pc'[v] # "post"
      BY <1>1, <3>1, OthersKept DEF SlotInv, HoldsSlot
    <3>3. \A m \in Member : row[m] # "none" => row'[m] # "none"
      BY <3>1 DEF TypeOK, RowsOK
    <3>4. QED
      BY <3>1, <3>2, <3>3 DEF RemindInv
  <2>4. CASE StartList(w) \/ Pick(w) \/ Reserve(w) \/ PostList(w) \/ Finish(w)
    <3>1. pc'[w] # "post"
      BY <2>4 DEF StartList, Pick, Reserve, PostList, Finish, End, Goto, TypeOK, RunsOK
    <3>2. UNCHANGED <<row, reminded>>
      BY <2>4 DEF StartList, Pick, Reserve, PostList, Finish
    <3>3. QED
      BY <2>0, <3>1, <3>2
  <2>5. CASE StartFollowups(w) \/ Look(w) \/ InspectActivity(w) \/ CheckUsed(w)
             \/ ReserveSlot(w) \/ Crash(w)
    <3>1. pc'[w] # "post"
      BY <2>5 DEF StartFollowups, Look, InspectActivity, CheckUsed, ReserveSlot,
                  Crash, End, Goto, TypeOK, RunsOK
    <3>2. UNCHANGED <<row, reminded>>
      BY <2>5 DEF StartFollowups, Look, InspectActivity, CheckUsed, ReserveSlot,
                  Crash
    <3>3. QED
      BY <2>0, <3>1, <3>2
  <2>6. CASE Note(w) \/ (Insert(w) /\ row[cur[w]] # "none")
    <3>1. pc'[w] # "post" /\ reminded' = reminded
      BY <2>6 DEF Note, Insert, Goto, TypeOK, RunsOK
    <3>2. \A m \in Member : row[m] # "none" => row'[m] = row[m]
      BY <2>6 DEF Note, Insert, TypeOK, RowsOK
    <3>3. QED
      BY <2>0, <3>1, <3>2
  <2>7. QED
    BY <1>1, <2>1, <2>2, <2>3, <2>4, <2>5, <2>6 DEF RunStep
<1>2. CASE Turn \/ CardReserves \/ CardSends
  BY <1>2, RemindKept DEF Turn, Rest, CardReserves, CardSends
<1>3. ASSUME NEW l \in Lead, Offers(l) \/ Withdraws(l) PROVE RemindInv'
  BY <1>3, RemindKept DEF Offers, Withdraws, Rest
<1>4. ASSUME NEW m \in Member, ComesDue(m) \/ Touches(m) PROVE RemindInv'
  BY <1>4, RemindKept DEF ComesDue, Touches, Rest
<1>5. CASE UNCHANGED vars
  BY <1>5, RemindKept DEF vars
<1>6. QED
  BY <1>1, <1>2, <1>3, <1>4, <1>5 DEF Next

\* Whatever overlaps, crashes or is lost, a lead is in at most one list that
\* reached the channel and a member is mentioned at most once: the unique rows
\* of daily_list_items and salesforce_followup_state are written before Slack is
\* asked, and only a refusal takes one back.
THEOREM NothingToldTwice == Spec => []NothingTwice
<1>1. Init => TypeOK /\ HandsInv /\ ListInv /\ SlotInv /\ RemindInv
  <2>1. Init => ListInv
    BY DEF Init, ListInv, Listing, Unsent
  <2>2. Init => SlotInv
    <3>1. 1 \in Day
      BY DayAssumption DEF Day
    <3>2. QED
      BY <3>1 DEF Init, SlotInv, HoldsSlot
  <2>3. Init => RemindInv
    BY DEF Init, RemindInv
  <2>4. QED
    BY <2>1, <2>2, <2>3, InitTypeOK
<1>2. TypeOK /\ HandsInv /\ ListInv /\ SlotInv /\ RemindInv /\ [Next]_vars
      => (TypeOK /\ HandsInv /\ ListInv /\ SlotInv /\ RemindInv)'
  BY NextTypeOK, NextList, NextSlot, NextRemind
<1>3. TypeOK /\ ListInv /\ RemindInv => NothingTwice
  BY DEF NothingTwice, ListInv, RemindInv
<1>4. QED
  BY <1>1, <1>2, <1>3, PTL DEF Spec

---------------------------------------------------------------------------
(***************************************************************************)
(* One list a day.                                                         *)
(***************************************************************************)
\* Nothing is read, posted or recorded about a list.
LEMMA OneListKept ==
    ASSUME TypeOK, OneListInv, UNCHANGED <<day, lists, forced>>, overlap => overlap',
           AlreadyListedToday => AlreadyListedToday',
           \A v \in Worker : pc'[v] # "idle" =>
               /\ pc[v] # "idle"
               /\ pc'[v] \in {"pick", "reserve"} => pc[v] \in {"pick", "reserve"}
               /\ Unsent(v)' => pc[v] \in {"pick", "reserve"} \/ Unsent(v)
    PROVE  OneListInv'
<1>1. \A v \in Worker : Unsent(v)' => pc'[v] # "idle"
  BY DEF Unsent
<1>2. CASE overlap'
  BY <1>2 DEF OneListInv
<1>3. CASE ~overlap'
  BY <1>1, <1>3 DEF OneListInv
<1>4. QED
  BY <1>2, <1>3

\* A run that begins beside no other is alone; one that nobody forced has seen
\* that today's list is not out.
LEMMA StartOneList ==
    ASSUME TypeOK, OneListInv, NEW w \in Worker, StartList(w) \/ StartFollowups(w)
    PROVE  OneListInv'
<1> USE DEF TypeOK, RunsOK, list, crm, said
<1>1. /\ UNCHANGED <<day, lists, item, on, answer>> /\ pc[w] = "idle"
      /\ \A v \in Worker : v # w => pc'[v] = pc[v]
      /\ ~overlap' => ~overlap /\ \A v \in Worker : pc[v] = "idle"
      /\ forced \subseteq forced'
  BY DEF StartList, StartFollowups, Begin, Goto, Quiescent
<1>2. CASE overlap'
  BY <1>1, <1>2 DEF OneListInv
<1>3. CASE ~overlap'
  <2>1. \A u, v \in Worker : pc'[u] # "idle" /\ pc'[v] # "idle" => u = v
    BY <1>1, <1>3
  <2>2. \A d \in Day \ forced' : lists'[d] <= 1
    BY <1>1, <1>3 DEF OneListInv
  <2>3. ASSUME day' \notin forced', lists'[day'] > 0 PROVE AlreadyListedToday
    BY <1>1, <1>3, <2>3 DEF OneListInv
  <2>4. ASSUME day' \notin forced', lists'[day'] > 0, NEW v \in Worker
        PROVE  pc'[v] \notin {"pick", "reserve"} /\ ~Unsent(v)'
    <3>1. StartFollowups(w)
      BY <2>3, <2>4, <1>1 DEF StartList
    <3>2. QED
      BY <1>1, <1>3, <3>1 DEF StartFollowups, Goto, Unsent
  <2>5. AlreadyListedToday => AlreadyListedToday'
    BY <1>1 DEF AlreadyListedToday
  <2>6. QED
    BY <1>1, <2>1, <2>2, <2>3, <2>4, <2>5 DEF OneListInv
<1>4. QED
  BY <1>2, <1>3

\* The list that arrives is the day's first.
LEMMA PostOneList ==
    ASSUME TypeOK, ListInv, OneListInv, NEW w \in Worker, PostList(w)
    PROVE  OneListInv'
<1> USE DEF TypeOK, RunsOK, SaidOK
<1>1. PICK a \in {"ok", "refused", "lost"}, arrives \in BOOLEAN :
          /\ a = "refused" => ~arrives
          /\ answer' = [answer EXCEPT ![w] = a]
          /\ arrives => lists' = [lists EXCEPT ![day] = @ + 1]
          /\ ~arrives => lists' = lists
  BY DEF PostList
<1>2. /\ pc[w] = "list" /\ pc' = [pc EXCEPT ![w] = "listed"]
      /\ UNCHANGED <<day, item, on, batch, overlap, forced>>
  BY DEF PostList, Goto, list
<1>3. \A v \in Worker : v # w => pc'[v] = pc[v]
  BY <1>2
<1>4. \A d \in Day : d > day' => lists'[d] = 0
  <2>1. CASE arrives
    <3>1. lists' = [lists EXCEPT ![day] = @ + 1] /\ day' = day
      BY <1>1, <1>2, <2>1
    <3>2. \A d \in Day : d > day => d # day /\ lists[d] = 0
      BY DEF OneListInv, Day, TypeOK
    <3>3. QED
      BY <3>1, <3>2
  <2>2. CASE ~arrives
    BY <1>1, <1>2, <2>2 DEF OneListInv
  <2>3. QED
    BY <2>1, <2>2
<1>5. CASE overlap
  BY <1>2, <1>4, <1>5 DEF OneListInv
<1>6. CASE ~overlap
  <2>1. \A v \in Worker : v # w => pc[v] = "idle"
    BY <1>2, <1>6 DEF OneListInv
  <2>2. \A u, v \in Worker : pc'[u] # "idle" /\ pc'[v] # "idle" => u = v
    BY <1>3, <2>1
  <2>3. day \notin forced => lists[day] = 0
    BY <1>2, <1>6 DEF OneListInv, Unsent
  <2>4. \A d \in Day \ forced' : lists'[d] <= 1
    BY <1>1, <1>2, <1>6, <2>3 DEF OneListInv
  <2>5. AlreadyListedToday'
    BY <1>2 DEF AlreadyListedToday, ListInv, Listing, RowsOK
  <2>6. ASSUME day' \notin forced', lists'[day'] > 0, NEW v \in Worker
        PROVE  pc'[v] \notin {"pick", "reserve"} /\ ~Unsent(v)'
    <3>1. arrives
      BY <1>1, <1>2, <2>3, <2>6
    <3>2. CASE v = w
      BY <1>1, <1>2, <3>1, <3>2 DEF Unsent
    <3>3. CASE v # w
      BY <1>3, <2>1, <3>3 DEF Unsent
    <3>4. QED
      BY <3>2, <3>3
  <2>7. QED
    BY <1>4, <2>2, <2>4, <2>5, <2>6 DEF OneListInv
<1>7. QED
  BY <1>5, <1>6

\* A list that went out keeps its rows; one that was refused is not counted.
LEMMA FinishOneList ==
    ASSUME TypeOK, HandsInv, ListInv, OneListInv, NEW w \in Worker, Finish(w)
    PROVE  OneListInv'
<1> USE DEF TypeOK, RunsOK, RowsOK, SaidOK
<1>1. /\ pc[w] = "listed" /\ pc' = [pc EXCEPT ![w] = "idle"]
      /\ UNCHANGED <<day, lists, overlap, forced>>
      /\ \A v \in Worker : v # w => /\ pc'[v] = pc[v] /\ answer'[v] = answer[v]
      /\ item' = [l \in Lead |-> IF l \in batch[w] /\ item[l] = "reserved"
                                 THEN Outcome(answer[w]) ELSE item[l]]
      /\ on' = [l \in Lead |-> IF item'[l] = "none" THEN 0 ELSE on[l]]
  BY DEF Finish, End, Goto, said
<1>2. CASE overlap
  BY <1>1, <1>2 DEF OneListInv
<1>3. CASE ~overlap
  <2>1. \A v \in Worker : pc'[v] = "idle"
    BY <1>1, <1>3 DEF OneListInv
  <2>2. ASSUME day' \notin forced', lists'[day'] > 0 PROVE AlreadyListedToday'
    <3>1. answer[w] \in {"ok", "lost"}
      BY <1>1, <1>3, <2>2 DEF OneListInv, Unsent, HandsInv
    <3>2. PICK l \in batch[w] : item[l] = "reserved" /\ on[l] = day
      BY <1>1 DEF ListInv, Listing
    <3>3. l \in Lead
      OBVIOUS
    <3>4. item'[l] \in {"delivered", "unknown"} /\ on'[l] = day
      BY <1>1, <3>1, <3>2, <3>3 DEF Outcome
    <3>5. QED
      BY <1>1, <3>3, <3>4 DEF AlreadyListedToday
  <2>3. QED
    BY <1>1, <1>3, <2>1, <2>2 DEF OneListInv, Unsent
<1>4. QED
  BY <1>2, <1>3

LEMMA NextOneList ==
    TypeOK /\ HandsInv /\ ListInv /\ OneListInv /\ [Next]_vars => OneListInv'
<1> SUFFICES ASSUME TypeOK, HandsInv, ListInv, OneListInv, [Next]_vars
             PROVE  OneListInv'
  OBVIOUS
<1> USE DEF list, crm, said, local
<1>1. ASSUME NEW w \in Worker, RunStep(w) PROVE OneListInv'
  <2>0. ASSUME pc[w] # "idle", UNCHANGED <<day, lists, forced, overlap>>,
               AlreadyListedToday => AlreadyListedToday',
               pc'[w] \in {"pick", "reserve", "list"} =>
                   pc[w] \in {"pick", "reserve"},
               pc'[w] # "listed"
        PROVE  OneListInv'
    <3>1. \A v \in Worker : pc'[v] # "idle" =>
               /\ pc[v] # "idle"
               /\ pc'[v] \in {"pick", "reserve"} => pc[v] \in {"pick", "reserve"}
               /\ Unsent(v)' => pc[v] \in {"pick", "reserve"} \/ Unsent(v)
      <4>1. ASSUME NEW v \in Worker, v # w, Unsent(v)' PROVE Unsent(v)
        BY <1>1, <4>1, OthersKept DEF Unsent
      <4>2. QED
        BY <1>1, <2>0, <4>1, OthersKept DEF Unsent, TypeOK, RunsOK
    <3>2. QED
      BY <2>0, <3>1, OneListKept
  <2>1. CASE StartList(w) \/ StartFollowups(w)
    BY <2>1, StartOneList
  <2>2. CASE PostList(w)
    BY <2>2, PostOneList
  <2>3. CASE Finish(w)
    BY <2>3, FinishOneList
  <2>4. CASE Pick(w)
    <3>1. pc[w] = "pick" /\ pc'[w] \in {"idle", "reserve"}
      BY <2>4 DEF Pick, End, Goto, TypeOK, RunsOK
    <3>2. UNCHANGED <<day, lists, forced, overlap, item, on>>
      BY <2>4 DEF Pick
    <3>3. QED
      BY <2>0, <3>1, <3>2 DEF AlreadyListedToday
  <2>5. CASE Reserve(w)
    <3>1. pc[w] = "reserve" /\ pc'[w] \in {"idle", "list"}
      BY <2>5 DEF Reserve, End, Goto, TypeOK, RunsOK
    <3>2. UNCHANGED <<day, lists, forced, overlap>>
      BY <2>5 DEF Reserve
    <3>3. \A l \in Lead : item[l] # "none" => item'[l] # "none" /\ on'[l] \in {on[l], day}
      BY <2>5 DEF Reserve, TypeOK, RowsOK
    <3>4. AlreadyListedToday => AlreadyListedToday'
      BY <3>2, <3>3 DEF AlreadyListedToday
    <3>5. QED
      BY <2>0, <3>1, <3>2, <3>4
  <2>6. CASE Look(w) \/ InspectActivity(w) \/ Note(w) \/ CheckUsed(w)
             \/ ReserveSlot(w)
    <3>1. pc[w] # "idle" /\ pc'[w] \notin {"pick", "reserve", "list", "listed"}
      BY <2>6 DEF Look, InspectActivity, Note, CheckUsed, ReserveSlot, End, Goto,
                  TypeOK, RunsOK
    <3>2. UNCHANGED <<day, lists, forced, overlap, item, on>>
      BY <2>6 DEF Look, InspectActivity, Note, CheckUsed, ReserveSlot
    <3>3. QED
      BY <2>0, <3>1, <3>2 DEF AlreadyListedToday
  <2>7. CASE Insert(w) \/ Post(w) \/ Record(w) \/ Crash(w)
    <3>1. pc[w] # "idle" /\ pc'[w] \notin {"pick", "reserve", "list", "listed"}
      BY <2>7 DEF Insert, Post, Record, Crash, End, Goto, TypeOK, RunsOK
    <3>2. UNCHANGED <<day, lists, forced, overlap, item, on>>
      BY <2>7 DEF Insert, Post, Record, Crash
    <3>3. QED
      BY <2>0, <3>1, <3>2 DEF AlreadyListedToday
  <2>8. QED
    BY <1>1, <2>1, <2>2, <2>3, <2>4, <2>5, <2>6, <2>7 DEF RunStep
<1>2. CASE Turn
  <2>1. day' = day + 1 /\ UNCHANGED <<lists, forced, overlap, pc, answer>>
        /\ \A w \in Worker : pc[w] = "idle"
    BY <1>2 DEF Turn, Rest, Quiescent
  <2>2. day' \in Day /\ day' > day
    BY <1>2, <2>1, DayAssumption DEF Turn, Day, TypeOK
  <2>3. lists[day'] = 0
    BY <2>2 DEF OneListInv
  <2>4. \A d \in Day : d > day' => lists'[d] = 0
    BY <2>1, <2>2 DEF OneListInv, Day, TypeOK
  <2>5. QED
    BY <2>1, <2>3, <2>4 DEF OneListInv, Unsent
<1>3. CASE CardReserves \/ CardSends
  BY <1>3, OneListKept DEF CardReserves, CardSends, AlreadyListedToday, Unsent
<1>4. ASSUME NEW l \in Lead, Offers(l) \/ Withdraws(l) PROVE OneListInv'
  BY <1>4, OneListKept DEF Offers, Withdraws, Rest, AlreadyListedToday, Unsent
<1>5. ASSUME NEW m \in Member, ComesDue(m) \/ Touches(m) PROVE OneListInv'
  BY <1>5, OneListKept DEF ComesDue, Touches, Rest, AlreadyListedToday, Unsent
<1>6. CASE UNCHANGED vars
  BY <1>6, OneListKept DEF vars, AlreadyListedToday, Unsent
<1>7. QED
  BY <1>1, <1>2, <1>3, <1>4, <1>5, <1>6 DEF Next

\* The channel hears one rich card or one reminder a day, also when runs overlap,
\* because all of them hold the day's one row of proactive_daily_slots to speak;
\* and while no two runs overlap and nobody forces one, one list, because the
\* list of the day has left a row that the next run reads.
THEOREM SpokenOnceADay == Spec => []OneADay
<1>1. Init => TypeOK /\ HandsInv /\ ListInv /\ SlotInv /\ OneListInv
  <2>1. 1 \in Day
    BY DayAssumption DEF Day
  <2>2. Init => ListInv
    BY DEF Init, ListInv, Listing, Unsent
  <2>3. Init => SlotInv
    BY <2>1 DEF Init, SlotInv, HoldsSlot
  <2>4. Init => OneListInv
    BY <2>1 DEF Init, OneListInv, Unsent
  <2>5. QED
    BY <2>2, <2>3, <2>4, InitTypeOK
<1>2. TypeOK /\ HandsInv /\ ListInv /\ SlotInv /\ OneListInv /\ [Next]_vars
      => (TypeOK /\ HandsInv /\ ListInv /\ SlotInv /\ OneListInv)'
  BY NextTypeOK, NextList, NextSlot, NextOneList
<1>3. SlotInv /\ OneListInv => OneADay
  BY DEF OneADay, SlotInv, OneListInv
<1>4. QED
  BY <1>1, <1>2, <1>3, PTL DEF Spec

---------------------------------------------------------------------------
(***************************************************************************)
(* No day is held for nothing.                                             *)
(***************************************************************************)
\* Days that are held stay held for the same reason.
LEMMA UsedKept ==
    ASSUME SlotsAreUsed, crashes > 0 => crashes' > 0, tried \subseteq tried',
           \A d \in Day : slot'[d] \in Member => slot'[d] = slot[d],
           \A v \in Worker : pc[v] \in {"insert", "post"} =>
               \/ pc'[v] \in {"insert", "post"} /\ cur'[v] = cur[v]
               \/ cur[v] \in tried'
               \/ \A d \in Day : slot'[d] # cur[v]
    PROVE  SlotsAreUsed'
<1>1. CASE crashes > 0
  BY <1>1 DEF SlotsAreUsed
<1>2. CASE ~(crashes > 0)
  <2> SUFFICES ASSUME NEW d \in Day, slot'[d] \in Member
               PROVE  \/ slot'[d] \in tried'
                      \/ \E v \in Worker : cur'[v] = slot'[d]
                                           /\ pc'[v] \in {"insert", "post"}
    BY DEF SlotsAreUsed
  <2>1. slot'[d] = slot[d]
    OBVIOUS
  <2>2. CASE slot[d] \in tried
    BY <2>1, <2>2
  <2>3. ASSUME NEW v \in Worker, cur[v] = slot[d], pc[v] \in {"insert", "post"}
        PROVE  \/ slot'[d] \in tried'
               \/ \E u \in Worker : cur'[u] = slot'[d] /\ pc'[u] \in {"insert", "post"}
    BY <2>1, <2>3
  <2>4. QED
    BY <1>2, <2>1, <2>2, <2>3 DEF SlotsAreUsed
<1>3. QED
  BY <1>1, <1>2

LEMMA NextUsed == TypeOK /\ HandsInv /\ SlotsAreUsed /\ [Next]_vars => SlotsAreUsed'
<1> SUFFICES ASSUME TypeOK, HandsInv, SlotsAreUsed, [Next]_vars PROVE SlotsAreUsed'
  OBVIOUS
<1> USE DEF list, crm, said, local
<1>0. Card \notin Member /\ Free \notin Member
  BY DayAssumption
<1>1. ASSUME NEW w \in Worker, RunStep(w) PROVE SlotsAreUsed'
  <2>0. UNCHANGED <<slot, tried, crashes>> /\ pc[w] \notin {"insert", "post"}
        => SlotsAreUsed'
    BY <1>1, OthersKept, UsedKept
  <2>1. CASE ReserveSlot(w) /\ pc'[w] = "insert"
    <3>1. slot' = [slot EXCEPT ![day] = cur[w]]
      BY <2>1 DEF ReserveSlot, End, Goto, TypeOK, RunsOK
    <3>2. UNCHANGED <<tried, crashes>> /\ cur'[w] = cur[w] /\ pc[w] = "slot"
      BY <2>1 DEF ReserveSlot, End, Goto, TypeOK, RunsOK
    <3>3. SUFFICES ASSUME ~(crashes > 0), NEW d \in Day, slot'[d] \in Member
                   PROVE  \/ slot'[d] \in tried'
                          \/ \E v \in Worker : cur'[v] = slot'[d]
                                               /\ pc'[v] \in {"insert", "post"}
      BY <3>2 DEF SlotsAreUsed
    <3>4. CASE d = day
      BY <2>1, <3>1, <3>2, <3>4 DEF TypeOK, RowsOK
    <3>5. CASE d # day
      <4>1. slot'[d] = slot[d]
        BY <3>1, <3>5 DEF TypeOK, RowsOK
      <4>2. CASE slot[d] \in tried
        BY <3>2, <4>1, <4>2
      <4>3. ASSUME NEW v \in Worker, cur[v] = slot[d], pc[v] \in {"insert", "post"}
            PROVE  cur'[v] = slot'[d] /\ pc'[v] \in {"insert", "post"}
        BY <1>1, <3>2, <4>1, <4>3, OthersKept
      <4>4. QED
        BY <3>3, <4>1, <4>2, <4>3 DEF SlotsAreUsed
    <3>6. QED
      BY <3>4, <3>5
  <2>2. CASE ReserveSlot(w) /\ pc'[w] # "insert"
    <3>1. UNCHANGED <<slot, tried, crashes>> /\ pc[w] = "slot"
      BY <2>2 DEF ReserveSlot, Goto, TypeOK, RunsOK
    <3>2. QED
      BY <2>0, <3>1
  <2>3. CASE Insert(w) /\ row[cur[w]] # "none"
    <3>1. UNCHANGED <<tried, crashes>> /\ ReleaseSlot(cur[w])
          /\ pc[w] = "insert" /\ cur[w] \in Member
      BY <2>3 DEF Insert, HandsInv
    <3>2. \A d \in Day : slot'[d] # cur[w]
                         /\ (slot'[d] \in Member => slot'[d] = slot[d])
      BY <1>0, <3>1 DEF ReleaseSlot, TypeOK, RowsOK
    <3>3. QED
      BY <1>1, <3>1, <3>2, OthersKept, UsedKept
  <2>4. CASE Insert(w) /\ row[cur[w]] = "none"
    <3>1. UNCHANGED <<slot, tried, crashes>> /\ cur' = cur /\ pc'[w] = "post"
      BY <2>4 DEF Insert, Goto, TypeOK, RunsOK
    <3>2. QED
      BY <1>1, <3>1, OthersKept, UsedKept
  <2>5. CASE Post(w)
    <3>1. UNCHANGED <<slot, crashes>> /\ tried' = tried \cup {cur[w]}
      BY <2>5 DEF Post
    <3>2. QED
      BY <1>1, <3>1, OthersKept, UsedKept
  <2>6. CASE Crash(w)
    BY <2>6 DEF Crash, SlotsAreUsed, TypeOK
  <2>7. CASE StartList(w) \/ Pick(w) \/ Reserve(w) \/ PostList(w) \/ Finish(w)
    BY <2>0, <2>7 DEF StartList, Pick, Reserve, PostList, Finish
  <2>8. CASE StartFollowups(w) \/ Look(w) \/ InspectActivity(w) \/ Note(w)
             \/ CheckUsed(w) \/ Record(w)
    BY <2>0, <2>8 DEF StartFollowups, Look, InspectActivity, Note, CheckUsed, Record
  <2>9. QED
    BY <1>1, <2>1, <2>2, <2>3, <2>4, <2>5, <2>6, <2>7, <2>8 DEF RunStep
<1>2. CASE CardReserves \/ CardSends
  <2>1. /\ UNCHANGED <<tried, crashes, pc, cur>>
        /\ \A d \in Day : slot'[d] \in Member => slot'[d] = slot[d]
    BY <1>0, <1>2 DEF CardReserves, CardSends, TypeOK, RowsOK
  <2>2. QED
    BY <2>1, UsedKept
<1>3. CASE Turn
  BY <1>3, UsedKept DEF Turn, Rest
<1>4. ASSUME NEW l \in Lead, Offers(l) \/ Withdraws(l) PROVE SlotsAreUsed'
  BY <1>4, UsedKept DEF Offers, Withdraws, Rest
<1>5. ASSUME NEW m \in Member, ComesDue(m) \/ Touches(m) PROVE SlotsAreUsed'
  BY <1>5, UsedKept DEF ComesDue, Touches, Rest
<1>6. CASE UNCHANGED vars
  BY <1>6, UsedKept DEF vars
<1>7. QED
  BY <1>1, <1>2, <1>3, <1>4, <1>5, <1>6 DEF Next

\* Unless a run has died, a day is held only by the card, by a reminder that went
\* to Slack, or by a run that is about to send one: the loser of the insert gives
\* its slot back before it looks further.
THEOREM NoDayIsWasted == Spec => []SlotsAreUsed
<1>1. Init => SlotsAreUsed
  BY DayAssumption DEF Init, SlotsAreUsed
<1>2. QED
  BY <1>1, InitTypeOK, NextTypeOK, NextUsed, PTL DEF Spec
================================================================================
