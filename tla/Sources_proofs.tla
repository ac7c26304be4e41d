----------------------------- MODULE Sources_proofs -----------------------------
(***************************************************************************)
(* Theorems about how grants are found: the poll lease, for any number of  *)
(* pollers, leads, sources and run rows, and any lease duration, maximum   *)
(* runtime and busy timeout; and the paid discovery of sources, for any    *)
(* number of processes, batches, targets and attempts.                     *)
(***************************************************************************)
EXTENDS PollLease, Discovery, FiniteSetTheorems, WellFoundedInduction,
        SequenceTheorems, TLAPS


---------------------------------------------------------------------------
(***************************************************************************)
(* The four ways the loop variables change together keep their types.      *)
(***************************************************************************)
LEMMA StopTypes ==
    ASSUME LoopTypeOK, NEW w \in Worker, Stop(w)
    PROVE  LoopTypeOK'
BY PollAssumption DEF LoopTypeOK, Stop, ForgetRun, Goto, Points

LEMMA SourceErrorTypes ==
    ASSUME LoopTypeOK, NEW w \in Worker, SourceError(w)
    PROVE  LoopTypeOK'
BY DEF LoopTypeOK, SourceError, Goto, Points

LEMMA ResolveTypes ==
    ASSUME LoopTypeOK, NEW w \in Worker, Goto(w, "loop"), ForgetRun(w),
           UNCHANGED src
    PROVE  LoopTypeOK'
BY PollAssumption DEF LoopTypeOK, ForgetRun, Goto, Points

LEMMA MoveTypes ==
    ASSUME LoopTypeOK, NEW w \in Worker, NEW p \in Points \ {"upsert"},
           Goto(w, p), UNCHANGED <<src, todo, cur, seen, run, broken>>
    PROVE  LoopTypeOK'
BY DEF LoopTypeOK, Goto

LEMMA PassTypes ==
    ASSUME LoopTypeOK, NEW w \in Worker, AtCheckpoint(w), PassCheckpoint(w),
           UNCHANGED <<seen, run, broken>>
    PROVE  LoopTypeOK'
<1>1. CASE pc[w] = "loop"
  BY <1>1, PollAssumption
  DEF LoopTypeOK, AtCheckpoint, PassCheckpoint, Goto, Points
<1>2. CASE pc[w] = "fetched"
  BY <1>2 DEF LoopTypeOK, AtCheckpoint, PassCheckpoint, Goto, Points
<1>3. CASE pc[w] = "items"
  BY <1>3 DEF LoopTypeOK, AtCheckpoint, PassCheckpoint, Goto, Points
<1>4. QED
  BY <1>1, <1>2, <1>3 DEF AtCheckpoint

LEMMA GoneTypes ==
    ASSUME TypeOK, NEW w \in Worker, Gone(w)
    PROVE  /\ LoopTypeOK'
           /\ tok' \in [Worker -> 0..MaxToken]
           /\ elapsed' \in [Worker -> 0..ElapsedCap]
           /\ age' \in [Worker -> Ages] /\ kage' \in [Worker -> Ages]
           /\ keeper' \in [Worker -> {"off", "on", "stray"}]
           /\ lost' \in [Worker -> BOOLEAN]
<1>1. LoopTypeOK'
  BY PollAssumption DEF TypeOK, LoopTypeOK, Gone, ForgetRun, Goto, Points
<1>2. QED
  BY <1>1, PollAssumption
  DEF TypeOK, Gone, NotBeating, Ages, ElapsedCap

---------------------------------------------------------------------------
(***************************************************************************)
(* Every value stays in its domain: in particular a renewal never makes a  *)
(* lease outlast LeaseDuration (acquire, heartbeat).                       *)
(***************************************************************************)
LEMMA InitTypeOK == Init => TypeOK
BY PollAssumption
DEF Init, TypeOK, LoopTypeOK, RunId, NoRun, Points, Ages, NotBeating,
    ElapsedCap

LEMMA CheckpointTypeOK ==
    ASSUME TypeOK, NEW w \in Worker, Checkpoint(w)
    PROVE  TypeOK'
<1> USE DEF dbVars, pollVars, keepVars
<1>1. CASE CheckpointRefused(w)
  BY <1>1, StopTypes DEF CheckpointRefused, TypeOK
<1>2. CASE CheckpointReadsClock(w)
  <2>1. LoopTypeOK'
    BY <1>2 DEF CheckpointReadsClock, TypeOK, LoopTypeOK
  <2> QED
    BY <1>2, <2>1, PollAssumption
    DEF CheckpointReadsClock, TypeOK, Ages, NotBeating
<1>3. CASE CheckpointRenews(w)
  <2>1. LoopTypeOK'
    BY <1>3, PassTypes DEF CheckpointRenews, Beating, TypeOK
  <2>2. ttl' \in -MaxLockWait..LeaseDuration
    BY <1>3, PollAssumption
    DEF CheckpointRenews, Beating, TypeOK, Ages, NotBeating
  <2> QED
    BY <1>3, <2>1, <2>2, PollAssumption
    DEF CheckpointRenews, TypeOK, Ages, NotBeating
<1>4. CASE CheckpointLost(w)
  BY <1>4, StopTypes, PollAssumption
  DEF CheckpointLost, TypeOK, Ages, NotBeating
<1>5. CASE CheckpointBusy(w)
  BY <1>5, StopTypes, SourceErrorTypes, PollAssumption
  DEF CheckpointBusy, TypeOK, Ages, NotBeating
<1>6. QED
  BY <1>1, <1>2, <1>3, <1>4, <1>5 DEF Checkpoint

LEMMA KeeperTypeOK ==
    ASSUME TypeOK, NEW w \in Worker, Keeper(w)
    PROVE  TypeOK'
<1> USE DEF dbVars, pollVars, keepVars
<1>0. LoopTypeOK'
  BY DEF Keeper, KeeperGivesUp, KeeperReadsClock, KeeperRenews, KeeperLoses,
         TypeOK, LoopTypeOK
<1>1. CASE KeeperGivesUp(w)
  BY <1>0, <1>1 DEF KeeperGivesUp, TypeOK
<1>2. CASE KeeperReadsClock(w)
  BY <1>0, <1>2, PollAssumption DEF KeeperReadsClock, TypeOK, Ages, NotBeating
<1>3. CASE KeeperRenews(w)
  <2>1. ttl' \in -MaxLockWait..LeaseDuration
    BY <1>3, PollAssumption DEF KeeperRenews, TypeOK, Ages, NotBeating
  <2> QED
    BY <1>0, <1>3, <2>1, PollAssumption
    DEF KeeperRenews, TypeOK, Ages, NotBeating
<1>4. CASE KeeperLoses(w)
  BY <1>0, <1>4, PollAssumption DEF KeeperLoses, TypeOK, Ages, NotBeating
<1>5. QED
  BY <1>1, <1>2, <1>3, <1>4 DEF Keeper

LEMMA FencedTransactionTypeOK ==
    ASSUME TypeOK, NEW w \in Worker, FencedTransaction(w)
    PROVE  TypeOK'
<1> USE DEF dbVars, pollVars, keepVars
<1>1. CASE TxBegin(w)
  <2>1. LoopTypeOK'
    BY <1>1 DEF TxBegin, TypeOK, LoopTypeOK
  <2> QED
    BY <1>1, <2>1 DEF TxBegin, TypeOK
<1>2. CASE TxRefused(w)
  BY <1>2, StopTypes DEF TxRefused, TypeOK
<1>3. CASE TxBroken(w)
  BY <1>3, StopTypes, SourceErrorTypes DEF TxBroken, TypeOK
<1>4. CASE TxOutlived(w)
  BY <1>4, StopTypes DEF TxOutlived, TypeOK
<1>5. ASSUME NEW r \in RunId, BeginRun(w, r)
      PROVE  TypeOK'
  <2>1. LoopTypeOK'
    BY <1>5, PollAssumption
    DEF BeginRun, TypeOK, LoopTypeOK, Goto, Points, RunId
  <2>2. runs' \in [RunId -> [state : {"none", "pending", "complete", "failed"},
                             gen : 0..MaxToken]]
    BY <1>5 DEF BeginRun, TypeOK
  <2> QED
    BY <1>5, <2>1, <2>2 DEF BeginRun, TypeOK
<1>6. CASE UpsertLead(w)
  <2>1. cur[w] \in Item
    BY <1>6 DEF UpsertLead, TypeOK, LoopTypeOK
  <2>2. LoopTypeOK'
    BY <1>6, <2>1 DEF UpsertLead, TypeOK, LoopTypeOK, Goto, Points
  <2> QED
    BY <1>6, <2>1, <2>2 DEF UpsertLead, TypeOK
<1>7. CASE CompleteRun(w)
  <2>1. LoopTypeOK'
    BY <1>7, ResolveTypes DEF CompleteRun, TypeOK
  <2>2. confirmed' \in [Item -> 0..MaxRuns]
    BY <1>7 DEF CompleteRun, TypeOK, LoopTypeOK
  <2>3. runs' \in [RunId -> [state : {"none", "pending", "complete", "failed"},
                             gen : 0..MaxToken]]
    BY <1>7 DEF CompleteRun, TypeOK
  <2> QED
    BY <1>7, <2>1, <2>2, <2>3 DEF CompleteRun, TypeOK
<1>8. CASE FailRun(w)
  <2>1. LoopTypeOK'
    BY <1>8, ResolveTypes DEF FailRun, TypeOK
  <2>2. runs' \in [RunId -> [state : {"none", "pending", "complete", "failed"},
                             gen : 0..MaxToken]]
    BY <1>8 DEF FailRun, TypeOK
  <2> QED
    BY <1>8, <2>1, <2>2 DEF FailRun, TypeOK
<1>9. CASE Reconcile(w)
  BY <1>9, StopTypes DEF Reconcile, TypeOK
<1>10. QED
  BY <1>1, <1>2, <1>3, <1>4, <1>5, <1>6, <1>7, <1>8, <1>9
  DEF FencedTransaction

LEMMA PollerTypeOK ==
    ASSUME TypeOK, NEW w \in Worker, Poller(w)
    PROVE  TypeOK'
<1> USE DEF dbVars, pollVars, keepVars
<1>1. ASSUME NEW a \in 0..MaxLockWait, Acquire(w, a)
      PROVE  TypeOK'
  <2>1. LoopTypeOK'
    BY <1>1, PollAssumption DEF Acquire, TypeOK, LoopTypeOK, Goto, Points
  <2> QED
    BY <1>1, <2>1, PollAssumption DEF Acquire, TypeOK, ElapsedCap
<1>2. CASE Checkpoint(w)
  BY <1>2, CheckpointTypeOK
<1>3. CASE FencedTransaction(w)
  BY <1>3, FencedTransactionTypeOK
<1>4. ASSUME NEW S \in SUBSET {i \in Item : SourceOf[i] = src[w]}, Fetch(w, S)
      PROVE  TypeOK'
  <2>1. LoopTypeOK'
    BY <1>4 DEF Fetch, TypeOK, LoopTypeOK, Goto, Points
  <2> QED
    BY <1>4, <2>1 DEF Fetch, TypeOK
<1>5. CASE FetchFails(w)
  BY <1>5, SourceErrorTypes DEF FetchFails, TypeOK
<1>6. CASE ItemsDone(w)
  BY <1>6, MoveTypes DEF ItemsDone, TypeOK, Points
<1>7. CASE SourcesDone(w)
  BY <1>7, MoveTypes DEF SourcesDone, TypeOK, Points
<1>8. CASE StopKeeper(w)
  <2>1. LoopTypeOK'
    BY <1>8, MoveTypes DEF StopKeeper, TypeOK, Points
  <2> QED
    BY <1>8, <2>1, PollAssumption DEF StopKeeper, TypeOK, Ages, NotBeating
<1>9. CASE Release(w)
  <2>1. LoopTypeOK'
    BY <1>9, MoveTypes DEF Release, TypeOK, Points
  <2> QED
    BY <1>9, <2>1, PollAssumption DEF Release, TypeOK
<1>10. CASE Exit(w)
  BY <1>10, GoneTypes DEF Exit, TypeOK
<1>11. QED
  BY <1>1, <1>2, <1>3, <1>4, <1>5, <1>6, <1>7, <1>8, <1>9, <1>10 DEF Poller

LEMMA TickTypeOK == TypeOK /\ Tick => TypeOK'
<1> SUFFICES ASSUME TypeOK, Tick
             PROVE  TypeOK'
  OBVIOUS
<1> USE DEF dbVars, pollVars, keepVars
<1>1. LoopTypeOK'
  BY DEF Tick, TypeOK, LoopTypeOK
<1>2. ttl' \in -MaxLockWait..LeaseDuration
  BY PollAssumption DEF Tick, TypeOK
<1>3. elapsed' \in [Worker -> 0..ElapsedCap]
  BY PollAssumption DEF Tick, TypeOK, ElapsedCap
<1>4. age' \in [Worker -> Ages] /\ kage' \in [Worker -> Ages]
  BY PollAssumption DEF Tick, TypeOK, Ages, NotBeating
<1>5. QED
  BY <1>1, <1>2, <1>3, <1>4 DEF Tick, TypeOK

LEMMA NextTypeOK == TypeOK /\ [Next]_vars => TypeOK'
<1> SUFFICES ASSUME TypeOK, [Next]_vars
             PROVE  TypeOK'
  OBVIOUS
<1>1. ASSUME NEW w \in Worker, Poller(w)
      PROVE  TypeOK'
  BY <1>1, PollerTypeOK
<1>2. ASSUME NEW w \in Worker, Keeper(w)
      PROVE  TypeOK'
  BY <1>2, KeeperTypeOK
<1>3. ASSUME NEW w \in Worker, Crash(w)
      PROVE  TypeOK'
  BY <1>3, GoneTypes DEF Crash, TypeOK
<1>4. CASE Tick
  BY <1>4, TickTypeOK
<1>5. CASE UNCHANGED vars
  BY <1>5 DEF vars, dbVars, pollVars, keepVars, TypeOK, LoopTypeOK
<1>6. QED
  BY <1>1, <1>2, <1>3, <1>4, <1>5 DEF Next

\* Every reachable state is well typed: no lease outlasts LeaseDuration.
THEOREM TypeCorrect == Spec => []TypeOK
BY InitTypeOK, NextTypeOK, PTL DEF Spec

---------------------------------------------------------------------------
(***************************************************************************)
(* Most steps touch neither the runs table nor the leads, start or end no  *)
(* process, and open no run.  One lemma says which steps those are, the    *)
(* next that they preserve every part of IInv that is not about clocks.    *)
(***************************************************************************)
Frame ==
    /\ UNCHANGED <<fence, leads, confirmed, runs, tok>>
    /\ \A v \in Worker :
          /\ Running(v)' <=> Running(v)
          /\ InRun(v)' => InRun(v) /\ run'[v] = run[v]
          /\ seen'[v] \subseteq seen[v]

Writes == /\ TokensDistinct
          /\ RunsInOrder
          /\ OpenRunsPending
          /\ SeenAreLeads
          /\ ConfirmedByCompleteRun

LEMMA FramePreserves == Writes /\ Frame => Writes'
<1> SUFFICES ASSUME Writes, Frame
             PROVE  Writes'
  OBVIOUS
<1>1. TokensDistinct'
  BY DEF Writes, TokensDistinct, Frame
<1>2. RunsInOrder'
  BY DEF Writes, RunsInOrder, Frame
<1>3. OpenRunsPending'
  BY DEF Writes, OpenRunsPending, Frame
<1>4. SeenAreLeads'
  BY DEF Writes, SeenAreLeads, Frame
<1>5. ConfirmedByCompleteRun'
  BY DEF Writes, ConfirmedByCompleteRun, Frame
<1>6. QED
  BY <1>1, <1>2, <1>3, <1>4, <1>5 DEF Writes

\* Moving one process between points keeps the frame.
LEMMA MoveFrames ==
    ASSUME LoopTypeOK, NEW w \in Worker, NEW p \in Points \ {"off"},
           pc[w] # "off", Goto(w, p),
           p \in {"fetch", "fetched", "items", "upsert", "resolve"} => InRun(w),
           UNCHANGED <<fence, leads, confirmed, runs, tok, run, seen>>
    PROVE  Frame
BY DEF LoopTypeOK, Goto, Frame, Running, InRun

LEMMA StopFrames ==
    ASSUME LoopTypeOK, NEW w \in Worker, pc[w] # "off", Stop(w),
           UNCHANGED <<fence, leads, confirmed, runs, tok>>
    PROVE  Frame
BY DEF LoopTypeOK, Stop, ForgetRun, Goto, Frame, Running, InRun

LEMMA SourceErrorFrames ==
    ASSUME LoopTypeOK, NEW w \in Worker, InRun(w), SourceError(w),
           UNCHANGED <<fence, leads, confirmed, runs, tok>>
    PROVE  Frame
BY DEF LoopTypeOK, SourceError, Goto, Frame, Running, InRun

LEMMA CheckpointFrames ==
    ASSUME TypeOK, NEW w \in Worker, Checkpoint(w)
    PROVE  Frame
<1> USE DEF dbVars, pollVars, keepVars
<1>0. LoopTypeOK
  BY DEF TypeOK
<1>1. CASE CheckpointRefused(w)
  BY <1>0, <1>1, StopFrames DEF CheckpointRefused, AtCheckpoint
<1>2. CASE CheckpointReadsClock(w)
  BY <1>2 DEF CheckpointReadsClock, Frame, Running, InRun
<1>3. CASE CheckpointRenews(w)
  <2>1. PICK p \in {"begin", "items", "upsert"} :
          /\ Goto(w, p) /\ pc[w] # "off"
          /\ p # "begin" => InRun(w)
    BY <1>3 DEF CheckpointRenews, PassCheckpoint, Beating, AtCheckpoint, InRun
  <2> QED
    BY <1>0, <1>3, <2>1, MoveFrames DEF CheckpointRenews, Points
<1>4. CASE CheckpointLost(w)
  BY <1>0, <1>4, StopFrames DEF CheckpointLost, Beating, AtCheckpoint
<1>5. CASE CheckpointBusy(w)
  BY <1>0, <1>5, StopFrames, SourceErrorFrames
  DEF CheckpointBusy, Beating, AtCheckpoint, InRun
<1>6. QED
  BY <1>1, <1>2, <1>3, <1>4, <1>5 DEF Checkpoint

LEMMA KeeperFrames ==
    ASSUME NEW w \in Worker, Keeper(w)
    PROVE  Frame
BY DEF Keeper, KeeperGivesUp, KeeperReadsClock, KeeperRenews, KeeperLoses,
       Frame, Running, InRun, dbVars, pollVars

LEMMA TransactionFrames ==
    ASSUME TypeOK, NEW w \in Worker,
           \/ TxBegin(w) \/ TxRefused(w) \/ TxBroken(w) \/ TxOutlived(w)
           \/ Reconcile(w)
    PROVE  Frame
<1> USE DEF dbVars, pollVars, keepVars
<1>0. LoopTypeOK
  BY DEF TypeOK
<1>1. CASE TxBegin(w)
  BY <1>1 DEF TxBegin, Frame, Running, InRun
<1>2. CASE TxRefused(w)
  BY <1>0, <1>2, StopFrames DEF TxRefused, AtTx, TxPoints
<1>3. CASE TxBroken(w)
  BY <1>0, <1>3, StopFrames, SourceErrorFrames DEF TxBroken, TxPoints, InRun
<1>4. CASE TxOutlived(w)
  BY <1>0, <1>4, StopFrames DEF TxOutlived, TxPoints
<1>5. CASE Reconcile(w)
  BY <1>0, <1>5, StopFrames DEF Reconcile
<1>6. QED
  BY <1>1, <1>2, <1>3, <1>4, <1>5

LEMMA LoopFrames ==
    ASSUME TypeOK, NEW w \in Worker,
           \/ \E S \in SUBSET {i \in Item : SourceOf[i] = src[w]} : Fetch(w, S)
           \/ FetchFails(w) \/ ItemsDone(w) \/ SourcesDone(w)
           \/ StopKeeper(w) \/ Release(w)
    PROVE  Frame
<1> USE DEF dbVars, pollVars, keepVars
<1>0. LoopTypeOK
  BY DEF TypeOK
<1>1. ASSUME NEW S \in SUBSET {i \in Item : SourceOf[i] = src[w]}, Fetch(w, S)
      PROVE  Frame
  BY <1>0, <1>1, MoveFrames DEF Fetch, InRun, Points
<1>2. CASE FetchFails(w)
  BY <1>0, <1>2, SourceErrorFrames DEF FetchFails, InRun
<1>3. CASE ItemsDone(w)
  BY <1>0, <1>3, MoveFrames DEF ItemsDone, InRun, Points
<1>4. CASE SourcesDone(w)
  BY <1>0, <1>4, MoveFrames DEF SourcesDone, Points
<1>5. CASE StopKeeper(w)
  BY <1>0, <1>5, MoveFrames DEF StopKeeper, Points
<1>6. CASE Release(w)
  BY <1>0, <1>6, MoveFrames DEF Release, Points
<1>7. QED
  BY <1>1, <1>2, <1>3, <1>4, <1>5, <1>6

---------------------------------------------------------------------------
(***************************************************************************)
(* The steps that do write: a takeover, the end of a process, the opening  *)
(* and resolution of a run, and the projection of one lead.                *)
(***************************************************************************)
LEMMA AcquireWrites ==
    ASSUME TypeOK, Writes, NEW w \in Worker, NEW a \in 0..MaxLockWait,
           Acquire(w, a)
    PROVE  Writes'
<1> USE DEF Writes, Acquire, TypeOK, LoopTypeOK, Goto
<1>1. TokensDistinct'
  BY DEF TokensDistinct, Running
<1>2. RunsInOrder'
  BY DEF RunsInOrder
<1>3. OpenRunsPending'
  <2> SUFFICES ASSUME NEW v \in Worker, InRun(v)'
               PROVE  /\ run'[v] \in RunId
                      /\ runs'[run'[v]] = [state |-> "pending", gen |-> tok'[v]]
                      /\ fence' # tok'[v]
    BY DEF OpenRunsPending
  <2>1. v # w /\ InRun(v)
    BY DEF InRun
  <2> QED
    BY <2>1 DEF OpenRunsPending, TokensDistinct, Running, InRun
<1>4. SeenAreLeads' /\ ConfirmedByCompleteRun'
  BY DEF SeenAreLeads, ConfirmedByCompleteRun
<1>5. QED
  BY <1>1, <1>2, <1>3, <1>4

LEMMA GoneWrites ==
    ASSUME TypeOK, Writes, NEW w \in Worker, Gone(w),
           UNCHANGED <<fence, leads, confirmed, runs>>
    PROVE  Writes'
<1> USE DEF Writes, TypeOK, LoopTypeOK, Gone, ForgetRun, Goto
<1>1. \A v \in Worker : Running(v)' => v # w /\ Running(v) /\ tok'[v] = tok[v]
  BY DEF Running
<1>2. \A v \in Worker : InRun(v)' =>
          v # w /\ InRun(v) /\ tok'[v] = tok[v] /\ run'[v] = run[v]
  BY DEF InRun
<1>3. TokensDistinct'
  BY <1>1 DEF TokensDistinct
<1>4. OpenRunsPending'
  BY <1>2 DEF OpenRunsPending
<1>5. RunsInOrder' /\ ConfirmedByCompleteRun'
  BY DEF RunsInOrder, ConfirmedByCompleteRun
<1>6. SeenAreLeads'
  BY DEF SeenAreLeads
<1>7. QED
  BY <1>3, <1>4, <1>5, <1>6

\* Within a run, a poller that still has the current token is the only one.
LEMMA CurrentTokenIsUnique ==
    ASSUME TokensDistinct, NEW v \in Worker, NEW w \in Worker,
           pc[v] # "off", pc[w] # "off", tok[v] = fence, tok[w] = fence
    PROVE  v = w
BY DEF TokensDistinct, Running

LEMMA BeginRunWrites ==
    ASSUME TypeOK, Writes, NEW w \in Worker, NEW r \in RunId, BeginRun(w, r)
    PROVE  Writes'
<1> USE DEF Writes, TypeOK, LoopTypeOK, Goto
<1>0. /\ pc[w] = "begin" /\ fence = tok[w] /\ runs[r] = NoRun
      /\ runs' = [runs EXCEPT ![r] = [state |-> "pending", gen |-> tok[w]]]
      /\ run' = [run EXCEPT ![w] = r]
      /\ pc' = [pc EXCEPT ![w] = "fetch"]
      /\ UNCHANGED <<fence, tok, seen, leads, confirmed>>
  BY DEF BeginRun, MayCommit, Owns
<1>1. TokensDistinct'
  BY <1>0 DEF TokensDistinct, Running
<1>2. RunsInOrder'
  <2>1. \A q \in RunId : q < r => runs[q] # NoRun
    BY PollAssumption DEF BeginRun, RunId
  <2> QED
    BY <1>0, <2>1 DEF RunsInOrder, NoRun
<1>3. OpenRunsPending'
  <2> SUFFICES ASSUME NEW v \in Worker, InRun(v)'
               PROVE  /\ run'[v] \in RunId
                      /\ runs'[run'[v]] = [state |-> "pending", gen |-> tok'[v]]
                      /\ fence' = tok'[v] =>
                            \A q \in RunId : q > run'[v] => runs'[q] = NoRun
    BY DEF OpenRunsPending
  <2>1. CASE v = w
    BY <1>0, <2>1, PollAssumption DEF RunsInOrder, RunId
  <2>2. CASE v # w
    <3>1. InRun(v)
      BY <1>0, <2>2 DEF InRun
    <3>2. /\ run[v] \in RunId
          /\ runs[run[v]] = [state |-> "pending", gen |-> tok[v]]
      BY <3>1 DEF OpenRunsPending
    <3>3. run[v] # r
      BY <1>0, <3>2 DEF NoRun
    <3>4. fence # tok[v]
      BY <1>0, <2>2, <3>1, CurrentTokenIsUnique DEF InRun
    <3> QED
      BY <1>0, <2>2, <3>2, <3>3, <3>4
  <2> QED
    BY <2>1, <2>2
<1>4. ConfirmedByCompleteRun'
  <2> SUFFICES ASSUME NEW i \in Item, confirmed[i] # 0
               PROVE  runs'[confirmed[i]].state = "complete" /\ i \in leads
    BY <1>0 DEF ConfirmedByCompleteRun
  <2>1. runs[confirmed[i]].state = "complete" /\ i \in leads
    BY DEF ConfirmedByCompleteRun
  <2>2. confirmed[i] \in RunId
    BY PollAssumption DEF RunId
  <2>3. confirmed[i] # r
    BY <1>0, <2>1 DEF NoRun
  <2>4. runs'[confirmed[i]] = runs[confirmed[i]]
    BY <1>0, <2>2, <2>3
  <2> QED
    BY <2>1, <2>4
<1>5. SeenAreLeads'
  BY <1>0 DEF SeenAreLeads
<1>6. QED
  BY <1>1, <1>2, <1>3, <1>4, <1>5

LEMMA UpsertWrites ==
    ASSUME TypeOK, Writes, NEW w \in Worker, UpsertLead(w)
    PROVE  Writes'
<1> USE DEF Writes, TypeOK, LoopTypeOK, Goto, UpsertLead
<1>1. TokensDistinct'
  BY DEF TokensDistinct, Running
<1>2. RunsInOrder' /\ ConfirmedByCompleteRun'
  BY DEF RunsInOrder, ConfirmedByCompleteRun
<1>3. OpenRunsPending'
  BY DEF OpenRunsPending, InRun
<1>4. SeenAreLeads'
  BY DEF SeenAreLeads
<1>5. QED
  BY <1>1, <1>2, <1>3, <1>4

\* A poller that may commit resolves its own run, the newest of them all.
LEMMA ResolvesOwnRun ==
    ASSUME TypeOK, Writes, NEW w \in Worker, pc[w] = "resolve", MayCommit(w)
    PROVE  /\ run[w] \in RunId
           /\ runs[run[w]] = [state |-> "pending", gen |-> fence]
           /\ \A q \in RunId : runs[q] # NoRun => q <= run[w]
BY PollAssumption
DEF Writes, OpenRunsPending, InRun, MayCommit, Owns, RunId

LEMMA ResolveWrites ==
    ASSUME TypeOK, Writes, NEW w \in Worker,
           NEW s \in {"complete", "failed"},
           pc[w] = "resolve", MayCommit(w), Goto(w, "loop"), ForgetRun(w),
           runs' = [runs EXCEPT ![run[w]].state = s],
           UNCHANGED <<fence, tok, leads>>
    PROVE  TokensDistinct' /\ RunsInOrder' /\ OpenRunsPending' /\ SeenAreLeads'
<1> USE DEF Writes, TypeOK, LoopTypeOK, Goto, ForgetRun
<1>0. run[w] \in RunId /\ runs[run[w]] = [state |-> "pending", gen |-> fence]
  BY ResolvesOwnRun
<1>1. TokensDistinct'
  BY DEF TokensDistinct, Running
<1>2. RunsInOrder'
  BY <1>0 DEF RunsInOrder, NoRun
<1>3. OpenRunsPending'
  <2> SUFFICES ASSUME NEW v \in Worker, InRun(v)'
               PROVE  /\ run'[v] \in RunId
                      /\ runs'[run'[v]] = [state |-> "pending", gen |-> tok'[v]]
                      /\ fence' # tok'[v]
    BY DEF OpenRunsPending
  <2>1. v # w /\ InRun(v)
    BY DEF InRun
  <2>2. fence # tok[v]
    BY <2>1, CurrentTokenIsUnique DEF InRun, MayCommit, Owns
  <2>3. /\ run[v] \in RunId
        /\ runs[run[v]] = [state |-> "pending", gen |-> tok[v]]
        /\ run'[v] = run[v]
    BY <2>1 DEF OpenRunsPending
  <2>4. run[v] # run[w]
    BY <1>0, <2>2, <2>3
  <2> QED
    BY <1>0, <2>2, <2>3, <2>4
<1>4. SeenAreLeads'
  <2>1. \A v \in Worker : seen'[v] \subseteq seen[v] /\ leads' = leads
    OBVIOUS
  <2> QED
    BY <2>1 DEF SeenAreLeads
<1>5. QED
  BY <1>1, <1>2, <1>3, <1>4

LEMMA CompleteRunWrites ==
    ASSUME TypeOK, Writes, NEW w \in Worker, CompleteRun(w)
    PROVE  Writes'
<1>0. run[w] \in RunId /\ runs[run[w]] = [state |-> "pending", gen |-> fence]
  BY ResolvesOwnRun DEF CompleteRun
<1>1. TokensDistinct' /\ RunsInOrder' /\ OpenRunsPending' /\ SeenAreLeads'
  BY ResolveWrites DEF CompleteRun
<1>2. ConfirmedByCompleteRun'
  <2> SUFFICES ASSUME NEW i \in Item, confirmed'[i] # 0
               PROVE  /\ runs'[confirmed'[i]].state = "complete"
                      /\ i \in leads'
    BY DEF ConfirmedByCompleteRun
  <2> USE DEF CompleteRun, TypeOK
  <2>1. CASE i \in seen[w]
    BY <1>0, <2>1 DEF Writes, SeenAreLeads
  <2>2. CASE i \notin seen[w]
    <3>1. confirmed'[i] = confirmed[i]
      BY <2>2
    <3>2. runs[confirmed[i]].state = "complete" /\ i \in leads
      BY <3>1 DEF Writes, ConfirmedByCompleteRun
    <3>3. confirmed[i] \in RunId
      BY <3>1, PollAssumption DEF RunId
    <3>4. confirmed[i] # run[w]
      BY <1>0, <3>2
    <3>5. runs'[confirmed[i]] = runs[confirmed[i]]
      BY <1>0, <3>3, <3>4
    <3> QED
      BY <3>1, <3>2, <3>5
  <2> QED
    BY <2>1, <2>2
<1>3. QED
  BY <1>1, <1>2 DEF Writes

LEMMA FailRunWrites ==
    ASSUME TypeOK, Writes, NEW w \in Worker, FailRun(w)
    PROVE  Writes'
<1>0. run[w] \in RunId /\ runs[run[w]] = [state |-> "pending", gen |-> fence]
  BY ResolvesOwnRun DEF FailRun
<1>1. TokensDistinct' /\ RunsInOrder' /\ OpenRunsPending' /\ SeenAreLeads'
  BY ResolveWrites DEF FailRun
<1>2. ConfirmedByCompleteRun'
  <2> SUFFICES ASSUME NEW i \in Item, confirmed[i] # 0
               PROVE  /\ runs'[confirmed[i]].state = "complete"
                      /\ i \in leads
    BY DEF ConfirmedByCompleteRun, FailRun
  <2>1. runs[confirmed[i]].state = "complete" /\ i \in leads
    BY DEF Writes, ConfirmedByCompleteRun
  <2>2. confirmed[i] \in RunId
    BY PollAssumption DEF RunId, TypeOK
  <2>3. confirmed[i] # run[w]
    BY <1>0, <2>1
  <2> QED
    BY <1>0, <2>1, <2>2, <2>3 DEF FailRun, TypeOK
<1>3. QED
  BY <1>1, <1>2 DEF Writes

LEMMA NextWrites == TypeOK /\ Writes /\ [Next]_vars => Writes'
<1> SUFFICES ASSUME TypeOK, Writes, [Next]_vars
             PROVE  Writes'
  OBVIOUS
<1>1. ASSUME NEW w \in Worker, Poller(w)
      PROVE  Writes'
  <2>1. ASSUME NEW a \in 0..MaxLockWait, Acquire(w, a)
        PROVE  Writes'
    BY <2>1, AcquireWrites
  <2>2. ASSUME NEW r \in RunId, BeginRun(w, r)
        PROVE  Writes'
    BY <2>2, BeginRunWrites
  <2>3. CASE UpsertLead(w)
    BY <2>3, UpsertWrites
  <2>4. CASE CompleteRun(w)
    BY <2>4, CompleteRunWrites
  <2>5. CASE FailRun(w)
    BY <2>5, FailRunWrites
  <2>6. CASE \/ TxBegin(w) \/ TxRefused(w) \/ TxBroken(w) \/ TxOutlived(w)
             \/ Reconcile(w)
    BY <2>6, TransactionFrames, FramePreserves
  <2>7. CASE Checkpoint(w)
    BY <2>7, CheckpointFrames, FramePreserves
  <2>8. CASE \/ \E S \in SUBSET {i \in Item : SourceOf[i] = src[w]} : Fetch(w, S)
             \/ FetchFails(w) \/ ItemsDone(w) \/ SourcesDone(w)
             \/ StopKeeper(w) \/ Release(w)
    BY <2>8, LoopFrames, FramePreserves
  <2>9. CASE Exit(w)
    BY <2>9, GoneWrites DEF Exit, dbVars
  <2>10. QED
    BY <1>1, <2>1, <2>2, <2>3, <2>4, <2>5, <2>6, <2>7, <2>8, <2>9
    DEF Poller, FencedTransaction
<1>2. ASSUME NEW w \in Worker, Keeper(w)
      PROVE  Writes'
  BY <1>2, KeeperFrames, FramePreserves
<1>3. ASSUME NEW w \in Worker, Crash(w)
      PROVE  Writes'
  BY <1>3, GoneWrites DEF Crash
<1>4. CASE Tick
  <2>1. Frame
    BY <1>4 DEF Tick, Frame, Running, InRun, pollVars
  <2> QED
    BY <2>1, FramePreserves
<1>5. CASE UNCHANGED vars
  <2>1. Frame
    BY <1>5 DEF vars, dbVars, pollVars, Frame, Running, InRun
  <2> QED
    BY <2>1, FramePreserves
<1>6. QED
  BY <1>1, <1>2, <1>3, <1>4, <1>5 DEF Next

LEMMA InitWrites == Init => Writes
BY DEF Init, Writes, TokensDistinct, RunsInOrder, OpenRunsPending,
       SeenAreLeads, ConfirmedByCompleteRun, Running, InRun, NoRun

LEMMA WritesInvariant == Spec => []Writes
BY InitWrites, NextWrites, TypeCorrect, PTL DEF Spec

---------------------------------------------------------------------------
(***************************************************************************)
(* The rich-card freshness rule of begin_run and complete_run: whatever    *)
(* crashes, hangs and takeovers do, a lead's confirmation names a run that *)
(* completed.                                                              *)
(***************************************************************************)
THEOREM FreshnessRule == Spec => []ConfirmedByCompleteRun
BY WritesInvariant, PTL DEF Writes

---------------------------------------------------------------------------
(***************************************************************************)
(* What a step may do to the lease generation, the runs and the            *)
(* confirmations: open a generation, open a run, resolve one, or nothing.  *)
(***************************************************************************)
LEMMA VisibleSteps ==
    ASSUME TypeOK, [Next]_vars
    PROVE  \/ UNCHANGED <<fence, runs, confirmed>>
           \/ \E w \in Worker :
                 \/ \E a \in 0..MaxLockWait : Acquire(w, a)
                 \/ \E r \in RunId : BeginRun(w, r)
                 \/ CompleteRun(w)
                 \/ FailRun(w)
<1>1. ASSUME NEW w \in Worker, Poller(w)
      PROVE  \/ UNCHANGED <<fence, runs, confirmed>>
             \/ \E a \in 0..MaxLockWait : Acquire(w, a)
             \/ \E r \in RunId : BeginRun(w, r)
             \/ CompleteRun(w)
             \/ FailRun(w)
  <2>1. CASE \/ TxBegin(w) \/ TxRefused(w) \/ TxBroken(w) \/ TxOutlived(w)
             \/ Reconcile(w)
    BY <2>1, TransactionFrames DEF Frame
  <2>2. CASE Checkpoint(w)
    BY <2>2, CheckpointFrames DEF Frame
  <2>3. CASE \/ \E S \in SUBSET {i \in Item : SourceOf[i] = src[w]} : Fetch(w, S)
             \/ FetchFails(w) \/ ItemsDone(w) \/ SourcesDone(w)
             \/ StopKeeper(w) \/ Release(w)
    BY <2>3, LoopFrames DEF Frame
  <2>4. CASE Exit(w) \/ UpsertLead(w)
    BY <2>4 DEF Exit, UpsertLead, dbVars
  <2>5. QED
    BY <1>1, <2>1, <2>2, <2>3, <2>4 DEF Poller, FencedTransaction
<1>2. ASSUME NEW w \in Worker, Keeper(w)
      PROVE  UNCHANGED <<fence, runs, confirmed>>
  BY <1>2, KeeperFrames DEF Frame
<1>3. ASSUME NEW w \in Worker, Crash(w)
      PROVE  UNCHANGED <<fence, runs, confirmed>>
  BY <1>3 DEF Crash
<1>4. CASE Tick \/ UNCHANGED vars
  BY <1>4 DEF Tick, vars, dbVars
<1>5. QED
  BY <1>1, <1>2, <1>3, <1>4 DEF Next

(***************************************************************************)
(* A paused poller that resumes after its successor started cannot put an  *)
(* older run back in place of the newer one (upsert_lead, complete_run).   *)
(***************************************************************************)
THEOREM NoRegression == Spec => ConfirmationNeverRegresses
<1>1. ASSUME TypeOK, Writes, [Next]_vars
      PROVE  \A i \in Item : confirmed'[i] >= confirmed[i]
  <2>1. ASSUME NEW w \in Worker, CompleteRun(w), NEW i \in Item
        PROVE  confirmed'[i] >= confirmed[i]
    <3>1. confirmed[i] \in 0..MaxRuns
      BY <1>1 DEF TypeOK
    <3>2. /\ run[w] \in RunId
          /\ \A q \in RunId : runs[q] # NoRun => q <= run[w]
      BY <1>1, <2>1, ResolvesOwnRun DEF CompleteRun
    <3>3. confirmed[i] <= run[w]
      <4>1. CASE confirmed[i] = 0
        BY <4>1, <3>2, PollAssumption DEF RunId
      <4>2. CASE confirmed[i] # 0
        <5>1. confirmed[i] \in RunId
          BY <3>1, <4>2, PollAssumption DEF RunId
        <5>2. runs[confirmed[i]] # NoRun
          BY <1>1, <4>2 DEF Writes, ConfirmedByCompleteRun, NoRun
        <5> QED
          BY <3>2, <5>1, <5>2
      <4> QED
        BY <4>1, <4>2
    <3>4. confirmed'[i] = run[w] \/ confirmed'[i] = confirmed[i]
      BY <1>1, <2>1 DEF CompleteRun
    <3> QED
      BY <3>1, <3>2, <3>3, <3>4, PollAssumption DEF RunId
  <2>2. CASE UNCHANGED confirmed
    BY <1>1, <2>2, PollAssumption DEF TypeOK
  <2>3. UNCHANGED confirmed \/ \E w \in Worker : CompleteRun(w)
    BY <1>1, VisibleSteps DEF Acquire, BeginRun, FailRun
  <2> QED
    BY <2>1, <2>2, <2>3
<1>2. QED
  BY <1>1, TypeCorrect, WritesInvariant, PTL
  DEF Spec, ConfirmationNeverRegresses

(***************************************************************************)
(* The polling writer implements SerialPolls: a step of the lease and the  *)
(* pollers is a step of one generation after another, or invisible.        *)
(***************************************************************************)
THEOREM Refinement == Spec => ActsSerially
<1>1. Init => Serial!Init
  BY DEF Init, Serial!Init, NoRun, Serial!NoRun
<1>2. ASSUME TypeOK, Writes, [Next]_vars
      PROVE  [Serial!Next]_(Serial!vars)
  <2>1. ASSUME NEW w \in Worker, NEW a \in 0..MaxLockWait, Acquire(w, a)
        PROVE  Serial!Next
    BY <2>1 DEF Acquire, Serial!Next, Serial!NewGeneration
  <2>2. ASSUME NEW w \in Worker, NEW r \in RunId, BeginRun(w, r)
        PROVE  Serial!Next
    <3>1. Serial!OpenRun(r)
      BY <2>2 DEF BeginRun, MayCommit, Owns, Serial!OpenRun, NoRun, Serial!NoRun
    <3> QED
      BY <3>1 DEF Serial!Next
  <2>3. ASSUME NEW w \in Worker, CompleteRun(w)
        PROVE  Serial!Next
    <3>1. run[w] \in RunId /\ runs[run[w]] = [state |-> "pending", gen |-> fence]
      BY <1>2, <2>3, ResolvesOwnRun DEF CompleteRun
    <3>2. seen[w] \in SUBSET Item
      BY <1>2 DEF TypeOK, LoopTypeOK
    <3>3. Serial!CompleteRun(run[w], seen[w])
      BY <2>3, <3>1 DEF CompleteRun, Serial!CompleteRun
    <3> QED
      BY <3>1, <3>2, <3>3 DEF Serial!Next
  <2>4. ASSUME NEW w \in Worker, FailRun(w)
        PROVE  Serial!Next
    <3>1. run[w] \in RunId /\ runs[run[w]] = [state |-> "pending", gen |-> fence]
      BY <1>2, <2>4, ResolvesOwnRun DEF FailRun
    <3>2. Serial!FailRun(run[w])
      BY <2>4, <3>1 DEF FailRun, Serial!FailRun
    <3> QED
      BY <3>1, <3>2 DEF Serial!Next
  <2>5. CASE UNCHANGED <<fence, runs, confirmed>>
    BY <2>5 DEF Serial!vars
  <2> QED
    BY <1>2, <2>1, <2>2, <2>3, <2>4, <2>5, VisibleSteps
<1>3. QED
  BY <1>1, <1>2, TypeCorrect, WritesInvariant, PTL
  DEF Spec, ActsSerially, Serial!Spec

---------------------------------------------------------------------------
(***************************************************************************)
(* The clocks of one poller.  A heartbeat that reads the clock before the  *)
(* maximum runtime renews to at most LeaseDuration after that reading.     *)
(***************************************************************************)
\* Steps that change no clock and neither start nor end a process.
Untimed ==
    /\ UNCHANGED <<fence, ttl, tok, elapsed>>
    /\ \A v \in Worker :
          /\ Running(v)' <=> Running(v)
          /\ age'[v] \in {age[v], NotBeating}
          /\ kage'[v] \in {kage[v], NotBeating}
          /\ ~Running(v) => keeper'[v] \in {keeper[v], "off"}

LEMMA UntimedPreserves == Clocks /\ Untimed => Clocks'
BY DEF Clocks, Untimed

LEMMA RunningKept ==
    ASSUME LoopTypeOK, NEW w \in Worker, NEW p, p # "off", pc[w] # "off",
           Goto(w, p)
    PROVE  \A v \in Worker : Running(v)' <=> Running(v)
BY DEF LoopTypeOK, Goto, Running

LEMMA TransactionUntimed ==
    ASSUME TypeOK, NEW w \in Worker, FencedTransaction(w)
    PROVE  Untimed
<1> USE DEF dbVars, pollVars, keepVars
<1>1. UNCHANGED <<fence, ttl, tok, elapsed, age, kage, keeper>>
  BY DEF FencedTransaction, TxBegin, TxRefused, TxBroken, TxOutlived, BeginRun,
         UpsertLead, CompleteRun, FailRun, Reconcile
<1>2. \/ UNCHANGED pc
      \/ pc[w] # "off" /\ \E p \in Points \ {"off"} : Goto(w, p)
  BY DEF FencedTransaction, TxBegin, TxRefused, TxBroken, TxOutlived, BeginRun,
         UpsertLead, CompleteRun, FailRun, Reconcile, AtTx, TxPoints, Stop,
         SourceError, Points
<1>3. \A v \in Worker : Running(v)' <=> Running(v)
  BY <1>2, RunningKept DEF TypeOK, Running
<1>4. QED
  BY <1>1, <1>3 DEF Untimed

LEMMA LoopUntimed ==
    ASSUME TypeOK, NEW w \in Worker,
           \/ CheckpointRefused(w) \/ CheckpointLost(w) \/ CheckpointBusy(w)
           \/ \E S \in SUBSET {i \in Item : SourceOf[i] = src[w]} : Fetch(w, S)
           \/ FetchFails(w) \/ ItemsDone(w) \/ SourcesDone(w) \/ StopKeeper(w)
    PROVE  Untimed
<1> USE DEF dbVars, pollVars, keepVars
<1>1. /\ UNCHANGED <<fence, ttl, tok, elapsed>>
      /\ age' \in {age, [age EXCEPT ![w] = NotBeating]}
      /\ kage' \in {kage, [kage EXCEPT ![w] = NotBeating]}
  BY DEF CheckpointRefused, CheckpointLost, CheckpointBusy, Fetch, FetchFails,
         ItemsDone, SourcesDone, StopKeeper
<1>2. pc[w] # "off" /\ \E p \in Points \ {"off"} : Goto(w, p)
  BY DEF CheckpointRefused, CheckpointLost, CheckpointBusy, Fetch, FetchFails,
         ItemsDone, SourcesDone, StopKeeper, Stop, SourceError, Points,
         AtCheckpoint, Beating
<1>3. \A v \in Worker : Running(v)' <=> Running(v)
  BY <1>2, RunningKept DEF TypeOK
<1>4. \A v \in Worker : /\ age'[v] \in {age[v], NotBeating}
                         /\ kage'[v] \in {kage[v], NotBeating}
  BY <1>1 DEF TypeOK
<1>5. \A v \in Worker : ~Running(v) => keeper'[v] = keeper[v]
  BY DEF CheckpointRefused, CheckpointLost, CheckpointBusy, Fetch, FetchFails,
         ItemsDone, SourcesDone, StopKeeper, TypeOK, Running
<1>6. QED
  BY <1>1, <1>3, <1>4, <1>5 DEF Untimed

LEMMA KeeperUntimed ==
    ASSUME TypeOK, NEW w \in Worker, KeeperGivesUp(w) \/ KeeperLoses(w)
    PROVE  Untimed
BY DEF KeeperGivesUp, KeeperLoses, dbVars, pollVars, Untimed, TypeOK, Running

\* A renewal by w with a reading a ticks old, taken before the maximum runtime.
LEMMA RenewalClocks ==
    ASSUME TypeOK, TokensDistinct, Clocks, NEW w \in Worker, NEW a \in Nat,
           Running(w), fence = tok[w], elapsed[w] < MaxRuntime + a,
           ttl' = LeaseDuration - a,
           UNCHANGED <<fence, tok, elapsed>>,
           keeper' \in {keeper, [keeper EXCEPT ![w] = "off"]},
           \A v \in Worker : /\ Running(v)' <=> Running(v)
                             /\ age'[v] \in {age[v], NotBeating}
                             /\ kage'[v] \in {kage[v], NotBeating}
    PROVE  Clocks'
<1>1. \A v \in Worker : Running(v) /\ tok[v] = fence => v = w
  BY DEF TokensDistinct
<1>2. elapsed[w] + ttl' <= MaxRuntime + LeaseDuration
  BY PollAssumption DEF TypeOK, ElapsedCap
<1>3. \A v \in Worker : ~Running(v) => keeper'[v] = keeper[v]
  BY DEF TypeOK
<1>4. QED
  BY <1>1, <1>2, <1>3 DEF Clocks

LEMMA CheckpointClocks ==
    ASSUME TypeOK, TokensDistinct, Clocks, NEW w \in Worker, Checkpoint(w)
    PROVE  Clocks'
<1>1. CASE CheckpointRefused(w) \/ CheckpointLost(w) \/ CheckpointBusy(w)
  BY <1>1, LoopUntimed, UntimedPreserves
<1>2. CASE CheckpointReadsClock(w)
  BY <1>2, PollAssumption
  DEF CheckpointReadsClock, AtCheckpoint, Clocks, TypeOK, ElapsedCap, NotBeating,
      dbVars, pollVars, keepVars, Running
<1>3. CASE CheckpointRenews(w)
  <2>1. \A v \in Worker : Running(v)' <=> Running(v)
    <3>1. pc[w] # "off" /\ \E p \in Points \ {"off"} : Goto(w, p)
      BY <1>3 DEF CheckpointRenews, Beating, AtCheckpoint, PassCheckpoint, Points
    <3> QED
      BY <3>1, RunningKept DEF TypeOK
  <2>2. /\ UNCHANGED <<fence, tok, elapsed, kage, keeper>>
        /\ age' = [age EXCEPT ![w] = NotBeating]
        /\ ttl' = LeaseDuration - age[w]
        /\ fence = tok[w] /\ age[w] # NotBeating /\ Running(w)
    BY <1>3
    DEF CheckpointRenews, Owns, Beating, AtCheckpoint, keepVars, Running
  <2>3. age[w] \in Nat /\ elapsed[w] < MaxRuntime + age[w]
    BY <2>2, PollAssumption DEF Clocks, TypeOK, Ages, NotBeating
  <2>4. \A v \in Worker : /\ age'[v] \in {age[v], NotBeating}
                           /\ kage'[v] \in {kage[v], NotBeating}
    BY <2>2 DEF TypeOK
  <2> QED
    BY <2>1, <2>2, <2>3, <2>4, RenewalClocks
<1>4. QED
  BY <1>1, <1>2, <1>3 DEF Checkpoint

LEMMA KeeperClocks ==
    ASSUME TypeOK, TokensDistinct, Clocks, NEW w \in Worker, Keeper(w)
    PROVE  Clocks'
<1>1. CASE KeeperGivesUp(w) \/ KeeperLoses(w)
  BY <1>1, KeeperUntimed, UntimedPreserves
<1>2. CASE KeeperReadsClock(w)
  BY <1>2, PollAssumption
  DEF KeeperReadsClock, Clocks, TypeOK, ElapsedCap, NotBeating,
      dbVars, pollVars, keepVars, Running
<1>3. CASE KeeperRenews(w)
  <2>1. \A v \in Worker : Running(v)' <=> Running(v)
    BY <1>3 DEF KeeperRenews, pollVars, Running
  <2>2. /\ UNCHANGED <<fence, tok, elapsed, age>>
        /\ kage' = [kage EXCEPT ![w] = NotBeating]
        /\ keeper' \in {keeper, [keeper EXCEPT ![w] = "off"]}
        /\ ttl' = LeaseDuration - kage[w]
        /\ fence = tok[w] /\ kage[w] # NotBeating /\ Running(w)
    BY <1>3 DEF KeeperRenews, Owns, pollVars, Clocks, TypeOK
  <2>3. kage[w] \in Nat /\ elapsed[w] < MaxRuntime + kage[w]
    BY <2>2, PollAssumption DEF Clocks, TypeOK, Ages, NotBeating
  <2>4. \A v \in Worker : /\ age'[v] \in {age[v], NotBeating}
                           /\ kage'[v] \in {kage[v], NotBeating}
    BY <2>2 DEF TypeOK
  <2> QED
    BY <2>1, <2>2, <2>3, <2>4, RenewalClocks
<1>4. QED
  BY <1>1, <1>2, <1>3 DEF Keeper

LEMMA NextClocks == TypeOK /\ TokensDistinct /\ Clocks /\ [Next]_vars => Clocks'
<1> SUFFICES ASSUME TypeOK, TokensDistinct, Clocks, [Next]_vars
             PROVE  Clocks'
  OBVIOUS
<1>1. ASSUME NEW w \in Worker, Gone(w), UNCHANGED <<fence, ttl>>
      PROVE  Clocks'
  BY <1>1, PollAssumption DEF Gone, ForgetRun, Goto, Clocks, TypeOK, LoopTypeOK,
      Running, NotBeating
<1>2. ASSUME NEW w \in Worker, Poller(w)
      PROVE  Clocks'
  <2>1. ASSUME NEW a \in 0..MaxLockWait, Acquire(w, a)
        PROVE  Clocks'
    <3>1. \A v \in Worker : Running(v) => tok[v] # fence'
      BY <2>1, PollAssumption DEF Acquire, TokensDistinct, TypeOK
    <3>2. \A v \in Worker : v # w =>
             /\ Running(v)' <=> Running(v)
             /\ tok'[v] = tok[v] /\ elapsed'[v] = elapsed[v]
             /\ keeper'[v] = keeper[v]
      BY <2>1 DEF Acquire, Goto, Running, TypeOK, LoopTypeOK
    <3>3. /\ Running(w)' /\ elapsed'[w] = 0
          /\ age[w] = NotBeating /\ kage[w] = NotBeating
          /\ ttl' <= LeaseDuration /\ ttl' \in Int
      BY <2>1, PollAssumption
      DEF Acquire, Goto, Running, Clocks, TypeOK, LoopTypeOK
    <3>4. UNCHANGED <<age, kage>>
      BY <2>1 DEF Acquire
    <3> QED
      BY <3>1, <3>2, <3>3, <3>4, PollAssumption DEF Clocks
  <2>2. CASE Checkpoint(w)
    BY <2>2, CheckpointClocks
  <2>3. CASE FencedTransaction(w)
    BY <2>3, TransactionUntimed, UntimedPreserves
  <2>4. CASE \/ \E S \in SUBSET {i \in Item : SourceOf[i] = src[w]} : Fetch(w, S)
             \/ FetchFails(w) \/ ItemsDone(w) \/ SourcesDone(w) \/ StopKeeper(w)
    BY <2>4, LoopUntimed, UntimedPreserves
  <2>5. CASE Release(w)
    <3>1. \A v \in Worker : Running(v)' <=> Running(v)
      BY <2>5, RunningKept DEF Release, TypeOK
    <3>2. /\ UNCHANGED <<fence, tok, elapsed, age, keeper, kage>>
          /\ ttl' = ttl \/ ttl' = 0
      BY <2>5 DEF Release, keepVars
    <3> QED
      BY <3>1, <3>2 DEF Clocks
  <2>6. CASE Exit(w)
    BY <1>1, <2>6 DEF Exit, dbVars
  <2>7. QED
    BY <1>2, <2>1, <2>2, <2>3, <2>4, <2>5, <2>6 DEF Poller
<1>3. ASSUME NEW w \in Worker, Keeper(w)
      PROVE  Clocks'
  BY <1>3, KeeperClocks
<1>4. ASSUME NEW w \in Worker, Crash(w)
      PROVE  Clocks'
  BY <1>1, <1>4 DEF Crash
<1>5. CASE Tick
  <2> SUFFICES ASSUME NEW w \in Worker
               PROVE  /\ ~Running(w) => /\ age'[w] = NotBeating
                                        /\ kage'[w] = NotBeating
                                        /\ keeper'[w] = "off"
                      /\ age'[w] # NotBeating => elapsed'[w] < MaxRuntime + age'[w]
                      /\ kage'[w] # NotBeating => elapsed'[w] < MaxRuntime + kage'[w]
                      /\ Running(w) /\ fence = tok[w] /\ ttl' > 0 =>
                            elapsed'[w] + ttl' <= MaxRuntime + LeaseDuration
    BY <1>5 DEF Tick, Clocks, Running, pollVars
  <2>1. /\ elapsed'[w] \in {elapsed[w], elapsed[w] + 1}
        /\ age'[w] = IF age[w] # NotBeating THEN age[w] + 1 ELSE NotBeating
        /\ kage'[w] = IF kage[w] # NotBeating THEN kage[w] + 1 ELSE NotBeating
        /\ keeper' = keeper
        /\ ttl' > 0 => ttl' = ttl - 1
    BY <1>5, PollAssumption DEF Tick, TypeOK
  <2>2. /\ elapsed[w] \in Nat /\ ttl \in Int
        /\ age[w] \in Int /\ kage[w] \in Int
    BY PollAssumption DEF TypeOK, Ages, NotBeating, ElapsedCap
  <2> QED
    BY <2>1, <2>2, PollAssumption DEF Clocks
<1>6. CASE UNCHANGED vars
  BY <1>6 DEF vars, dbVars, pollVars, keepVars, Clocks, Running
<1>7. QED
  BY <1>2, <1>3, <1>4, <1>5, <1>6 DEF Next

\* IInv holds in every reachable state; the safety theorems follow from it.
THEOREM Inductive == Spec => []IInv
<1>1. Init => Clocks
  BY PollAssumption DEF Init, Clocks, Running, NotBeating
<1>2. QED
  BY <1>1, NextClocks, TypeCorrect, WritesInvariant, PTL DEF Spec, IInv, Writes

(***************************************************************************)
(* A poller, hung or not, has lost the lease one lease duration after its  *)
(* maximum runtime (LeaseKeeper._run, checkpoint): the bound the code      *)
(* enforces on what max_runtime_seconds calls the loss of authority.       *)
(***************************************************************************)
THEOREM BoundedAuthority == Spec => []AuthorityIsBounded
<1>1. TypeOK /\ Clocks => AuthorityIsBounded
  BY PollAssumption DEF TypeOK, Clocks, AuthorityIsBounded, Owns, Running, ElapsedCap
<1>2. QED
  BY <1>1, Inductive, PTL DEF IInv

---------------------------------------------------------------------------
(***************************************************************************)
(* Discovery.                                                              *)
(***************************************************************************)
Phases == { "idle", "planned", "staging", "opening",
            "task", "begin", "call", "wait", "store" }

\* Under the root's lock; with the batch made; with a target in hand.
Executing == Phases \ {"idle", "planned"}
Loaded    == Executing \ {"staging", "opening"}
InHand    == Loaded \ {"task"}

\* The types of Discovery, as the proofs need them.
DiscoveryTypes ==
    /\ manifest \in [Batch -> Manifest]
    /\ row \in [Batch -> [Target -> Seq(Attempt)]]
    /\ litter \in BOOLEAN
    /\ ledger \in [Target -> {None, "in_flight", "indeterminate", "closed"}]
    /\ holder \in Process \cup {None}
    /\ phase \in [Process -> Phases]
    /\ word \in [Process -> BOOLEAN]
    /\ batch \in [Process -> Batch \cup {None}]
    /\ plan \in [Process -> Manifest] /\ rest \in [Process -> Manifest]
    /\ answer \in [Process -> Outcome \cup {None}]
    /\ sent \in [Batch -> [Target -> Nat]]
    /\ astray \subseteq Target

\* What a process holds while it plans and executes.
Root(p) ==
    /\ phase[p] \in Executing => holder = p
    /\ phase[p] # "idle" => batch[p] \in Batch
    /\ phase[p] \in {"planned", "staging"} =>
            plan[p] # {} /\ Cardinality(plan[p]) <= TaskLimit
    /\ phase[p] = "staging" => ~Made(batch[p])
    /\ phase[p] \in Executing \ {"staging"} => Made(batch[p])
    /\ phase[p] \in Loaded => rest[p] \subseteq manifest[batch[p]]
    /\ phase[p] \in InHand => rest[p] # {}

\* The row in hand, and what is known of it between the marker and the outcome.
HandRow(p) == row[batch[p]][Current(p)]

Hand(p) ==
    /\ phase[p] = "begin" =>
            StatusOf(HandRow(p)) \in {"pending", "retryable_failure"}
    /\ phase[p] \in {"call", "wait", "store"} =>
            HandRow(p) # <<>> /\ Last(HandRow(p)) = "in_flight"
    /\ phase[p] = "call" => sent[batch[p]][Current(p)] < Len(HandRow(p))
    /\ phase[p] = "store" => answer[p] \in Outcome

Processes == \A p \in Process : Root(p) /\ Hand(p)

\* The batches on disk, the requests behind their rows, and the account's
\* ledger, which remembers every answer nobody kept.
Books ==
    /\ \A b \in Batch : ValidBatch(b)
    /\ \A b \in Batch, t \in Target : sent[b][t] <= Len(row[b][t])
    /\ \A t \in astray : ledger[t] \in {"in_flight", "indeterminate"}

DiscoveryInv == DiscoveryTypes /\ Processes /\ Books

---------------------------------------------------------------------------
\* Ranks are numbers: a set of them has a best one, which is taken first.
LEMMA LeastNat ==
    ASSUME NEW S \in SUBSET Nat, S # {}
    PROVE  \E n \in S : \A m \in S : n <= m
<1>1. PICK n \in S : \A m \in S : <<m, n>> \notin OpToRel(<, Nat)
  BY NatLessThanWellFounded, WFMin, Zenon
<1>2. \A m \in S : ~(m < n)
  BY <1>1, Zenon DEF OpToRel
<1>3. QED
  BY <1>2

LEMMA TargetsAreRanks == Cardinality(Target) \in Nat /\ Target \subseteq Nat
<1>1. Cardinality(Target) \in Nat
  BY DiscoveryAssumption, FS_CardinalityType
<1>2. QED
  BY <1>1, DiscoveryAssumption

LEMMA CurrentIsInRest ==
    ASSUME DiscoveryTypes, NEW p \in Process, rest[p] # {}
    PROVE  Current(p) \in rest[p] /\ Current(p) \in Target
<1>1. rest[p] \in SUBSET Target
  BY DEF DiscoveryTypes, Manifest
<1>2. \E t \in rest[p] : \A u \in rest[p] : t <= u
  BY <1>1, TargetsAreRanks, LeastNat
<1>3. Current(p) \in rest[p]
  BY <1>2 DEF Current
<1>4. QED
  BY <1>1, <1>3

\* A set of ranks has a worst one.
LEMMA WorstRank ==
    ASSUME NEW S \in SUBSET Target, S # {}
    PROVE  \E n \in S : \A m \in S : m <= n
<1> DEFINE c == Cardinality(Target)
           T == {c - n : n \in S}
<1>1. c \in Nat /\ \A n \in S : n \in 1..c
  BY TargetsAreRanks, DiscoveryAssumption
<1>2. T \in SUBSET Nat
  BY <1>1
<1>3. T # {}
  OBVIOUS
<1>4. PICK t \in T : \A u \in T : t <= u
  BY <1>2, <1>3, LeastNat
<1>5. PICK n \in S : t = c - n
  BY <1>4
<1>6. ASSUME NEW m \in S
      PROVE  m <= n
  <2>1. c - m \in T
    OBVIOUS
  <2>2. t <= c - m
    BY <1>4, <2>1
  <2>3. QED
    BY <1>1, <1>5, <2>2
<1>7. QED
  BY <1>6

\* select_targets never takes more than the limit: all that were selected
\* but the worst of them rank before it, and fewer than TaskLimit do.
LEMMA SelectIsBounded ==
    ASSUME NEW from \in SUBSET Target
    PROVE  /\ Select(from) \in SUBSET Target
           /\ Cardinality(Select(from)) <= TaskLimit
<1> DEFINE S == Select(from)
<1>1. S \in SUBSET Target
  BY DEF Select
<1>2. IsFiniteSet(S) /\ IsFiniteSet(from)
  BY <1>1, DiscoveryAssumption, FS_Subset
<1>3. TaskLimit \in Nat
  BY DiscoveryAssumption DEF ManifestBounds
<1>4. CASE S = {}
  BY <1>1, <1>3, <1>4, FS_EmptySet
<1>5. CASE S # {}
  <2>1. PICK n \in S : \A m \in S : m <= n
    BY <1>1, <1>5, WorstRank
  <2> DEFINE before == {u \in from : u < n}
  <2>2. IsFiniteSet(before) /\ Cardinality(before) \in Nat
    BY <1>2, FS_Subset, FS_CardinalityType
  <2>3. Cardinality(before) < TaskLimit
    BY <2>1 DEF Select
  <2>4. S \ {n} \subseteq before
    <3>1. \A m \in S : m \in Nat
      BY <1>1, TargetsAreRanks
    <3>2. \A m \in S \ {n} : m < n
      BY <2>1, <3>1
    <3>3. QED
      BY <3>2 DEF Select
  <2>5. Cardinality(S \ {n}) <= Cardinality(before)
    BY <2>2, <2>4, FS_Subset
  <2>6. Cardinality(S \ {n}) = Cardinality(S) - 1
    BY <1>2, <2>1, FS_RemoveElement
  <2>7. Cardinality(S) \in Nat
    BY <1>2, FS_CardinalityType
  <2>8. QED
    BY <1>1, <1>3, <2>2, <2>3, <2>5, <2>6, <2>7
<1>6. QED
  BY <1>4, <1>5

---------------------------------------------------------------------------
(***************************************************************************)
(* What one attempt does to a row.                                         *)
(***************************************************************************)
\* begin_attempt opens a row only while an attempt is left.
LEMMA OpenedRow ==
    ASSUME NEW s \in Seq(Attempt), ValidRow(s),
           StatusOf(s) \in {"pending", "retryable_failure"}
    PROVE  LET opened == Append(s, "in_flight") IN
           /\ opened \in Seq(Attempt) /\ ValidRow(opened)
           /\ opened # <<>> /\ Last(opened) = "in_flight"
           /\ Len(opened) = Len(s) + 1
           /\ \A i \in DOMAIN s : opened[i] = s[i]
<1> DEFINE opened == Append(s, "in_flight")
<1>1. MaxAttempts \in Nat /\ MaxAttempts >= 1
  BY DiscoveryAssumption DEF ManifestBounds
<1>2. /\ opened \in Seq(Attempt) /\ Len(opened) = Len(s) + 1
      /\ Len(s) \in Nat
      /\ opened[Len(s) + 1] = "in_flight"
      /\ \A i \in 1..Len(s) : opened[i] = s[i]
  BY DEF Attempt
<1>3. CASE s = <<>>
  BY <1>1, <1>2, <1>3 DEF ValidRow, Last
<1>4. CASE s # <<>>
  <2>1. Len(s) >= 1
    BY <1>2, <1>4
  <2>2. /\ Last(s) # "in_flight" /\ Retryable(Last(s))
        /\ ~(Len(s) >= MaxAttempts)
    BY <1>4 DEF StatusOf, Retryable
  <2>3. \A i \in 1..Len(s) : s[i] # "in_flight" /\ Retryable(s[i])
    BY <1>2, <2>1, <2>2 DEF ValidRow, Last
  <2>4. ValidRow(opened)
    BY <1>1, <1>2, <2>2, <2>3 DEF ValidRow
  <2>5. QED
    BY <1>2, <2>1, <2>4 DEF Last
<1>5. QED
  BY <1>3, <1>4

\* complete_attempt and recover_in_flight rewrite the last attempt alone.
LEMMA ClosedRow ==
    ASSUME NEW s \in Seq(Attempt), s # <<>>, ValidRow(s), NEW o \in Attempt
    PROVE  LET closed == Append(Front(s), o) IN
           /\ closed \in Seq(Attempt) /\ ValidRow(closed)
           /\ Len(closed) = Len(s) /\ Last(closed) = o
           /\ closed # <<>>
           /\ \A i \in 1..(Len(s) - 1) : closed[i] = s[i]
<1> DEFINE closed == Append(Front(s), o)
<1>1. Len(s) \in Nat /\ Len(s) >= 1 /\ DOMAIN s = 1..Len(s)
  OBVIOUS
<1>2. /\ Front(s) \in Seq(Attempt) /\ Len(Front(s)) = Len(s) - 1
      /\ \A i \in 1..(Len(s) - 1) : Front(s)[i] = s[i]
  BY <1>1 DEF Front
<1>3. /\ closed \in Seq(Attempt) /\ Len(closed) = Len(s)
      /\ closed[Len(s)] = o
      /\ \A i \in 1..(Len(s) - 1) : closed[i] = s[i]
  <2> DEFINE f == Front(s)
  <2>1. /\ closed \in Seq(Attempt) /\ Len(closed) = Len(f) + 1
        /\ closed[Len(f) + 1] = o
        /\ \A i \in 1..Len(f) : closed[i] = f[i]
    <3> HIDE DEF f
    <3>1. f \in Seq(Attempt)
      BY <1>2 DEF f
    <3>2. QED
      BY <3>1, AppendProperties DEF f
  <2>2. QED
    BY <1>1, <1>2, <2>1
<1>4. ValidRow(closed)
  BY <1>3 DEF ValidRow
<1>5. QED
  BY <1>1, <1>3, <1>4 DEF Last

LEMMA StoredRow ==
    ASSUME DiscoveryTypes, NEW b \in Batch, NEW t \in Target,
           NEW attempts \in Seq(Attempt), Store(b, t, attempts)
    PROVE  /\ row' \in [Batch -> [Target -> Seq(Attempt)]]
           /\ row'[b][t] = attempts
           /\ \A c \in Batch, u \in Target :
                c # b \/ u # t => row'[c][u] = row[c][u]
BY DEF DiscoveryTypes, Store

\* Storing a valid and no shorter row of the manifest keeps the books.
LEMMA StoredBooks ==
    ASSUME DiscoveryTypes, Books, NEW b \in Batch, NEW t \in Target,
           t \in manifest[b], NEW attempts \in Seq(Attempt),
           ValidRow(attempts), Len(row[b][t]) <= Len(attempts),
           Store(b, t, attempts), UNCHANGED <<manifest, ledger, sent, astray>>
    PROVE  Books'
<1>1. /\ row'[b][t] = attempts
      /\ \A c \in Batch, u \in Target :
            c # b \/ u # t => row'[c][u] = row[c][u]
  BY StoredRow
<1>2. ASSUME NEW c \in Batch
      PROVE  ValidBatch(c)'
  BY <1>1 DEF Books, ValidBatch
<1>3. ASSUME NEW c \in Batch, NEW u \in Target
      PROVE  sent'[c][u] <= Len(row'[c][u])
  <2>1. CASE c = b /\ u = t
    <3>1. sent[b][t] \in Nat /\ Len(row[b][t]) \in Nat /\ Len(attempts) \in Nat
      BY DEF DiscoveryTypes
    <3>2. sent[b][t] <= Len(row[b][t])
      BY DEF Books
    <3>3. QED
      BY <1>1, <2>1, <3>1, <3>2
  <2>2. CASE c # b \/ u # t
    BY <1>1, <2>2 DEF Books
  <2>3. QED
    BY <2>1, <2>2
<1>4. QED
  BY <1>2, <1>3 DEF Books

---------------------------------------------------------------------------
(***************************************************************************)
(* Only the holder of the root's lock executes, so a step leaves the other *)
(* processes where they were.                                              *)
(***************************************************************************)
Apart(q) ==
    /\ phase'[q] = phase[q] /\ batch'[q] = batch[q] /\ plan'[q] = plan[q]
    /\ rest'[q] = rest[q] /\ answer'[q] = answer[q]

LEMMA BystanderStays ==
    ASSUME NEW q \in Process, Root(q), Hand(q), Apart(q),
           phase[q] \in Executing =>
                holder' = q /\ UNCHANGED <<manifest, row, sent>>
    PROVE  Root(q)' /\ Hand(q)'
<1>1. CASE phase[q] \in Executing
  <2>1. Root(q)'
    BY <1>1 DEF Root, Apart, Made
  <2>2. Current(q)' = Current(q)
    BY DEF Current, Apart
  <2>3. HandRow(q)' = HandRow(q)
    BY <1>1, <2>2 DEF HandRow, Apart
  <2>4. Hand(q)'
    BY <1>1, <2>2, <2>3 DEF Hand, Apart
  <2>5. QED
    BY <2>1, <2>4
<1>2. CASE phase[q] \notin Executing
  <2>1. phase[q] \notin Loaded /\ phase[q] \notin InHand
        /\ phase[q] \notin {"begin", "call", "wait", "store", "staging"}
    BY <1>2 DEF Loaded, InHand, Executing, Phases
  <2>2. Root(q)'
    BY <1>2, <2>1 DEF Root, Apart
  <2>3. Hand(q)'
    BY <2>1 DEF Hand, Apart
  <2>4. QED
    BY <2>2, <2>3
<1>3. QED
  BY <1>1, <1>2

LEMMA HolderIsAlone ==
    ASSUME DiscoveryTypes, Processes, NEW p \in Process, phase[p] \in Executing,
           \A q \in Process \ {p} : Apart(q)
    PROVE  \A q \in Process \ {p} : Root(q)' /\ Hand(q)'
<1> SUFFICES ASSUME NEW q \in Process \ {p}
             PROVE  Root(q)' /\ Hand(q)'
  OBVIOUS
<1>1. Root(q) /\ Hand(q) /\ Root(p)
  BY DEF Processes
<1>2. phase[q] \notin Executing
  BY <1>1 DEF Root
<1>3. QED
  BY <1>1, <1>2, BystanderStays

\* What a process that moves within its execution leaves to prove.
LEMMA MoverAlone ==
    ASSUME DiscoveryTypes, Processes, NEW p \in Process, phase[p] \in Executing,
           \A q \in Process \ {p} : Apart(q), Root(p)', Hand(p)'
    PROVE  Processes'
<1>1. \A q \in Process \ {p} : Root(q)' /\ Hand(q)'
  BY HolderIsAlone
<1>2. ASSUME NEW q \in Process
      PROVE  Root(q)' /\ Hand(q)'
  BY <1>1
<1>3. QED
  BY <1>2 DEF Processes

\* The end of a command, before or while it executes.
LEMMA EndedCommand ==
    ASSUME DiscoveryTypes, Processes, NEW p \in Process, EndCommand(p),
           phase[p] \notin Executing => UNCHANGED <<manifest, row, sent>>
    PROVE  /\ Processes'
           /\ phase' \in [Process -> Phases] /\ word' \in [Process -> BOOLEAN]
           /\ batch' \in [Process -> Batch \cup {None}]
           /\ plan' \in [Process -> Manifest]
           /\ rest' \in [Process -> Manifest]
           /\ answer' \in [Process -> Outcome \cup {None}]
           /\ holder' \in Process \cup {None}
<1>1. /\ phase' \in [Process -> Phases] /\ word' \in [Process -> BOOLEAN]
      /\ batch' \in [Process -> Batch \cup {None}]
      /\ plan' \in [Process -> Manifest]
      /\ rest' \in [Process -> Manifest]
      /\ answer' \in [Process -> Outcome \cup {None}]
      /\ holder' \in Process \cup {None}
  BY DEF EndCommand, DiscoveryTypes, Phases, Manifest
<1>2. \A q \in Process \ {p} : Apart(q)
  BY DEF EndCommand, DiscoveryTypes, Apart
<1>3. phase'[p] = "idle"
  BY DEF EndCommand, DiscoveryTypes
<1>4. Root(p)' /\ Hand(p)'
  BY <1>3 DEF Root, Hand, Executing, Loaded, InHand, Phases
<1>5. ASSUME NEW q \in Process \ {p}
      PROVE  Root(q)' /\ Hand(q)'
  <2>1. CASE phase[p] \in Executing
    BY <1>2, <2>1, HolderIsAlone
  <2>2. CASE phase[p] \notin Executing
    <3>1. Root(q) /\ Hand(q)
      BY DEF Processes
    <3>2. phase[q] \in Executing => holder' = q
      BY <3>1 DEF Root, EndCommand
    <3>3. QED
      BY <1>2, <2>2, <3>1, <3>2, BystanderStays
  <2>3. QED
    BY <2>1, <2>2
<1>6. Processes'
  BY <1>4, <1>5 DEF Processes
<1>7. QED
  BY <1>1, <1>6

---------------------------------------------------------------------------
LEMMA DiscoveryInitInv == DiscoveryInit => DiscoveryInv
<1> SUFFICES ASSUME DiscoveryInit
             PROVE  DiscoveryInv
  OBVIOUS
<1> USE DEF DiscoveryInit
<1>1. DiscoveryTypes
  <2>1. <<>> \in Seq(Attempt)
    OBVIOUS
  <2>2. row \in [Batch -> [Target -> Seq(Attempt)]]
    BY <2>1
  <2>3. QED
    BY <2>2 DEF DiscoveryTypes, Manifest, Phases
<1>2. Processes
  BY DEF Processes, Root, Hand, Executing, Loaded, InHand, Phases
<1>3. TaskLimit \in Nat /\ MaxAttempts \in Nat
  BY DiscoveryAssumption DEF ManifestBounds
<1>4. ValidRow(<<>>)
  BY <1>3 DEF ValidRow
<1>5. Books
  <2>1. \A b \in Batch : ValidBatch(b)
    BY <1>3, <1>4, FS_EmptySet DEF ValidBatch
  <2>2. \A b \in Batch, t \in Target : sent[b][t] <= Len(row[b][t])
    OBVIOUS
  <2>3. QED
    BY <2>1, <2>2 DEF Books
<1>6. QED
  BY <1>1, <1>2, <1>5 DEF DiscoveryInv

LEMMA BooksStay ==
    ASSUME Books, UNCHANGED <<manifest, row, ledger, sent, astray>>
    PROVE  Books'
BY DEF Books, ValidBatch

\* Planning touches nothing on disk.
LEMMA BeginKeepsInv ==
    ASSUME DiscoveryInv, NEW p \in Process, NEW b \in Batch,
           NEW targets \in SUBSET Target, Begin(p, b, targets),
           targets # {}, Cardinality(targets) <= TaskLimit
    PROVE  DiscoveryInv'
<1> USE DEF Begin, disk, ghost
<1>1. DiscoveryTypes'
  BY DEF DiscoveryInv, DiscoveryTypes, MoveTo, Manifest, Phases
<1>2. Books'
  BY BooksStay DEF DiscoveryInv
<1>3. /\ phase'[p] = "planned" /\ batch'[p] = b /\ plan'[p] = targets
      /\ \A q \in Process \ {p} : Apart(q)
  BY DEF DiscoveryInv, DiscoveryTypes, MoveTo, Apart
<1>4. Root(p)' /\ Hand(p)'
  BY <1>3 DEF Root, Hand, Executing, Loaded, InHand, Phases
<1>5. ASSUME NEW q \in Process \ {p}
      PROVE  Root(q)' /\ Hand(q)'
  <2>1. Root(q) /\ Hand(q) /\ Apart(q)
    BY <1>3 DEF DiscoveryInv, Processes
  <2>2. phase[q] \in Executing => holder' = q
    BY <2>1 DEF Root
  <2>3. QED
    BY <2>1, <2>2, BystanderStays
<1>6. QED
  BY <1>1, <1>2, <1>4, <1>5 DEF DiscoveryInv, Processes

LEMMA PlanKeepsInv ==
    ASSUME DiscoveryInv, NEW p \in Process, Plan(p)
    PROVE  DiscoveryInv'
<1>1. PICK b \in Batch, from \in SUBSET Target :
        Select(from) # {} /\ Begin(p, b, Select(from))
  <2>1. PICK b \in Batch, refresh \in BOOLEAN :
            LET targets == Select(IF refresh THEN Target
                                  ELSE Target \ Completed)
            IN  targets # {} /\ Begin(p, b, targets)
    BY DEF Plan
  <2>2. (IF refresh THEN Target ELSE Target \ Completed) \in SUBSET Target
    OBVIOUS
  <2>3. QED
    BY <2>1, <2>2
<1>2. QED
  BY <1>1, SelectIsBounded, BeginKeepsInv

LEMMA ResumeKeepsInv ==
    ASSUME DiscoveryInv, NEW p \in Process, Resume(p)
    PROVE  DiscoveryInv'
<1>1. PICK b \in Batch : Made(b) /\ Begin(p, b, manifest[b])
  BY DEF Resume
<1>2. /\ manifest[b] \in SUBSET Target /\ manifest[b] # {}
      /\ Cardinality(manifest[b]) <= TaskLimit
  BY <1>1 DEF DiscoveryInv, DiscoveryTypes, Manifest, Made, Books, ValidBatch
<1>3. QED
  BY <1>1, <1>2, BeginKeepsInv

\* A command that ends while it moves nothing on disk.
LEMMA EndKeepsInv ==
    ASSUME DiscoveryInv, NEW p \in Process, EndCommand(p),
           UNCHANGED <<manifest, row, ledger, sent, astray>>,
           litter' \in BOOLEAN
    PROVE  DiscoveryInv'
<1>1. Books'
  BY BooksStay DEF DiscoveryInv
<1>2. DiscoveryTypes' /\ Processes'
  BY EndedCommand DEF DiscoveryInv, DiscoveryTypes
<1>3. QED
  BY <1>1, <1>2 DEF DiscoveryInv

LEMMA LockKeepsInv ==
    ASSUME DiscoveryInv, NEW p \in Process, Lock(p)
    PROVE  DiscoveryInv'
<1> USE DEF disk, ghost
<1>1. CASE holder = None
  <2>1. /\ holder' = p
        /\ phase' = [phase EXCEPT ![p] =
                        IF Made(batch[p]) THEN "opening" ELSE "staging"]
        /\ UNCHANGED <<word, batch, plan, rest, answer, manifest, row, litter,
                       ledger, sent, astray>>
    BY <1>1 DEF Lock, MoveTo
  <2>2. phase[p] = "planned"
    BY DEF Lock
  <2>3. DiscoveryTypes'
    BY <2>1 DEF DiscoveryInv, DiscoveryTypes, Phases
  <2>4. Books'
    BY <2>1, BooksStay DEF DiscoveryInv
  <2>5. /\ phase'[p] = IF Made(batch[p]) THEN "opening" ELSE "staging"
        /\ \A q \in Process \ {p} : Apart(q)
    BY <2>1 DEF DiscoveryInv, DiscoveryTypes, Apart
  <2>6. Root(p)'
    <3>1. Root(p)
      BY DEF DiscoveryInv, Processes
    <3>2. Made(batch[p])' <=> Made(batch[p])
      BY <2>1 DEF Made
    <3>3. QED
      BY <2>1, <2>2, <2>5, <3>1, <3>2
      DEF Root, Executing, Loaded, InHand, Phases
  <2>7. Hand(p)'
    BY <2>5 DEF Hand
  <2>8. ASSUME NEW q \in Process \ {p}
        PROVE  Root(q)' /\ Hand(q)'
    <3>1. Root(q) /\ Hand(q) /\ Apart(q)
      BY <2>5 DEF DiscoveryInv, Processes
    <3>2. phase[q] \notin Executing
      BY <1>1, <3>1, DiscoveryAssumption DEF Root
    <3>3. QED
      BY <3>1, <3>2, BystanderStays
  <2>9. QED
    BY <2>3, <2>4, <2>6, <2>7, <2>8 DEF DiscoveryInv, Processes
<1>2. CASE holder # None
  BY <1>2, EndKeepsInv DEF Lock, DiscoveryInv, DiscoveryTypes
<1>3. QED
  BY <1>1, <1>2

\* The directory of a batch appears complete, with no attempt in it.
LEMMA StageKeepsInv ==
    ASSUME DiscoveryInv, NEW p \in Process, Stage(p)
    PROVE  DiscoveryInv'
<1> DEFINE b == batch[p]
<1> USE DEF DiscoveryInv
<1>1. /\ manifest' = [manifest EXCEPT ![b] = plan[p]]
      /\ phase' = [phase EXCEPT ![p] = "opening"]
      /\ UNCHANGED <<row, litter, ledger, holder, word, batch, plan, rest,
                     answer, sent, astray>>
      /\ phase[p] = "staging"
  BY DEF Stage, MoveTo, ghost
<1>2. Root(p)
  BY DEF Processes
<1>3. /\ b \in Batch /\ ~Made(b) /\ holder = p
      /\ plan[p] # {} /\ Cardinality(plan[p]) <= TaskLimit
  BY <1>1, <1>2 DEF Root, Executing, Phases
<1>4. DiscoveryTypes'
  BY <1>1 DEF DiscoveryTypes, Phases
<1>5. /\ manifest'[b] = plan[p]
      /\ \A c \in Batch \ {b} : manifest'[c] = manifest[c]
      /\ phase'[p] = "opening"
      /\ \A q \in Process \ {p} : Apart(q)
  BY <1>1, <1>3 DEF DiscoveryTypes, Apart
<1>6. Root(p)' /\ Hand(p)'
  BY <1>1, <1>3, <1>5
  DEF Root, Hand, Made, Executing, Loaded, InHand, Phases
<1>7. Processes'
  BY <1>1, <1>5, <1>6, MoverAlone DEF Executing, Phases
<1>8. MaxAttempts \in Nat
  BY DiscoveryAssumption DEF ManifestBounds
<1>9. \A t \in Target : row[b][t] = <<>>
  BY <1>3 DEF Books, ValidBatch, Made
<1>10. ValidRow(<<>>)
  BY <1>8 DEF ValidRow
<1>11. ASSUME NEW c \in Batch
       PROVE  ValidBatch(c)'
  <2>1. CASE c = b
    BY <1>1, <1>3, <1>5, <1>9, <1>10, <2>1 DEF ValidBatch
  <2>2. CASE c # b
    BY <1>1, <1>5, <2>2 DEF Books, ValidBatch
  <2>3. QED
    BY <2>1, <2>2
<1>12. Books'
  BY <1>1, <1>11 DEF Books
<1>13. QED
  BY <1>4, <1>7, <1>12

\* A holder that moves on, the disk as it was.
LEMMA MoveKeepsInv ==
    ASSUME DiscoveryInv, NEW p \in Process, phase[p] \in Executing,
           UNCHANGED <<manifest, row, ledger, sent, astray>>,
           DiscoveryTypes', \A q \in Process \ {p} : Apart(q),
           Root(p)', Hand(p)'
    PROVE  DiscoveryInv'
BY BooksStay, MoverAlone DEF DiscoveryInv

LEMMA OpenKeepsInv ==
    ASSUME DiscoveryInv, NEW p \in Process, Open(p)
    PROVE  DiscoveryInv'
<1> USE DEF disk, ghost
<1>1. CASE EndCommand(p)
  BY <1>1, EndKeepsInv DEF Open, DiscoveryInv, DiscoveryTypes
<1>2. CASE ~EndCommand(p)
  <2>1. /\ rest' = [rest EXCEPT ![p] = manifest[batch[p]]]
        /\ phase' = [phase EXCEPT ![p] = "task"]
        /\ UNCHANGED <<word, batch, plan, answer, holder, manifest, row,
                       litter, ledger, sent, astray>>
        /\ phase[p] = "opening"
    BY <1>2 DEF Open, MoveTo
  <2>2. Root(p)
    BY DEF DiscoveryInv, Processes
  <2>3. batch[p] \in Batch /\ Made(batch[p]) /\ holder = p
    BY <2>1, <2>2 DEF Root, Executing, Phases
  <2>4. DiscoveryTypes'
    BY <2>1, <2>3 DEF DiscoveryInv, DiscoveryTypes, Phases
  <2>5. /\ rest'[p] = manifest[batch[p]] /\ phase'[p] = "task"
        /\ \A q \in Process \ {p} : Apart(q)
    BY <2>1 DEF DiscoveryInv, DiscoveryTypes, Apart
  <2>6. Root(p)' /\ Hand(p)'
    BY <2>1, <2>3, <2>5
    DEF Root, Hand, Made, Executing, Loaded, InHand, Phases
  <2>7. QED
    BY <2>1, <2>4, <2>5, <2>6, MoveKeepsInv DEF Executing, Phases
<1>3. QED
  BY <1>1, <1>2

LEMMA SkipTaskKeepsInv ==
    ASSUME DiscoveryInv, NEW p \in Process, SkipTask(p)
    PROVE  DiscoveryInv'
<1>1. /\ rest' = [rest EXCEPT ![p] = @ \ {Current(p)}]
      /\ UNCHANGED <<manifest, row, litter, ledger, holder, phase, word, batch,
                     plan, answer, sent, astray>>
      /\ phase[p] = "task"
  BY DEF SkipTask, disk, ghost
<1>2. DiscoveryTypes'
  BY <1>1 DEF DiscoveryInv, DiscoveryTypes, Manifest
<1>3. /\ rest'[p] \subseteq rest[p]
      /\ \A q \in Process \ {p} : Apart(q)
  BY <1>1 DEF DiscoveryInv, DiscoveryTypes, Apart
<1>4. Root(p)
  BY DEF DiscoveryInv, Processes
<1>5. Root(p)' /\ Hand(p)'
  BY <1>1, <1>3, <1>4 DEF Root, Hand, Made, Executing, Loaded, InHand, Phases
<1>6. QED
  BY <1>1, <1>2, <1>3, <1>5, MoveKeepsInv DEF Executing, Phases

\* The row a process looks at is one of its batch.
LEMMA RowLookedAt ==
    ASSUME DiscoveryInv, NEW p \in Process, phase[p] \in Loaded, rest[p] # {}
    PROVE  /\ batch[p] \in Batch /\ Current(p) \in Target
           /\ Current(p) \in manifest[batch[p]]
           /\ HandRow(p) \in Seq(Attempt) /\ ValidRow(HandRow(p))
           /\ phase[p] \in Executing /\ holder = p /\ Made(batch[p])
<1>1. Root(p)
  BY DEF DiscoveryInv, Processes
<1>2. /\ phase[p] \in Executing /\ phase[p] # "idle" /\ phase[p] # "staging"
  BY DEF Loaded, Executing
<1>3. /\ batch[p] \in Batch /\ holder = p /\ Made(batch[p])
      /\ rest[p] \subseteq manifest[batch[p]]
  BY <1>1, <1>2 DEF Root
<1>4. Current(p) \in rest[p] /\ Current(p) \in Target
  BY CurrentIsInRest DEF DiscoveryInv
<1>5. HandRow(p) \in Seq(Attempt) /\ ValidRow(HandRow(p))
  BY <1>3, <1>4
  DEF HandRow, DiscoveryInv, DiscoveryTypes, Books, ValidBatch
<1>6. QED
  BY <1>2, <1>3, <1>4, <1>5

LEMMA TakeTaskKeepsInv ==
    ASSUME DiscoveryInv, NEW p \in Process, TakeTask(p)
    PROVE  DiscoveryInv'
<1>1. /\ phase' = [phase EXCEPT ![p] = "begin"]
      /\ UNCHANGED <<manifest, row, litter, ledger, holder, word, batch, plan,
                     rest, answer, sent, astray>>
      /\ phase[p] = "task" /\ rest[p] # {}
  BY DEF TakeTask, MoveTo, disk, ghost
<1>2. DiscoveryTypes'
  BY <1>1 DEF DiscoveryInv, DiscoveryTypes, Phases
<1>3. phase'[p] = "begin" /\ \A q \in Process \ {p} : Apart(q)
  BY <1>1 DEF DiscoveryInv, DiscoveryTypes, Apart
<1>4. Root(p)
  BY DEF DiscoveryInv, Processes
<1>5. Root(p)'
  BY <1>1, <1>3, <1>4 DEF Root, Made, Executing, Loaded, InHand, Phases
<1>6. StatusOf(HandRow(p)) \in {"pending", "retryable_failure"}
  BY DEF TakeTask, Skipped, Status, HandRow, Terminal, StatusOf
<1>7. HandRow(p)' = HandRow(p)
  BY <1>1 DEF HandRow, Current
<1>8. Hand(p)'
  BY <1>3, <1>6, <1>7 DEF Hand
<1>9. QED
  BY <1>1, <1>2, <1>3, <1>5, <1>8, MoveKeepsInv DEF Executing, Phases

LEMMA RefuseCallKeepsInv ==
    ASSUME DiscoveryInv, NEW p \in Process, RefuseCall(p)
    PROVE  DiscoveryInv'
<1>1. /\ phase' = [phase EXCEPT ![p] = "store"]
      /\ UNCHANGED <<manifest, row, litter, ledger, holder, word, batch, plan,
                     rest, sent, astray>>
      /\ phase[p] = "call"
  BY DEF RefuseCall, MoveTo, disk, ghost
<1>2. PICK o \in Outcome : answer' = [answer EXCEPT ![p] = o]
  BY DEF RefuseCall, Outcome
<1>3. DiscoveryTypes'
  BY <1>1, <1>2 DEF DiscoveryInv, DiscoveryTypes, Phases
<1>4. /\ phase'[p] = "store" /\ answer'[p] = o
      /\ \A q \in Process \ {p} : Apart(q)
  BY <1>1, <1>2 DEF DiscoveryInv, DiscoveryTypes, Apart
<1>5. Root(p) /\ Hand(p)
  BY DEF DiscoveryInv, Processes
<1>6. Root(p)'
  BY <1>1, <1>4, <1>5 DEF Root, Made, Executing, Loaded, InHand, Phases
<1>7. HandRow(p)' = HandRow(p)
  BY <1>1 DEF HandRow, Current
<1>8. Hand(p)'
  BY <1>1, <1>4, <1>5, <1>7 DEF Hand
<1>9. QED
  BY <1>1, <1>3, <1>4, <1>6, <1>8, MoveKeepsInv DEF Executing, Phases

\* A write of the row in hand, in the place of no longer row.
LEMMA HandRowWritten ==
    ASSUME DiscoveryInv, NEW p \in Process, phase[p] \in Loaded, rest[p] # {},
           NEW attempts \in Seq(Attempt), ValidRow(attempts),
           Len(HandRow(p)) <= Len(attempts),
           Store(batch[p], Current(p), attempts),
           UNCHANGED <<manifest, ledger, sent, astray>>
    PROVE  /\ row' \in [Batch -> [Target -> Seq(Attempt)]]
           /\ row'[batch[p]][Current(p)] = attempts
           /\ \A c \in Batch, u \in Target :
                c # batch[p] \/ u # Current(p) => row'[c][u] = row[c][u]
           /\ Books'
<1>1. /\ batch[p] \in Batch /\ Current(p) \in Target
      /\ Current(p) \in manifest[batch[p]]
  BY RowLookedAt
<1>2. Books'
  BY <1>1, StoredBooks DEF DiscoveryInv, HandRow
<1>3. QED
  BY <1>1, <1>2, StoredRow DEF DiscoveryInv

\* The row of an interrupted call.
LEMMA RecoverFacts ==
    ASSUME DiscoveryInv, NEW p \in Process, Recover(p)
    PROVE  /\ phase[p] \in Loaded /\ rest[p] # {}
           /\ HandRow(p) # <<>> /\ Last(HandRow(p)) = "in_flight"
<1>1. HandRow(p) # <<>> /\ Last(HandRow(p)) = "in_flight"
  BY DEF Recover, Status, HandRow, StatusOf
<1>2. QED
  BY <1>1 DEF Recover, Loaded, Executing, Phases

LEMMA RecoverKeepsInv ==
    ASSUME DiscoveryInv, NEW p \in Process, Recover(p)
    PROVE  DiscoveryInv'
<1> DEFINE closed == Append(Front(HandRow(p)), "indeterminate")
<1>1. /\ UNCHANGED <<manifest, litter, ledger, holder, phase, word, batch, plan,
                     rest, answer, sent, astray>>
      /\ phase[p] = "task"
      /\ Store(batch[p], Current(p), closed)
  BY DEF Recover, HandRow, local, ghost
<1>2. phase[p] \in Loaded /\ rest[p] # {} /\ HandRow(p) # <<>>
  BY RecoverFacts
<1>3. HandRow(p) \in Seq(Attempt) /\ ValidRow(HandRow(p))
  BY <1>2, RowLookedAt
<1>4. /\ closed \in Seq(Attempt) /\ ValidRow(closed)
      /\ Len(closed) = Len(HandRow(p))
  BY <1>2, <1>3, ClosedRow DEF Attempt, Outcome
<1>5. Len(HandRow(p)) <= Len(closed)
  BY <1>3, <1>4
<1>6. row' \in [Batch -> [Target -> Seq(Attempt)]] /\ Books'
  <2> HIDE DEF closed
  <2>1. QED
    BY <1>1, <1>2, <1>4, <1>5, HandRowWritten
<1>7. DiscoveryTypes'
  BY <1>1, <1>6 DEF DiscoveryInv, DiscoveryTypes
<1>8. Root(p)
  BY DEF DiscoveryInv, Processes
<1>9. Root(p)' /\ Hand(p)'
  BY <1>1, <1>8 DEF Root, Hand, Made
<1>10. Processes'
  BY <1>1, <1>9, MoverAlone DEF DiscoveryInv, Apart, Executing, Phases
<1>11. QED
  BY <1>6, <1>7, <1>10 DEF DiscoveryInv

\* The marker is on disk, and with it room for the request that leaves next.
LEMMA BeginAttemptKeepsInv ==
    ASSUME DiscoveryInv, NEW p \in Process, BeginAttempt(p)
    PROVE  DiscoveryInv'
<1> DEFINE opened == Append(HandRow(p), "in_flight")
<1>1. /\ phase' = [phase EXCEPT ![p] = "call"]
      /\ UNCHANGED <<manifest, litter, ledger, holder, word, batch, plan, rest,
                     answer, sent, astray>>
      /\ phase[p] = "begin"
      /\ Store(batch[p], Current(p), opened)
  BY DEF BeginAttempt, HandRow, MoveTo, ghost
<1>2. Root(p) /\ Hand(p)
  BY DEF DiscoveryInv, Processes
<1>3. phase[p] \in Loaded /\ rest[p] # {}
  BY <1>1, <1>2 DEF Root, InHand, Loaded, Executing, Phases
<1>4. /\ HandRow(p) \in Seq(Attempt) /\ ValidRow(HandRow(p))
      /\ batch[p] \in Batch /\ Current(p) \in Target
  BY <1>3, RowLookedAt
<1>5. StatusOf(HandRow(p)) \in {"pending", "retryable_failure"}
  BY <1>1, <1>2 DEF Hand
<1>6. /\ opened \in Seq(Attempt) /\ ValidRow(opened)
      /\ opened # <<>> /\ Last(opened) = "in_flight"
      /\ Len(opened) = Len(HandRow(p)) + 1
  BY <1>4, <1>5, OpenedRow
<1>7. Len(HandRow(p)) <= Len(opened)
  BY <1>4, <1>6
<1>8. /\ row' \in [Batch -> [Target -> Seq(Attempt)]] /\ Books'
      /\ row'[batch[p]][Current(p)] = opened
  <2> HIDE DEF opened
  <2>1. QED
    BY <1>1, <1>3, <1>6, <1>7, HandRowWritten
<1>9. DiscoveryTypes'
  BY <1>1, <1>8 DEF DiscoveryInv, DiscoveryTypes, Phases
<1>10. phase'[p] = "call" /\ \A q \in Process \ {p} : Apart(q)
  BY <1>1 DEF DiscoveryInv, DiscoveryTypes, Apart
<1>11. Root(p)'
  BY <1>1, <1>2, <1>10 DEF Root, Made, Executing, Loaded, InHand, Phases
<1>12. HandRow(p)' = opened /\ Current(p)' = Current(p)
  BY <1>1, <1>8 DEF HandRow, Current
<1>13. sent[batch[p]][Current(p)] < Len(opened)
  <2>1. /\ sent[batch[p]][Current(p)] <= Len(HandRow(p))
        /\ sent[batch[p]][Current(p)] \in Nat
    BY <1>4 DEF DiscoveryInv, DiscoveryTypes, Books, HandRow
  <2>2. Len(HandRow(p)) \in Nat
    BY <1>4
  <2>3. QED
    BY <1>6, <2>1, <2>2
<1>14. Hand(p)'
  <2> HIDE DEF opened
  <2>1. QED
    BY <1>1, <1>6, <1>10, <1>12, <1>13 DEF Hand
<1>15. Processes'
  BY <1>1, <1>10, <1>11, <1>14, MoverAlone
  DEF DiscoveryInv, Executing, Phases
<1>16. QED
  BY <1>8, <1>9, <1>15 DEF DiscoveryInv

\* A request leaves: it is counted, and its answer is nobody's so far.
LEMMA SendKeepsInv ==
    ASSUME DiscoveryInv, NEW p \in Process, Send(p)
    PROVE  DiscoveryInv'
<1> DEFINE b == batch[p]
           t == Current(p)
<1>1. /\ phase' = [phase EXCEPT ![p] = "wait"]
      /\ ledger' = [ledger EXCEPT ![t] = "in_flight"]
      /\ sent' = [sent EXCEPT ![b][t] = @ + 1]
      /\ astray' = astray \cup {t}
      /\ UNCHANGED <<manifest, row, litter, holder, word, batch, plan, rest,
                     answer>>
      /\ phase[p] = "call"
  BY DEF Send, MoveTo, disk
<1>2. Root(p) /\ Hand(p)
  BY DEF DiscoveryInv, Processes
<1>3. phase[p] \in Loaded /\ rest[p] # {}
  BY <1>1, <1>2 DEF Root, InHand, Loaded, Executing, Phases
<1>4. /\ b \in Batch /\ t \in Target
      /\ HandRow(p) \in Seq(Attempt)
  BY <1>3, RowLookedAt
<1>5. /\ sent \in [Batch -> [Target -> Nat]]
      /\ sent[b][t] \in Nat /\ sent[b][t] < Len(HandRow(p))
  BY <1>1, <1>2, <1>4 DEF Hand, DiscoveryInv, DiscoveryTypes
<1>6. /\ sent' \in [Batch -> [Target -> Nat]]
      /\ sent'[b][t] = sent[b][t] + 1
      /\ \A c \in Batch, u \in Target :
            c # b \/ u # t => sent'[c][u] = sent[c][u]
  <2> HIDE DEF b, t
  <2>1. QED
    BY <1>1, <1>4, <1>5
<1>7. DiscoveryTypes'
  <2> HIDE DEF b, t
  <2>1. QED
    BY <1>1, <1>4, <1>6 DEF DiscoveryInv, DiscoveryTypes, Phases
<1>8. phase'[p] = "wait" /\ \A q \in Process \ {p} : Apart(q)
  BY <1>1 DEF DiscoveryInv, DiscoveryTypes, Apart
<1>9. Root(p)'
  BY <1>1, <1>2, <1>8 DEF Root, Made, Executing, Loaded, InHand, Phases
<1>10. HandRow(p)' = HandRow(p)
  BY <1>1 DEF HandRow, Current
<1>11. Hand(p)'
  BY <1>1, <1>2, <1>8, <1>10 DEF Hand
<1>12. Processes'
  BY <1>1, <1>8, <1>9, <1>11, MoverAlone
  DEF DiscoveryInv, Executing, Phases
<1>13. \A c \in Batch : ValidBatch(c)'
  BY <1>1 DEF DiscoveryInv, Books, ValidBatch
<1>14. ASSUME NEW c \in Batch, NEW u \in Target
       PROVE  sent'[c][u] <= Len(row'[c][u])
  <2>1. CASE c = b /\ u = t
    <3>1. Len(HandRow(p)) \in Nat
      BY <1>4
    <3>2. sent[b][t] + 1 <= Len(HandRow(p))
      BY <1>5, <3>1
    <3>3. QED
      BY <1>1, <1>6, <2>1, <3>2 DEF HandRow
  <2>2. CASE c # b \/ u # t
    BY <1>1, <1>6, <2>2 DEF DiscoveryInv, Books
  <2>3. QED
    BY <2>1, <2>2
<1>15. \A u \in astray' : ledger'[u] \in {"in_flight", "indeterminate"}
  <2> HIDE DEF b, t
  <2>1. QED
    BY <1>1, <1>4 DEF DiscoveryInv, DiscoveryTypes, Books
<1>16. Books'
  BY <1>13, <1>14, <1>15 DEF Books
<1>17. QED
  BY <1>7, <1>12, <1>16 DEF DiscoveryInv

LEMMA AnswerKeepsInv ==
    ASSUME DiscoveryInv, NEW p \in Process, Answer(p)
    PROVE  DiscoveryInv'
<1> DEFINE t == Current(p)
<1>1. PICK o \in Outcome :
        /\ answer' = [answer EXCEPT ![p] = o]
        /\ ledger' = [ledger EXCEPT ![t] =
                        IF o = "indeterminate" THEN o ELSE "closed"]
        /\ astray' = IF o = "indeterminate" THEN astray ELSE astray \ {t}
  BY DEF Answer
<1>2. /\ phase' = [phase EXCEPT ![p] = "store"]
      /\ UNCHANGED <<manifest, row, litter, holder, word, batch, plan, rest,
                     sent>>
      /\ phase[p] = "wait"
  BY DEF Answer, MoveTo, disk
<1>3. Root(p) /\ Hand(p)
  BY DEF DiscoveryInv, Processes
<1>4. phase[p] \in Loaded /\ rest[p] # {}
  BY <1>2, <1>3 DEF Root, InHand, Loaded, Executing, Phases
<1>5. t \in Target
  BY <1>4, RowLookedAt
<1>6. DiscoveryTypes'
  <2> HIDE DEF t
  <2>1. QED
    BY <1>1, <1>2, <1>5 DEF DiscoveryInv, DiscoveryTypes, Phases
<1>7. /\ phase'[p] = "store" /\ answer'[p] = o
      /\ \A q \in Process \ {p} : Apart(q)
  BY <1>1, <1>2 DEF DiscoveryInv, DiscoveryTypes, Apart
<1>8. Root(p)'
  BY <1>2, <1>3, <1>7 DEF Root, Made, Executing, Loaded, InHand, Phases
<1>9. HandRow(p)' = HandRow(p)
  BY <1>2 DEF HandRow, Current
<1>10. Hand(p)'
  BY <1>2, <1>3, <1>7, <1>9 DEF Hand
<1>11. Processes'
  BY <1>2, <1>7, <1>8, <1>10, MoverAlone
  DEF DiscoveryInv, Executing, Phases
<1>12. \A u \in astray' : ledger'[u] \in {"in_flight", "indeterminate"}
  <2> HIDE DEF t
  <2>1. QED
    BY <1>1, <1>5 DEF DiscoveryInv, DiscoveryTypes, Books
<1>13. Books'
  BY <1>2, <1>12 DEF DiscoveryInv, Books, ValidBatch
<1>14. QED
  BY <1>6, <1>11, <1>13 DEF DiscoveryInv

LEMMA CompleteKeepsInv ==
    ASSUME DiscoveryInv, NEW p \in Process, Complete(p)
    PROVE  DiscoveryInv'
<1> DEFINE o == answer[p]
           closed == Append(Front(HandRow(p)), o)
<1>1. /\ phase[p] = "store"
      /\ UNCHANGED <<manifest, litter, ledger, sent, astray>>
      /\ Store(batch[p], Current(p), closed)
  BY DEF Complete, HandRow, ghost
<1>2. Root(p) /\ Hand(p)
  BY DEF DiscoveryInv, Processes
<1>3. /\ phase[p] \in Loaded /\ phase[p] \in Executing /\ rest[p] # {}
      /\ HandRow(p) # <<>> /\ o \in Outcome
  BY <1>1, <1>2 DEF Root, Hand, InHand, Loaded, Executing, Phases
<1>4. HandRow(p) \in Seq(Attempt) /\ ValidRow(HandRow(p))
  BY <1>3, RowLookedAt
<1>5. /\ closed \in Seq(Attempt) /\ ValidRow(closed)
      /\ Len(closed) = Len(HandRow(p))
  BY <1>3, <1>4, ClosedRow DEF Attempt
<1>6. Len(HandRow(p)) <= Len(closed)
  BY <1>4, <1>5
<1>7. /\ row' \in [Batch -> [Target -> Seq(Attempt)]] /\ Books'
      /\ row'[batch[p]][Current(p)] = closed
  <2> HIDE DEF closed
  <2>1. QED
    BY <1>1, <1>3, <1>5, <1>6, HandRowWritten
<1>8. CASE EndCommand(p)
  <2>1. Processes' /\ DiscoveryTypes'
    BY <1>1, <1>3, <1>7, <1>8, EndedCommand DEF DiscoveryInv, DiscoveryTypes
  <2>2. QED
    BY <1>7, <2>1 DEF DiscoveryInv
<1>9. CASE ~EndCommand(p)
  <2> DEFINE next == IF StatusOf(closed) = "retryable_failure"
                     THEN "begin" ELSE "task"
  <2>1. /\ answer' = [answer EXCEPT ![p] = None]
        /\ phase' = [phase EXCEPT ![p] = next]
        /\ UNCHANGED <<word, batch, plan, rest, holder>>
    BY <1>9 DEF Complete, MoveTo, HandRow
  <2>2. DiscoveryTypes'
    BY <1>1, <1>7, <2>1 DEF DiscoveryInv, DiscoveryTypes, Phases
  <2>3. phase'[p] = next /\ \A q \in Process \ {p} : Apart(q)
    BY <2>1 DEF DiscoveryInv, DiscoveryTypes, Apart
  <2>4. Root(p)'
    BY <1>1, <1>2, <2>1, <2>3
    DEF Root, Made, Executing, Loaded, InHand, Phases
  <2>5. HandRow(p)' = closed
    BY <1>7, <2>1 DEF HandRow, Current
  <2>6. Hand(p)'
    BY <2>3, <2>5 DEF Hand
  <2>7. Processes'
    BY <1>3, <2>3, <2>4, <2>6, MoverAlone DEF DiscoveryInv
  <2>8. QED
    BY <1>7, <2>2, <2>7 DEF DiscoveryInv
<1>10. QED
  BY <1>8, <1>9

\* However commands plan, stage, are killed and resume: the root is executed
\* by its holder alone, the row in hand bears the marker from begin_attempt
\* to its outcome, no row has more requests behind it than attempts on it,
\* every batch is one that validate_batch accepts, and an answer nobody kept
\* is remembered by the account's ledger.
THEOREM DiscoveryInvHolds == DiscoverySpec => []DiscoveryInv
<1>1. DiscoveryInit => DiscoveryInv
  BY DiscoveryInitInv
<1>2. DiscoveryInv /\ [DiscoveryNext]_discoveryVars => DiscoveryInv'
  <2> SUFFICES ASSUME DiscoveryInv, [DiscoveryNext]_discoveryVars
               PROVE  DiscoveryInv'
    OBVIOUS
  <2>1. CASE UNCHANGED discoveryVars
    <3>1. UNCHANGED <<manifest, row, litter, ledger, holder, phase, word,
                      batch, plan, rest, answer, sent, astray>>
      BY <2>1 DEF discoveryVars, disk, local, ghost
    <3>2. DiscoveryTypes'
      BY <3>1 DEF DiscoveryInv, DiscoveryTypes
    <3>3. Books'
      BY <3>1, BooksStay DEF DiscoveryInv
    <3>4. ASSUME NEW q \in Process
          PROVE  Root(q)' /\ Hand(q)'
      <4>1. Root(q) /\ Hand(q) /\ Apart(q)
        BY <3>1 DEF DiscoveryInv, Processes, Apart
      <4>2. phase[q] \in Executing => holder' = q
        BY <3>1, <4>1 DEF Root
      <4>3. QED
        BY <3>1, <4>1, <4>2, BystanderStays
    <3>5. QED
      BY <3>2, <3>3, <3>4 DEF DiscoveryInv, Processes
  <2>2. ASSUME NEW p \in Process, Plan(p)
        PROVE  DiscoveryInv'
    BY <2>2, PlanKeepsInv
  <2>3. ASSUME NEW p \in Process, Resume(p)
        PROVE  DiscoveryInv'
    BY <2>3, ResumeKeepsInv
  <2>4. ASSUME NEW p \in Process, Lock(p)
        PROVE  DiscoveryInv'
    BY <2>4, LockKeepsInv
  <2>5. ASSUME NEW p \in Process, Stage(p)
        PROVE  DiscoveryInv'
    BY <2>5, StageKeepsInv
  <2>6. ASSUME NEW p \in Process, Open(p)
        PROVE  DiscoveryInv'
    BY <2>6, OpenKeepsInv
  <2>7. ASSUME NEW p \in Process, SkipTask(p)
        PROVE  DiscoveryInv'
    BY <2>7, SkipTaskKeepsInv
  <2>8. ASSUME NEW p \in Process, RefuseTask(p) \/ Finish(p)
        PROVE  DiscoveryInv'
    BY <2>8, EndKeepsInv
    DEF RefuseTask, Finish, disk, ghost, DiscoveryInv, DiscoveryTypes
  <2>9. ASSUME NEW p \in Process, Recover(p)
        PROVE  DiscoveryInv'
    BY <2>9, RecoverKeepsInv
  <2>10. ASSUME NEW p \in Process, TakeTask(p)
         PROVE  DiscoveryInv'
    BY <2>10, TakeTaskKeepsInv
  <2>11. ASSUME NEW p \in Process, BeginAttempt(p)
         PROVE  DiscoveryInv'
    BY <2>11, BeginAttemptKeepsInv
  <2>12. ASSUME NEW p \in Process, RefuseCall(p)
         PROVE  DiscoveryInv'
    BY <2>12, RefuseCallKeepsInv
  <2>13. ASSUME NEW p \in Process, Send(p)
         PROVE  DiscoveryInv'
    BY <2>13, SendKeepsInv
  <2>14. ASSUME NEW p \in Process, Answer(p)
         PROVE  DiscoveryInv'
    BY <2>14, AnswerKeepsInv
  <2>15. ASSUME NEW p \in Process, Complete(p)
         PROVE  DiscoveryInv'
    BY <2>15, CompleteKeepsInv
  <2>16. ASSUME NEW p \in Process, Kill(p)
         PROVE  DiscoveryInv'
    BY <2>16, EndKeepsInv DEF Kill, ghost, DiscoveryInv, DiscoveryTypes
  <2>17. QED
    BY <2>1, <2>2, <2>3, <2>4, <2>5, <2>6, <2>7, <2>8, <2>9, <2>10, <2>11,
       <2>12, <2>13, <2>14, <2>15, <2>16
    DEF DiscoveryNext
<1>3. QED
  BY <1>1, <1>2, PTL DEF DiscoverySpec

\* Whatever was killed and resumed, no more requests leave for a row than it
\* has attempts on disk, and every batch passes the validation that each
\* later run begins with (begin_attempt, complete_attempt, validate_batch).
THEOREM DiscoveryMoneyLeavesAMark == DiscoverySpec => []MoneyLeavesAMark
<1>1. DiscoveryInv => MoneyLeavesAMark
  <2> SUFFICES ASSUME DiscoveryInv
               PROVE  MoneyLeavesAMark
    OBVIOUS
  <2>1. DiscoveryTypeOK
    <3>1. \A p \in Process :
            /\ phase[p] \in { "idle", "planned", "staging", "opening",
                              "task", "begin", "call", "wait", "store" }
            /\ plan[p] \subseteq Target /\ rest[p] \subseteq Target
      BY DEF DiscoveryInv, DiscoveryTypes, Phases, Manifest
    <3>2. \A b \in Batch, t \in Target : row[b][t] \in Seq(Attempt)
      BY DEF DiscoveryInv, DiscoveryTypes
    <3>3. QED
      BY <3>1, <3>2 DEF DiscoveryInv, DiscoveryTypes, DiscoveryTypeOK
  <2>2. QED
    BY <2>1 DEF DiscoveryInv, Books, MoneyLeavesAMark
<1>2. QED
  BY <1>1, DiscoveryInvHolds, PTL

---------------------------------------------------------------------------
(***************************************************************************)
(* What a step may never do.                                               *)
(***************************************************************************)
\* The account's ledger refuses what was lost, of whatever batch.
LEMMA SendNeedsWord ==
    ASSUME DiscoveryInv, [DiscoveryNext]_discoveryVars
    PROVE  LostNeedsWord
<1> SUFFICES ASSUME NEW p \in Process, phase[p] = "call", phase'[p] = "wait",
                    Current(p) \in astray
             PROVE  word[p]
  BY DEF LostNeedsWord
<1>1. phase' # phase
  OBVIOUS
<1>2. PICK q \in Process :
        \/ Plan(q) \/ Resume(q) \/ Lock(q) \/ Stage(q)
        \/ Open(q) \/ SkipTask(q) \/ RefuseTask(q) \/ Recover(q)
        \/ TakeTask(q) \/ Finish(q) \/ BeginAttempt(q) \/ RefuseCall(q)
        \/ Send(q) \/ Answer(q) \/ Complete(q) \/ Kill(q)
  BY <1>1 DEF DiscoveryNext, discoveryVars, local
<1>3. phase \in [Process -> Phases]
  BY DEF DiscoveryInv, DiscoveryTypes
<1>4. CASE Send(q)
  <2>1. q = p
    BY <1>3, <1>4 DEF Send, MoveTo
  <2>2. ledger[Current(p)] \in {"in_flight", "indeterminate"}
    BY DEF DiscoveryInv, Books
  <2>3. QED
    BY <1>4, <2>1, <2>2 DEF Send, Refused
<1>5. CASE ~Send(q)
  <2>1. \/ phase' = phase
        \/ \E l \in Phases \ {"wait"} : phase' = [phase EXCEPT ![q] = l]
    BY <1>2, <1>5
    DEF Plan, Resume, Begin, Lock, Stage, Open, SkipTask, RefuseTask, Recover,
        TakeTask, Finish, BeginAttempt, RefuseCall, Answer, Complete, Kill,
        MoveTo, EndCommand, local, Phases
  <2>2. QED
    BY <1>3, <2>1
<1>6. QED
  BY <1>4, <1>5

\* Only the open attempt of a row is ever rewritten.
LEMMA RowsOnlyGrow ==
    ASSUME DiscoveryInv, NEW p \in Process, phase[p] \in Loaded, rest[p] # {},
           NEW attempts \in Seq(Attempt),
           Store(batch[p], Current(p), attempts),
           StatusOf(HandRow(p)) \notin Terminal,
           \A i \in DOMAIN HandRow(p) : HandRow(p)[i] # "in_flight" =>
                i \in DOMAIN attempts /\ attempts[i] = HandRow(p)[i]
    PROVE  EvidenceStands
<1> SUFFICES ASSUME NEW b \in Batch, NEW t \in Target
             PROVE  /\ Status(b, t) \in Terminal => row'[b][t] = row[b][t]
                    /\ \A i \in DOMAIN row[b][t] : row[b][t][i] # "in_flight" =>
                            i \in DOMAIN row'[b][t]
                            /\ row'[b][t][i] = row[b][t][i]
  BY DEF EvidenceStands
<1>1. batch[p] \in Batch /\ Current(p) \in Target
  BY RowLookedAt
<1>2. /\ row'[batch[p]][Current(p)] = attempts
      /\ \A c \in Batch, u \in Target :
            c # batch[p] \/ u # Current(p) => row'[c][u] = row[c][u]
  BY <1>1, StoredRow DEF DiscoveryInv
<1>3. CASE b = batch[p] /\ t = Current(p)
  BY <1>2, <1>3 DEF Status, HandRow
<1>4. CASE b # batch[p] \/ t # Current(p)
  BY <1>2, <1>4
<1>5. QED
  BY <1>3, <1>4

\* Closing the open attempt is such a rewriting.
LEMMA ClosingRewritesTheOpenOne ==
    ASSUME DiscoveryInv, NEW p \in Process, phase[p] \in Loaded, rest[p] # {},
           HandRow(p) # <<>>, Last(HandRow(p)) = "in_flight",
           NEW o \in Attempt,
           Store(batch[p], Current(p), Append(Front(HandRow(p)), o))
    PROVE  EvidenceStands
<1> DEFINE s == HandRow(p)
           closed == Append(Front(s), o)
<1>1. s \in Seq(Attempt) /\ ValidRow(s)
  BY RowLookedAt
<1>2. /\ closed \in Seq(Attempt) /\ Len(closed) = Len(s)
      /\ \A i \in 1..(Len(s) - 1) : closed[i] = s[i]
  BY <1>1, ClosedRow
<1>3. StatusOf(s) \notin Terminal
  BY DEF StatusOf, Terminal
<1>4. \A i \in DOMAIN s : s[i] # "in_flight" =>
        i \in DOMAIN closed /\ closed[i] = s[i]
  <2> HIDE DEF closed
  <2>1. Len(s) \in Nat /\ DOMAIN s = 1..Len(s) /\ DOMAIN closed = 1..Len(closed)
    BY <1>1, <1>2
  <2>2. s[Len(s)] = "in_flight"
    BY DEF Last
  <2>3. QED
    BY <1>2, <2>1, <2>2
<1>5. QED
  <2> HIDE DEF closed
  <2>1. Store(batch[p], Current(p), closed)
    BY DEF closed
  <2>2. QED
    BY <1>2, <1>3, <1>4, <2>1, RowsOnlyGrow

LEMMA StepKeepsEvidence ==
    ASSUME DiscoveryInv, [DiscoveryNext]_discoveryVars
    PROVE  EvidenceStands
<1>1. CASE row' = row
  BY <1>1 DEF EvidenceStands
<1>2. CASE row' # row
  <2>1. PICK p \in Process : Recover(p) \/ BeginAttempt(p) \/ Complete(p)
    BY <1>2
    DEF DiscoveryNext, discoveryVars, Plan, Resume, Begin, Lock, Stage, Open,
        SkipTask, RefuseTask, TakeTask, Finish, RefuseCall, Send, Answer, Kill,
        disk
  <2>2. Root(p) /\ Hand(p)
    BY DEF DiscoveryInv, Processes
  <2>3. CASE Recover(p)
    <3>1. /\ phase[p] \in Loaded /\ rest[p] # {}
          /\ HandRow(p) # <<>> /\ Last(HandRow(p)) = "in_flight"
      BY <2>3, RecoverFacts
    <3>2. Store(batch[p], Current(p),
                Append(Front(HandRow(p)), "indeterminate"))
      BY <2>3 DEF Recover, HandRow
    <3>3. QED
      BY <3>1, <3>2, ClosingRewritesTheOpenOne DEF Attempt, Outcome
  <2>4. CASE BeginAttempt(p)
    <3> DEFINE s == HandRow(p)
               opened == Append(s, "in_flight")
    <3>1. phase[p] \in Loaded /\ rest[p] # {}
      BY <2>2, <2>4 DEF BeginAttempt, Root, InHand, Loaded, Executing, Phases
    <3>2. StatusOf(s) \in {"pending", "retryable_failure"}
      BY <2>2, <2>4 DEF BeginAttempt, Hand
    <3>3. s \in Seq(Attempt) /\ ValidRow(s)
      BY <3>1, RowLookedAt
    <3>4. /\ opened \in Seq(Attempt) /\ Len(opened) = Len(s) + 1
          /\ \A i \in DOMAIN s : opened[i] = s[i]
      BY <3>2, <3>3, OpenedRow
    <3>5. \A i \in DOMAIN s : i \in DOMAIN opened
      <4> HIDE DEF opened
      <4>1. QED
        BY <3>3, <3>4
    <3>6. StatusOf(s) \notin Terminal
      BY <3>2 DEF Terminal
    <3>7. Store(batch[p], Current(p), opened)
      BY <2>4 DEF BeginAttempt, HandRow
    <3>8. QED
      <4> HIDE DEF opened
      <4>1. QED
        BY <3>1, <3>4, <3>5, <3>6, <3>7, RowsOnlyGrow
  <2>5. CASE Complete(p)
    <3>1. /\ phase[p] \in Loaded /\ rest[p] # {}
          /\ HandRow(p) # <<>> /\ Last(HandRow(p)) = "in_flight"
          /\ answer[p] \in Attempt
      BY <2>2, <2>5
      DEF Complete, Root, Hand, InHand, Loaded, Executing, Phases, Attempt
    <3>2. Store(batch[p], Current(p), Append(Front(HandRow(p)), answer[p]))
      BY <2>5 DEF Complete, HandRow
    <3>3. QED
      BY <3>1, <3>2, ClosingRewritesTheOpenOne
  <2>6. QED
    BY <2>1, <2>3, <2>4, <2>5
<1>3. QED
  BY <1>1, <1>2

\* A lost search is bought again only by a run allowed to, in this batch or
\* another; and what is on record stays (execute_batch, _reserve,
\* append_attempt).
THEOREM DiscoverySpentOnceAndKept == DiscoverySpec => SpentOnceAndKept
<1>1. DiscoveryInv /\ [DiscoveryNext]_discoveryVars
        => [LostNeedsWord /\ EvidenceStands]_discoveryVars
  BY SendNeedsWord, StepKeepsEvidence
<1>2. QED
  BY <1>1, DiscoveryInvHolds, PTL DEF DiscoverySpec, SpentOnceAndKept
================================================================================
