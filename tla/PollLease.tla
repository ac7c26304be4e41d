------------------------------- MODULE PollLease -------------------------------
(***************************************************************************)
(* The polling writer of grant_watch (poll_lease.py, cli.cmd_poll and the  *)
(* run bookkeeping of db.py).                                              *)
(*                                                                         *)
(* A cron tick or an operator starts a poller process.  It takes the one   *)
(* row of poll_locks if that row is absent or expired, which advances the  *)
(* fence token; a keeper thread renews the row through a connection of its *)
(* own while the poller blocks in HTTP; every write of the poller is a     *)
(* fenced transaction that checks the row at its start and again before it *)
(* commits.  Processes crash, hang, and wait for SQLite's write lock.      *)
(*                                                                         *)
(* Time.  Only differences of clock readings are ever compared, so the     *)
(* module keeps them relative to now: ttl = expires_at - now, elapsed[w] = *)
(* now - keeper start, and age = now - the reading a heartbeat took before *)
(* it queued for the write lock.  One clock: all pollers share a host.     *)
(*                                                                         *)
(* A poller is identified by its slot w.  The code draws a new uuid4 as    *)
(* owner for each invocation; giving a restarted slot its old name only    *)
(* weakens the owner check, so what holds here rests on the token.         *)
(***************************************************************************)
EXTENDS Integers, FiniteSets

CONSTANTS Worker,        \* poller processes that may be started
          NoWorker,      \* nobody
          Item,          \* leads the sources publish
          NoItem,
          NumSources,    \* active pollers, visited in registry order
          SourceOf,      \* Item -> 1..NumSources
          LeaseDuration, \* lease_seconds()
          MaxRuntime,    \* max_runtime_seconds()
          MaxLockWait,   \* SQLite busy_timeout
          MaxToken,      \* BOUND: takeovers explored
          MaxRuns        \* BOUND: run rows explored

RunId == 1..MaxRuns

ASSUME PollAssumption ==
    /\ NoWorker \notin Worker
    /\ NoItem \notin Item
    /\ NumSources \in Nat
    /\ SourceOf \in [Item -> 1..NumSources]
    /\ LeaseDuration \in Nat /\ LeaseDuration > 0
    /\ MaxRuntime \in Nat
    /\ MaxLockWait \in Nat
    /\ MaxLockWait < LeaseDuration   \* 10 s against at least 60 s
    /\ MaxToken \in Nat
    /\ MaxRuns \in Nat

VARIABLES
    \* the database
    fence,      \* poll_locks.fence_token, 0 when there is no row
    owner,      \* poll_locks.owner
    ttl,        \* poll_locks.expires_at - now, floored at -MaxLockWait
    writer,     \* who holds SQLite's write lock across steps
    leads,      \* leads rows
    confirmed,  \* leads.last_confirmed_run_id, 0 for none
    runs,       \* the runs table; gen is history: the token that opened it
    \* each poller process
    pc, tok,    \* control point; PollLease.token
    src,        \* sources started so far
    todo,       \* parsed items not yet handled
    cur,        \* the item being written
    seen,       \* confirmed_keys
    run,        \* run_id
    broken,     \* not stats.complete
    elapsed,    \* time since LeaseKeeper was built, capped at ElapsedCap
    age,        \* age of the clock reading of the checkpoint's heartbeat
    \* its keeper thread
    keeper,     \* off, on, or stray: not joined in time by __exit__
    kage,       \* age of the clock reading of the keeper's heartbeat
    lost        \* LeaseKeeper._lost

dbVars == <<fence, owner, ttl, writer, leads, confirmed, runs>>
pollVars == <<pc, tok, src, todo, cur, seen, run, broken>>
keepVars == <<keeper, kage, lost>>
vars == <<dbVars, pollVars, elapsed, age, keepVars>>

NotBeating == -1                         \* no heartbeat under way
Ages == NotBeating..MaxLockWait
ElapsedCap == MaxRuntime + LeaseDuration \* nothing distinguishes later times
NoRun == [state |-> "none", gen |-> 0]

Points == {"off", "loop", "begin", "fetch", "fetched", "items", "upsert",
           "resolve", "reconcile", "stop", "release", "exit"}
TxPoints == {"begin", "upsert", "resolve", "reconcile"}
CheckPoints == {"loop", "fetched", "items"}

\* The variables of cmd_poll's loop.
LoopTypeOK ==
    /\ pc \in [Worker -> Points]
    /\ src \in [Worker -> 0..NumSources]
    /\ todo \in [Worker -> SUBSET Item]
    /\ cur \in [Worker -> Item \cup {NoItem}]
    /\ \A w \in Worker : pc[w] = "upsert" => cur[w] \in Item
    /\ seen \in [Worker -> SUBSET Item]
    /\ run \in [Worker -> 0..MaxRuns]
    /\ broken \in [Worker -> BOOLEAN]

\* Every value stays in its domain; in particular no lease outlasts
\* LeaseDuration, whoever renews it.
TypeOK ==
    /\ fence \in 0..MaxToken
    /\ owner \in Worker \cup {NoWorker}
    /\ ttl \in -MaxLockWait..LeaseDuration
    /\ writer \in Worker \cup {NoWorker}
    /\ leads \in SUBSET Item
    /\ confirmed \in [Item -> 0..MaxRuns]
    /\ runs \in [RunId -> [state : {"none", "pending", "complete", "failed"},
                           gen : 0..MaxToken]]
    /\ tok \in [Worker -> 0..MaxToken]
    /\ LoopTypeOK
    /\ elapsed \in [Worker -> 0..ElapsedCap]
    /\ age \in [Worker -> Ages]
    /\ keeper \in [Worker -> {"off", "on", "stray"}]
    /\ kage \in [Worker -> Ages]
    /\ lost \in [Worker -> BOOLEAN]

Init ==
    /\ fence = 0 /\ owner = NoWorker /\ ttl = -MaxLockWait
    /\ writer = NoWorker
    /\ leads = {} /\ confirmed = [i \in Item |-> 0]
    /\ runs = [r \in RunId |-> NoRun]
    /\ pc = [w \in Worker |-> "off"]
    /\ tok = [w \in Worker |-> 0]
    /\ src = [w \in Worker |-> 0]
    /\ todo = [w \in Worker |-> {}]
    /\ cur = [w \in Worker |-> NoItem]
    /\ seen = [w \in Worker |-> {}]
    /\ run = [w \in Worker |-> 0]
    /\ broken = [w \in Worker |-> FALSE]
    /\ elapsed = [w \in Worker |-> 0]
    /\ age = [w \in Worker |-> NotBeating]
    /\ keeper = [w \in Worker |-> "off"]
    /\ kage = [w \in Worker |-> NotBeating]
    /\ lost = [w \in Worker |-> FALSE]

\* Mutant of Owns: only the expiry is compared, not whose lease it is.
OwnsAnyLease(w, a) == ttl + a > 0

(***************************************************************************)
(* _assert_owned_locked, for a caller whose clock reading is a old.        *)
(***************************************************************************)
Owns(w, a) == fence = tok[w] /\ owner = w /\ ttl + a > 0

LockFree == writer = NoWorker

Goto(w, p) == pc' = [pc EXCEPT ![w] = p]

\* The variables of the per-source loop, dead outside it.
ForgetRun(w) ==
    /\ todo' = [todo EXCEPT ![w] = {}]
    /\ cur' = [cur EXCEPT ![w] = NoItem]
    /\ seen' = [seen EXCEPT ![w] = {}]
    /\ run' = [run EXCEPT ![w] = 0]
    /\ broken' = [broken EXCEPT ![w] = FALSE]

\* Leave the try block for the finally block.
Stop(w) ==
    /\ Goto(w, "stop")
    /\ src' = [src EXCEPT ![w] = 0]
    /\ ForgetRun(w)

\* The except clause of the per-source try: the run will be failed.
SourceError(w) ==
    /\ Goto(w, "resolve")
    /\ broken' = [broken EXCEPT ![w] = TRUE]
    /\ todo' = [todo EXCEPT ![w] = {}]
    /\ cur' = [cur EXCEPT ![w] = NoItem]
    /\ seen' = [seen EXCEPT ![w] = {}]
    /\ UNCHANGED <<src, run>>

---------------------------------------------------------------------------
(***************************************************************************)
(* acquire, and the start of cmd_poll.  The clock is read before BEGIN     *)
(* IMMEDIATE, so the reading may be a ticks old when the row is read: a    *)
(* lease that has just run out may still be refused, and the new one is    *)
(* that much shorter.  A refused process exits 2 having changed nothing.   *)
(***************************************************************************)
Acquire(w, a) ==
    /\ pc[w] = "off"
    /\ LockFree
    /\ fence = 0 \/ ttl + a <= 0
    /\ fence < MaxToken
    /\ fence' = fence + 1
    /\ owner' = w
    /\ ttl' = LeaseDuration - a
    /\ tok' = [tok EXCEPT ![w] = fence + 1]
    /\ Goto(w, "loop")
    /\ src' = [src EXCEPT ![w] = 0]
    /\ elapsed' = [elapsed EXCEPT ![w] = 0]
    /\ keeper' = [keeper EXCEPT ![w] = "on"]
    /\ UNCHANGED <<writer, leads, confirmed, runs, todo, cur, seen, run,
                   broken, age, kage, lost>>

(***************************************************************************)
(* LeaseKeeper.checkpoint, called before a source, after its fetch and     *)
(* before each item.  First the runtime and the keeper's flag, then a      *)
(* heartbeat: read the clock, queue for the write lock, renew if owned.    *)
(***************************************************************************)
AtCheckpoint(w) ==
    \/ pc[w] = "loop" /\ src[w] < NumSources
    \/ pc[w] = "fetched"
    \/ pc[w] = "items" /\ todo[w] # {}

CheckpointRefused(w) ==
    /\ AtCheckpoint(w) /\ age[w] = NotBeating
    /\ elapsed[w] >= MaxRuntime \/ lost[w]
    /\ lost' = [lost EXCEPT ![w] = @ \/ elapsed[w] >= MaxRuntime]
    /\ Stop(w)
    /\ UNCHANGED <<dbVars, tok, elapsed, age, keeper, kage>>

CheckpointReadsClock(w) ==
    /\ AtCheckpoint(w) /\ age[w] = NotBeating
    /\ elapsed[w] < MaxRuntime /\ ~lost[w]
    /\ age' = [age EXCEPT ![w] = 0]
    /\ UNCHANGED <<dbVars, pollVars, elapsed, keepVars>>

\* What the poller does next once its checkpoint let it pass.
PassCheckpoint(w) ==
    \/ /\ pc[w] = "loop"
       /\ Goto(w, "begin")
       /\ src' = [src EXCEPT ![w] = @ + 1]
       /\ UNCHANGED <<todo, cur>>
    \/ /\ pc[w] = "fetched"
       /\ Goto(w, "items")
       /\ UNCHANGED <<src, todo, cur>>
    \/ /\ pc[w] = "items"
       /\ \E i \in todo[w] :
             /\ cur' = [cur EXCEPT ![w] = i]
             /\ todo' = [todo EXCEPT ![w] = @ \ {i}]
       /\ Goto(w, "upsert")
       /\ UNCHANGED src

Beating(w) == AtCheckpoint(w) /\ age[w] # NotBeating

CheckpointRenews(w) ==
    /\ Beating(w) /\ LockFree
    /\ Owns(w, age[w])
    /\ ttl' = LeaseDuration - age[w]
    /\ age' = [age EXCEPT ![w] = NotBeating]
    /\ PassCheckpoint(w)
    /\ UNCHANGED <<fence, owner, writer, leads, confirmed, runs, tok, seen,
                   run, broken, elapsed, keepVars>>

CheckpointLost(w) ==
    /\ Beating(w) /\ LockFree
    /\ ~Owns(w, age[w])
    /\ age' = [age EXCEPT ![w] = NotBeating]
    /\ Stop(w)
    /\ UNCHANGED <<dbVars, tok, elapsed, keepVars>>

\* SQLite gives up on the write lock: inside the per-source try it is an
\* ordinary source error, at the top of the loop it ends the command.
CheckpointBusy(w) ==
    /\ Beating(w) /\ age[w] = MaxLockWait /\ ~LockFree
    /\ age' = [age EXCEPT ![w] = NotBeating]
    /\ \/ pc[w] = "loop" /\ Stop(w)
       \/ pc[w] # "loop" /\ SourceError(w)
    /\ UNCHANGED <<dbVars, tok, elapsed, keepVars>>

---------------------------------------------------------------------------
(***************************************************************************)
(* The keeper thread.                                                      *)
(***************************************************************************)
KeeperGivesUp(w) ==
    /\ keeper[w] = "on" /\ kage[w] = NotBeating
    /\ elapsed[w] >= MaxRuntime
    /\ keeper' = [keeper EXCEPT ![w] = "off"]
    /\ lost' = [lost EXCEPT ![w] = TRUE]
    /\ UNCHANGED <<dbVars, pollVars, elapsed, age, kage>>

\* Mutant of KeeperReadsClock: the thread has no deadline.
KeeperForgetsRuntime(w) ==
    /\ keeper[w] = "on" /\ kage[w] = NotBeating
    /\ kage' = [kage EXCEPT ![w] = 0]
    /\ UNCHANGED <<dbVars, pollVars, elapsed, age, keeper, lost>>

KeeperReadsClock(w) ==
    /\ keeper[w] = "on" /\ kage[w] = NotBeating
    /\ elapsed[w] < MaxRuntime
    /\ kage' = [kage EXCEPT ![w] = 0]
    /\ UNCHANGED <<dbVars, pollVars, elapsed, age, keeper, lost>>

KeeperRenews(w) ==
    /\ kage[w] # NotBeating /\ LockFree
    /\ Owns(w, kage[w])
    /\ ttl' = LeaseDuration - kage[w]
    /\ kage' = [kage EXCEPT ![w] = NotBeating]
    /\ keeper' = [keeper EXCEPT ![w] = IF @ = "stray" THEN "off" ELSE @]
    /\ UNCHANGED <<fence, owner, writer, leads, confirmed, runs, pollVars,
                   elapsed, age, lost>>

\* LeaseLost or any sqlite3.Error ends the thread and raises the flag.
KeeperLoses(w) ==
    /\ kage[w] # NotBeating
    /\ \/ LockFree /\ ~Owns(w, kage[w])
       \/ ~LockFree /\ kage[w] = MaxLockWait
    /\ kage' = [kage EXCEPT ![w] = NotBeating]
    /\ keeper' = [keeper EXCEPT ![w] = "off"]
    /\ lost' = [lost EXCEPT ![w] = TRUE]
    /\ UNCHANGED <<dbVars, pollVars, elapsed, age>>

---------------------------------------------------------------------------
(***************************************************************************)
(* fenced_transaction: BEGIN IMMEDIATE and the first check.  The effect of *)
(* the body becomes visible at the commit, after the second check.         *)
(***************************************************************************)
AtTx(w) == pc[w] \in TxPoints /\ writer # w

TxBegin(w) ==
    /\ AtTx(w) /\ LockFree
    /\ Owns(w, 0)
    /\ writer' = w
    /\ UNCHANGED <<fence, owner, ttl, leads, confirmed, runs, pollVars,
                   elapsed, age, keepVars>>

TxRefused(w) ==
    /\ AtTx(w) /\ LockFree
    /\ ~Owns(w, 0)
    /\ Stop(w)
    /\ UNCHANGED <<dbVars, tok, elapsed, age, keepVars>>

\* The body raised (or the lock never came): rolled back.  Only the upsert
\* is inside the per-source try.
TxBroken(w) ==
    /\ pc[w] \in TxPoints
    /\ writer' = IF writer = w THEN NoWorker ELSE writer
    /\ \/ pc[w] = "upsert" /\ SourceError(w)
       \/ pc[w] # "upsert" /\ Stop(w)
    /\ UNCHANGED <<fence, owner, ttl, leads, confirmed, runs, tok, elapsed,
                   age, keepVars>>

\* The transaction outlived its lease: the second check rolls it back.
TxOutlived(w) ==
    /\ pc[w] \in TxPoints /\ writer = w
    /\ ~Owns(w, 0)
    /\ writer' = NoWorker
    /\ Stop(w)
    /\ UNCHANGED <<fence, owner, ttl, leads, confirmed, runs, tok, elapsed,
                   age, keepVars>>

MayCommit(w) == writer = w /\ Owns(w, 0)

(***************************************************************************)
(* begin_run: the run row exists, pending, before anything is fetched.     *)
(***************************************************************************)
BeginRun(w, r) ==
    /\ pc[w] = "begin" /\ MayCommit(w)
    /\ runs[r] = NoRun /\ \A q \in 1..(r - 1) : runs[q] # NoRun
    /\ runs' = [runs EXCEPT ![r] = [state |-> "pending", gen |-> tok[w]]]
    /\ run' = [run EXCEPT ![w] = r]
    /\ writer' = NoWorker
    /\ Goto(w, "fetch")
    /\ UNCHANGED <<fence, owner, ttl, leads, confirmed, tok, src, todo, cur,
                   seen, broken, elapsed, age, keepVars>>

\* poll_fn() answers with any of the source's items, or raises.
Fetch(w, S) ==
    /\ pc[w] = "fetch"
    /\ todo' = [todo EXCEPT ![w] = S]
    /\ Goto(w, "fetched")
    /\ UNCHANGED <<dbVars, tok, src, cur, seen, run, broken, elapsed, age,
                   keepVars>>

FetchFails(w) ==
    /\ pc[w] = "fetch"
    /\ SourceError(w)
    /\ UNCHANGED <<dbVars, tok, elapsed, age, keepVars>>

\* Mutant of UpsertLead: the lead is confirmed while its run is pending.
UpsertConfirms(w) ==
    /\ pc[w] = "upsert" /\ MayCommit(w)
    /\ leads' = leads \cup {cur[w]}
    /\ confirmed' = [confirmed EXCEPT ![cur[w]] = run[w]]
    /\ seen' = [seen EXCEPT ![w] = @ \cup {cur[w]}]
    /\ cur' = [cur EXCEPT ![w] = NoItem]
    /\ writer' = NoWorker
    /\ Goto(w, "items")
    /\ UNCHANGED <<fence, owner, ttl, runs, tok, src, todo, run, broken,
                   elapsed, age, keepVars>>

(***************************************************************************)
(* upsert_lead, then the append to confirmed_keys.                         *)
(***************************************************************************)
UpsertLead(w) ==
    /\ pc[w] = "upsert" /\ MayCommit(w)
    /\ leads' = leads \cup {cur[w]}
    /\ seen' = [seen EXCEPT ![w] = @ \cup {cur[w]}]
    /\ cur' = [cur EXCEPT ![w] = NoItem]
    /\ writer' = NoWorker
    /\ Goto(w, "items")
    /\ UNCHANGED <<fence, owner, ttl, confirmed, runs, tok, src, todo, run,
                   broken, elapsed, age, keepVars>>

ItemsDone(w) ==
    /\ pc[w] = "items" /\ todo[w] = {}
    /\ Goto(w, "resolve")
    /\ UNCHANGED <<dbVars, tok, src, todo, cur, seen, run, broken, elapsed,
                   age, keepVars>>

(***************************************************************************)
(* complete_run and fail_run.                                              *)
(***************************************************************************)
CompleteRun(w) ==
    /\ pc[w] = "resolve" /\ ~broken[w] /\ MayCommit(w)
    /\ runs' = [runs EXCEPT ![run[w]].state = "complete"]
    /\ confirmed' = [i \in Item |->
                        IF i \in seen[w] THEN run[w] ELSE confirmed[i]]
    /\ writer' = NoWorker
    /\ Goto(w, "loop")
    /\ ForgetRun(w)
    /\ UNCHANGED <<fence, owner, ttl, leads, tok, src, elapsed, age, keepVars>>

\* Mutant of FailRun: what a broken run saw before it broke is confirmed.
FailRunConfirms(w) ==
    /\ pc[w] = "resolve" /\ broken[w] /\ MayCommit(w)
    /\ runs' = [runs EXCEPT ![run[w]].state = "failed"]
    /\ confirmed' = [i \in Item |-> IF i \in leads /\ confirmed[i] = 0
                                    THEN run[w] ELSE confirmed[i]]
    /\ writer' = NoWorker
    /\ Goto(w, "loop")
    /\ ForgetRun(w)
    /\ UNCHANGED <<fence, owner, ttl, leads, tok, src, elapsed, age, keepVars>>

FailRun(w) ==
    /\ pc[w] = "resolve" /\ broken[w] /\ MayCommit(w)
    /\ runs' = [runs EXCEPT ![run[w]].state = "failed"]
    /\ writer' = NoWorker
    /\ Goto(w, "loop")
    /\ ForgetRun(w)
    /\ UNCHANGED <<fence, owner, ttl, leads, confirmed, tok, src, elapsed,
                   age, keepVars>>

SourcesDone(w) ==
    /\ pc[w] = "loop" /\ src[w] = NumSources /\ age[w] = NotBeating
    /\ Goto(w, "reconcile")
    /\ UNCHANGED <<dbVars, tok, src, todo, cur, seen, run, broken, elapsed,
                   age, keepVars>>

\* reconcile_seed_duplicates: one more fenced write; its rows are not kept.
Reconcile(w) ==
    /\ pc[w] = "reconcile" /\ MayCommit(w)
    /\ writer' = NoWorker
    /\ Stop(w)
    /\ UNCHANGED <<fence, owner, ttl, leads, confirmed, runs, tok, elapsed,
                   age, keepVars>>

---------------------------------------------------------------------------
(***************************************************************************)
(* The finally block: stop the keeper (the join is bounded, so a heartbeat *)
(* already queued may still land), then release only this token.           *)
(***************************************************************************)
StopKeeper(w) ==
    /\ pc[w] = "stop"
    /\ Goto(w, "release")
    /\ \/ /\ keeper' = [keeper EXCEPT ![w] = "off"]
          /\ kage' = [kage EXCEPT ![w] = NotBeating]
       \/ /\ kage[w] # NotBeating
          /\ keeper' = [keeper EXCEPT ![w] = "stray"]
          /\ UNCHANGED kage
    /\ UNCHANGED <<dbVars, tok, src, todo, cur, seen, run, broken, elapsed,
                   age, lost>>

\* What is left of a process when it is gone.
Gone(w) ==
    /\ Goto(w, "off")
    /\ src' = [src EXCEPT ![w] = 0]
    /\ ForgetRun(w)
    /\ elapsed' = [elapsed EXCEPT ![w] = 0]
    /\ age' = [age EXCEPT ![w] = NotBeating]
    /\ keeper' = [keeper EXCEPT ![w] = "off"]
    /\ kage' = [kage EXCEPT ![w] = NotBeating]
    /\ lost' = [lost EXCEPT ![w] = FALSE]
    /\ tok' = [tok EXCEPT ![w] = 0]

Release(w) ==
    /\ pc[w] = "release" /\ LockFree
    /\ ttl' = IF fence = tok[w] /\ owner = w THEN 0 ELSE ttl
    /\ Goto(w, "exit")
    /\ UNCHANGED <<fence, owner, writer, leads, confirmed, runs, tok, src, todo,
                   cur, seen, run, broken, elapsed, age, keepVars>>

\* The interpreter shuts down and takes a stray keeper with it.
Exit(w) ==
    /\ pc[w] = "exit"
    /\ Gone(w)
    /\ UNCHANGED dbVars

\* The process dies anywhere; SQLite rolls its open transaction back.
Crash(w) ==
    /\ pc[w] # "off"
    /\ Gone(w)
    /\ writer' = IF writer = w THEN NoWorker ELSE writer
    /\ UNCHANGED <<fence, owner, ttl, leads, confirmed, runs>>

\* SQLite never lets a waiter queue past its busy timeout.
Tick ==
    /\ \A w \in Worker : age[w] < MaxLockWait /\ kage[w] < MaxLockWait
    /\ ttl' = IF ttl > -MaxLockWait THEN ttl - 1 ELSE ttl
    /\ elapsed' = [w \in Worker |->
          IF pc[w] # "off" /\ elapsed[w] < ElapsedCap
          THEN elapsed[w] + 1 ELSE elapsed[w]]
    /\ age' = [w \in Worker |->
          IF age[w] # NotBeating THEN age[w] + 1 ELSE NotBeating]
    /\ kage' = [w \in Worker |->
          IF kage[w] # NotBeating THEN kage[w] + 1 ELSE NotBeating]
    /\ UNCHANGED <<fence, owner, writer, leads, confirmed, runs, pollVars,
                   keeper, lost>>

Checkpoint(w) ==
    \/ CheckpointRefused(w) \/ CheckpointReadsClock(w)
    \/ CheckpointRenews(w) \/ CheckpointLost(w) \/ CheckpointBusy(w)

Keeper(w) ==
    \/ KeeperGivesUp(w) \/ KeeperReadsClock(w)
    \/ KeeperRenews(w) \/ KeeperLoses(w)

FencedTransaction(w) ==
    \/ TxBegin(w) \/ TxRefused(w) \/ TxBroken(w) \/ TxOutlived(w)
    \/ \E r \in RunId : BeginRun(w, r)
    \/ UpsertLead(w) \/ CompleteRun(w) \/ FailRun(w) \/ Reconcile(w)

Poller(w) ==
    \/ \E a \in 0..MaxLockWait : Acquire(w, a)
    \/ Checkpoint(w)
    \/ FencedTransaction(w)
    \/ \E S \in SUBSET {i \in Item : SourceOf[i] = src[w]} : Fetch(w, S)
    \/ FetchFails(w) \/ ItemsDone(w) \/ SourcesDone(w)
    \/ StopKeeper(w) \/ Release(w) \/ Exit(w)

Next ==
    \/ \E w \in Worker : Poller(w) \/ Keeper(w) \/ Crash(w)
    \/ Tick

Spec == Init /\ [][Next]_vars

(***************************************************************************)
(* Time passes, and a heartbeat queued for the write lock gets it or times *)
(* out.  Nothing else is assumed: a poller may hang forever.               *)
(***************************************************************************)
CheckpointEnds(w) ==
    CheckpointRenews(w) \/ CheckpointLost(w) \/ CheckpointBusy(w)

BeatEnds(w) == KeeperRenews(w) \/ KeeperLoses(w)

TimedSpec ==
    /\ Spec
    /\ WF_vars(Tick)
    /\ \A w \in Worker : WF_vars(CheckpointEnds(w)) /\ WF_vars(BeatEnds(w))

---------------------------------------------------------------------------
(***************************************************************************)
(* The rich-card freshness rule (begin_run, complete_run): a lead's        *)
(* confirmation always names a run that completed, never one that is       *)
(* pending, failed or abandoned by a poller that died or was replaced.     *)
(***************************************************************************)
ConfirmedByCompleteRun ==
    \A i \in Item : confirmed[i] # 0 =>
        /\ runs[confirmed[i]].state = "complete"
        /\ i \in leads

(***************************************************************************)
(* A paused poller that resumes after its successor started cannot put an  *)
(* older run back in place of the newer one (upsert_lead, complete_run).   *)
(***************************************************************************)
ConfirmationNeverRegresses ==
    [][\A i \in Item : confirmed'[i] >= confirmed[i]]_vars

(***************************************************************************)
(* Whatever the interleaving of crashes, hangs, heartbeats and takeovers,  *)
(* the runs table and the confirmations change as if generations of        *)
(* pollers ran one after another.                                          *)
(***************************************************************************)
Serial == INSTANCE SerialPolls WITH epoch <- fence
ActsSerially == Serial!Spec

(***************************************************************************)
(* A poller, hung or not, loses the lease at most one lease duration after *)
(* its maximum runtime (LeaseKeeper._run, checkpoint).                     *)
(***************************************************************************)
AuthorityIsBounded ==
    \A w \in Worker : pc[w] # "off" /\ elapsed[w] >= MaxRuntime + LeaseDuration
        => ~Owns(w, 0)

(***************************************************************************)
(* A hung poller cannot keep others out: the lease keeps running out.      *)
(***************************************************************************)
LeaseRunsOut == []<>(ttl <= 0)

---------------------------------------------------------------------------
(***************************************************************************)
(* The inductive invariant behind the safety properties.                   *)
(***************************************************************************)
Running(w) == pc[w] # "off"

\* Every live process holds a token of its own, none newer than the row's.
TokensDistinct ==
    /\ \A w \in Worker : Running(w) => tok[w] > 0 /\ tok[w] <= fence
    /\ \A v, w \in Worker :
          Running(v) /\ Running(w) /\ tok[v] = tok[w] => v = w

\* Run ids are handed out in order.
RunsInOrder ==
    /\ \A r \in RunId : runs[r].state = "none" => runs[r] = NoRun
    /\ \A q, r \in RunId : q < r /\ runs[q] = NoRun => runs[r] = NoRun

InRun(w) == pc[w] \in {"fetch", "fetched", "items", "upsert", "resolve"}

\* A poller's open run is pending and its own; while the poller still has
\* the current token, no run was opened after it.
OpenRunsPending ==
    \A w \in Worker : InRun(w) =>
        /\ run[w] \in RunId
        /\ runs[run[w]] = [state |-> "pending", gen |-> tok[w]]
        /\ fence = tok[w] =>
              \A q \in RunId : q > run[w] => runs[q] = NoRun

SeenAreLeads == \A w \in Worker : seen[w] \subseteq leads

\* What bounds the renewals of one poller.
Clocks ==
    \A w \in Worker :
        /\ ~Running(w) =>
              age[w] = NotBeating /\ kage[w] = NotBeating /\ keeper[w] = "off"
        /\ age[w] # NotBeating => elapsed[w] < MaxRuntime + age[w]
        /\ kage[w] # NotBeating => elapsed[w] < MaxRuntime + kage[w]
        /\ Running(w) /\ fence = tok[w] /\ ttl > 0 =>
              elapsed[w] + ttl <= MaxRuntime + LeaseDuration

IInv ==
    /\ TypeOK
    /\ TokensDistinct
    /\ RunsInOrder
    /\ OpenRunsPending
    /\ SeenAreLeads
    /\ ConfirmedByCompleteRun
    /\ Clocks
================================================================================
