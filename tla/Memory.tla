-------------------------------- MODULE Memory --------------------------------
(***************************************************************************)
(* What Grant remembers about one colleague (user_memory.py).              *)
(*                                                                         *)
(* After an answer, capture offers what is remembered to a model together  *)
(* with what was just said, and stores what comes back, item by item.  The *)
(* model takes its time: other messages are captured, memories lapse, are  *)
(* purged or forgotten, and their ids are given to new rows, before its    *)
(* items arrive.  An item may correct an older memory; the row it names is *)
(* then retired, and the code trusts neither the name nor the moment.      *)
(***************************************************************************)
EXTENDS Integers, FiniteSets, FiniteSetsExt

CONSTANTS Fact,      \* what may be remembered
          KindOf,    \* territory, preference, ...
          Corrects,  \* <<new, old>>: "I now only NEW, not OLD"
          Ear,       \* handlers that may be capturing at once
          Life,      \* RETENTION
          MaxTime,   \* BOUND: the clock
          MaxItems,  \* BOUND: items of one message
          MaxId      \* BOUND: row ids

ASSUME MemoryAssumption ==
    /\ Corrects \subseteq {p \in Fact \X Fact : KindOf[p[1]] = KindOf[p[2]]}
    /\ Life \in Nat /\ Life > 0 /\ MaxTime \in Nat /\ MaxId \in Nat

VARIABLES
    memory,  \* rows by id: fact, recorded at, superseded by (0: no)
    clock,
    hears,   \* whether a capture is under way
    moment,  \* when it began: the clock of all its writes
    offered, \* the memories it showed to the model, as they were
    items    \* items it has stored or dropped

memoryVars == <<memory, clock, hears, moment, offered, items>>

Lives(row, t) == row.at + Life > t
Active(t) == {i \in DOMAIN memory : Lives(memory[i], t) /\ memory[i].by = 0}

MemoryInit ==
    /\ memory = [i \in {} |-> 0]
    /\ clock = 0
    /\ hears = [c \in Ear |-> FALSE]
    /\ moment = [c \in Ear |-> 0]
    /\ offered = [c \in Ear |-> {}]
    /\ items = [c \in Ear |-> 0]

---------------------------------------------------------------------------
\* capture begins: recall, and the question to the model.
Recall(c) ==
    /\ ~hears[c]
    /\ hears' = [hears EXCEPT ![c] = TRUE]
    /\ moment' = [moment EXCEPT ![c] = clock]
    /\ offered' = [offered EXCEPT ![c] =
          {[id |-> i, fact |-> memory[i].fact] : i \in Active(clock)}]
    /\ UNCHANGED <<memory, clock, items>>

\* No answer, or no more items in it.
StopHearing(c) ==
    /\ hears[c]
    /\ hears' = [hears EXCEPT ![c] = FALSE]
    /\ moment' = [moment EXCEPT ![c] = 0]
    /\ offered' = [offered EXCEPT ![c] = {}]
    /\ items' = [items EXCEPT ![c] = 0]
    /\ UNCHANGED <<memory, clock>>

Holding(f) == {i \in DOMAIN memory : memory[i].fact = f}

\* The row a fact is stored in: a new one, or its lapsed one again (UNIQUE
\* user, kind, fact); none while the fact is on file, retired or not.
StoredIn(f, t) ==
    IF Holding(f) = {} THEN {Max(DOMAIN memory \cup {0}) + 1}
    ELSE {i \in Holding(f) : ~Lives(memory[i], t)}

\* _remember_in_transaction.
Stored(f, i, t) ==
    [j \in DOMAIN memory \cup {i} |->
        IF j = i THEN [fact |-> f, at |-> t, by |-> 0] ELSE memory[j]]

\* _explicit_correction: the words name the new state and the old one.
Corrected(new, old) == <<new, old>> \in Corrects

\* Mutant of MayRetire: the rows offered to the model are taken as read.
MayRetireAny(rows, i, j, t) == i \in DOMAIN rows /\ i # j

\* _supersede_in_transaction: both rows are there, are peers, live, in
\* order, and the only two of their kind that anybody could have meant.
MayRetire(rows, i, j, t) ==
    /\ i \in DOMAIN rows /\ i # j
    /\ Corrected(rows[j].fact, rows[i].fact)
    /\ \A k \in {i, j} : rows[k].by = 0 /\ Lives(rows[k], t) /\ rows[k].at <= t
    /\ rows[j].at >= rows[i].at
    /\ Cardinality({k \in DOMAIN rows :
                       /\ rows[k].by = 0 /\ Lives(rows[k], t)
                       /\ KindOf[rows[k].fact] = KindOf[rows[i].fact]}) = 2

Hear(c) ==
    /\ hears[c] /\ items[c] < MaxItems
    /\ items' = [items EXCEPT ![c] = @ + 1]
    /\ UNCHANGED <<clock, hears, moment, offered>>

\* An item with action "add".
Add(c, f) ==
    /\ Hear(c)
    /\ \E i \in StoredIn(f, moment[c]) :
          i <= MaxId /\ memory' = Stored(f, i, moment[c])

\* An item with action "replace": the offered memory it names must have been
\* the only one of its kind; what fails afterwards rolls the item back.
Correct(c, f, o) ==
    LET t == moment[c]
        peers == {p \in offered[c] : KindOf[p.fact] = KindOf[f]}
    IN /\ Hear(c)
       /\ peers = {o} /\ Corrected(f, o.fact)
       /\ \E j \in StoredIn(f, t) :
             LET rows == Stored(f, j, t)
             IN /\ j <= MaxId
                /\ memory' = IF MayRetire(rows, o.id, j, t)
                             THEN [rows EXCEPT ![o.id].by = j] ELSE memory

\* memory_forget: every row of the colleague.
Forget ==
    /\ memory' = [i \in {} |-> 0]
    /\ UNCHANGED <<clock, hears, moment, offered, items>>

\* purge, on the watchdog's tick.
Purge ==
    /\ memory' = [i \in {j \in DOMAIN memory : Lives(memory[j], clock)} |->
                     memory[i]]
    /\ UNCHANGED <<clock, hears, moment, offered, items>>

Pass ==
    /\ clock < MaxTime /\ clock' = clock + 1
    /\ UNCHANGED <<memory, hears, moment, offered, items>>

MemoryNext ==
    \/ \E c \in Ear :
          \/ Recall(c) \/ StopHearing(c)
          \/ \E f \in Fact : \/ Add(c, f)
                             \/ \E o \in offered[c] : Correct(c, f, o)
    \/ Forget \/ Purge \/ Pass

MemorySpec == MemoryInit /\ [][MemoryNext]_memoryVars

---------------------------------------------------------------------------
(***************************************************************************)
(* A memory is retired only by one that corrects it, is not older and is   *)
(* still on file, whatever became of the rows and their ids while the      *)
(* model was thinking (_supersede_in_transaction, capture; a dangling      *)
(* superseded_by would also make every purge fail on its foreign key).     *)
(***************************************************************************)
CorrectionStands ==
    \A i \in DOMAIN memory :
        LET j == memory[i].by
        IN j # 0 => /\ j \in DOMAIN memory
                    /\ <<memory[j].fact, memory[i].fact>> \in Corrects
                    /\ memory[j].at >= memory[i].at
================================================================================
