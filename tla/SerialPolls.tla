------------------------------ MODULE SerialPolls ------------------------------
(***************************************************************************)
(* What the polling writer promises its readers, with no lease, no clock   *)
(* and no lock: poll generations follow one another, and only the newest   *)
(* generation may open a source run, resolve a run it opened itself, or    *)
(* say that a lead was confirmed.  A run is resolved at most once, and a   *)
(* lead is confirmed only by a run that completed.                         *)
(* PollLease is shown to implement this specification.                     *)
(***************************************************************************)
EXTENDS Naturals

CONSTANTS Item,      \* the leads, by (source, source_item_id)
          RunId      \* the ids the runs table hands out

VARIABLES epoch,     \* the newest generation, 0 before the first poll
          runs,      \* RunId -> [state, gen]: the runs table
          confirmed  \* Item -> the run that last confirmed it, 0 for none

vars == <<epoch, runs, confirmed>>

NoRun == [state |-> "none", gen |-> 0]

Init ==
    /\ epoch = 0
    /\ runs = [r \in RunId |-> NoRun]
    /\ confirmed = [i \in Item |-> 0]

NewGeneration ==
    /\ epoch' = epoch + 1
    /\ UNCHANGED <<runs, confirmed>>

OpenRun(r) ==
    /\ runs[r] = NoRun
    /\ runs' = [runs EXCEPT ![r] = [state |-> "pending", gen |-> epoch]]
    /\ UNCHANGED <<epoch, confirmed>>

CompleteRun(r, S) ==
    /\ runs[r] = [state |-> "pending", gen |-> epoch]
    /\ runs' = [runs EXCEPT ![r].state = "complete"]
    /\ confirmed' = [i \in Item |-> IF i \in S THEN r ELSE confirmed[i]]
    /\ UNCHANGED epoch

FailRun(r) ==
    /\ runs[r] = [state |-> "pending", gen |-> epoch]
    /\ runs' = [runs EXCEPT ![r].state = "failed"]
    /\ UNCHANGED <<epoch, confirmed>>

Next ==
    \/ NewGeneration
    \/ \E r \in RunId :
         \/ OpenRun(r)
         \/ \E S \in SUBSET Item : CompleteRun(r, S)
         \/ FailRun(r)

Spec == Init /\ [][Next]_vars
================================================================================
