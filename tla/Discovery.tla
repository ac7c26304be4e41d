------------------------------ MODULE Discovery ------------------------------
(***************************************************************************)
(* Raw source discovery: source_discovery_batch.py buys one search per     *)
(* target, source_discovery_store.py keeps an immutable manifest and one   *)
(* row per target on disk, source_discovery_models.py says what a row may  *)
(* become.                                                                 *)
(*                                                                         *)
(* Several processes may plan at once; the lock of the root lets one of    *)
(* them execute.  Before each search the row is stored as in flight, after *)
(* it with its outcome; a process may die anywhere.  The account's own     *)
(* ledger (firecrawl_gateway.py, module PaidLookups) is the second line:   *)
(* it refuses an exact request whose former answer was lost.  Timestamps   *)
(* and the pause between two calls are left out, and all happens inside    *)
(* one billing month.                                                      *)
(***************************************************************************)
EXTENDS Integers, Sequences, FiniteSets, SequencesExt

CONSTANTS
    Target,         \* untouched entities, in the order of their rank: 1..n
    Batch,          \* batch identifiers
    Process,        \* processes of the command
    TaskLimit,      \* targets of one batch
    MaxAttempts,    \* searches of one row
    MaxCommands,    \* BOUND: executions begun
    MaxCrashes      \* BOUND: processes killed

None == "none"

\* validate_manifest bounds every paid run.
ManifestBounds == TaskLimit \in 1..100 /\ MaxAttempts \in 1..3

ASSUME DiscoveryAssumption ==
    /\ IsFiniteSet(Target) /\ Target = 1..Cardinality(Target)
    /\ None \notin Process /\ ManifestBounds
    /\ {MaxCommands, MaxCrashes} \subseteq Nat

\* What a search may end as; success is an answer with or without results,
\* gateway_failure also one that could not be read.
Outcome == { "success", "rate_limited", "indeterminate", "gateway_failure",
             "account_unavailable" }

Retryable(o) == o \in {"rate_limited", "indeterminate"}
Systemic(o)  == o = "account_unavailable"

Terminal == { "success", "non_retryable_failure", "attempts_exhausted" }

VARIABLES
    manifest,   \* manifest[b]: the targets of the batch; {} before it is made
    row,        \* row[b][t]: the stored attempts of the target
    litter,     \* a staging directory was left under the root
    ledger,     \* ledger[t]: of the account's last attempt at the request
    holder,     \* the process that holds the root's lock, or None
    phase, word, \* where a process is; may it repeat a lost request?
    batch,      \* the batch a process plans or executes
    plan,       \* the targets it planned
    rest,       \* the targets it has still to look at
    answer,     \* the outcome it has not yet stored
    sent,       \* sent[b][t]: requests that left for a row
    astray,     \* targets with a request sent whose answer nobody kept
    commands, crashes

disk  == <<manifest, row, litter>>
local == <<phase, word, batch, plan, rest, answer>>
ghost == <<sent, astray>>
discoveryVars ==
    <<disk, ledger, holder, local, ghost, commands, crashes>>

---------------------------------------------------------------------------
(***************************************************************************)
(* A row and its status.                                                   *)
(***************************************************************************)
\* append_attempt, and what validate_batch expects of every stored row.
StatusOf(attempts) ==
    IF attempts = <<>> THEN "pending"
    ELSE LET o == Last(attempts) IN
         IF o \in {"success", "in_flight"} THEN o
         ELSE IF ~Retryable(o) THEN "non_retryable_failure"
         ELSE IF Len(attempts) >= MaxAttempts THEN "attempts_exhausted"
         ELSE "retryable_failure"

Status(b, t) == StatusOf(row[b][t])

\* validate_checkpoint: only the last attempt may be open, and an answer ends
\* the row.
ValidRow(attempts) ==
    /\ Len(attempts) <= MaxAttempts
    /\ \A i \in 1..(Len(attempts) - 1) :
        attempts[i] # "in_flight" /\ Retryable(attempts[i])

\* validate_batch: exactly the targets of the manifest.
ValidBatch(b) ==
    /\ Cardinality(manifest[b]) <= TaskLimit
    /\ \A t \in Target :
        IF t \in manifest[b] THEN ValidRow(row[b][t]) ELSE row[b][t] = <<>>

Made(b) == manifest[b] # {}

Manifest == SUBSET Target
Attempt  == Outcome \cup {"in_flight"}

DiscoveryTypeOK ==
    /\ manifest \in [Batch -> Manifest]
    /\ \A b \in Batch, t \in Target : row[b][t] \in Seq(Attempt)
    /\ litter \in BOOLEAN
    /\ ledger \in [Target -> {None, "in_flight", "indeterminate", "closed"}]
    /\ holder \in Process \cup {None}
    /\ \A p \in Process :
        /\ phase[p] \in { "idle", "planned", "staging", "opening",
                       "task", "begin", "call", "wait", "store" }
        /\ plan[p] \subseteq Target /\ rest[p] \subseteq Target
    /\ astray \subseteq Target

DiscoveryInit ==
    /\ manifest = [b \in Batch |-> {}]
    /\ row = [b \in Batch |-> [t \in Target |-> <<>>]]
    /\ litter = FALSE
    /\ ledger = [t \in Target |-> None]
    /\ holder = None
    /\ phase = [p \in Process |-> "idle"]
    /\ word = [p \in Process |-> FALSE]
    /\ batch = [p \in Process |-> None]
    /\ plan = [p \in Process |-> {}] /\ rest = [p \in Process |-> {}]
    /\ answer = [p \in Process |-> None]
    /\ sent = [b \in Batch |-> [t \in Target |-> 0]]
    /\ astray = {}
    /\ commands = 0 /\ crashes = 0

MoveTo(p, l) == phase' = [phase EXCEPT ![p] = l]

\* The command ends, normally or by an exception: its locks are released.
EndCommand(p) ==
    /\ phase' = [phase EXCEPT ![p] = "idle"]
    /\ word' = [word EXCEPT ![p] = FALSE]
    /\ batch' = [batch EXCEPT ![p] = None]
    /\ plan' = [plan EXCEPT ![p] = {}] /\ rest' = [rest EXCEPT ![p] = {}]
    /\ answer' = [answer EXCEPT ![p] = None]
    /\ holder' = IF holder = p THEN None ELSE holder

\* replace_checkpoint: the whole shard is written aside, flushed and renamed.
Store(b, t, attempts) == row' = [row EXCEPT ![b][t] = attempts]

---------------------------------------------------------------------------
(***************************************************************************)
(* Planning, outside of every lock.                                        *)
(***************************************************************************)
\* completed_request_keys: the requests some valid batch has an answer to.
Completed ==
    { t \in Target : \E b \in Batch :
        Made(b) /\ Status(b, t) = "success" }

\* select_targets: the best ranked, at most TaskLimit.
Select(from) ==
    { t \in from : Cardinality({ u \in from : u < t }) < TaskLimit }

Begin(p, b, targets) ==
    /\ commands < MaxCommands /\ commands' = commands + 1
    /\ phase[p] = "idle"
    /\ MoveTo(p, "planned")
    /\ \E w \in BOOLEAN : word' = [word EXCEPT ![p] = w]
    /\ batch' = [batch EXCEPT ![p] = b]
    /\ plan' = [plan EXCEPT ![p] = targets]
    /\ UNCHANGED <<disk, ledger, holder, rest, answer, ghost, crashes>>

\* A new batch; --refresh also takes what is answered already.
Plan(p) ==
    \E b \in Batch, refresh \in BOOLEAN :
        LET targets == Select(IF refresh THEN Target ELSE Target \ Completed)
        IN  /\ ~Made(b) /\ \A q \in Process : batch[q] # b
            /\ targets # {}
            /\ Begin(p, b, targets)

\* An existing batch is resumed under its own manifest.
Resume(p) ==
    \E b \in Batch : Made(b) /\ Begin(p, b, manifest[b])

---------------------------------------------------------------------------
(***************************************************************************)
(* execute_batch.                                                          *)
(***************************************************************************)
\* Both locks are taken without waiting; the root's is the wider one.  A batch
\* without a directory is made, another must hold the same manifest.
Lock(p) ==
    /\ phase[p] = "planned"
    /\ IF holder = None
       THEN /\ holder' = p
            /\ MoveTo(p, IF Made(batch[p]) THEN "opening" ELSE "staging")
            /\ UNCHANGED <<word, batch, plan, rest, answer>>
       ELSE EndCommand(p)
    /\ UNCHANGED <<disk, ledger, ghost, commands, crashes>>

\* initialize_batch: the directory is renamed into place complete.
Stage(p) ==
    /\ phase[p] = "staging"
    /\ manifest' = [manifest EXCEPT ![batch[p]] = plan[p]]
    /\ MoveTo(p, "opening")
    /\ UNCHANGED <<row, litter, ledger, holder, word, batch, plan, rest,
                   answer, ghost, commands, crashes>>

\* Every directory under the root is loaded and validated; a staging
\* directory left behind has no manifest, and the command ends.
Open(p) ==
    /\ phase[p] = "opening"
    /\ IF litter \/ \E b \in Batch : ~ValidBatch(b)
       THEN EndCommand(p)
       ELSE /\ rest' = [rest EXCEPT ![p] = manifest[batch[p]]]
            /\ MoveTo(p, "task")
            /\ UNCHANGED <<word, batch, plan, answer, holder>>
    /\ UNCHANGED <<disk, ledger, ghost, commands, crashes>>

Current(p) == CHOOSE t \in rest[p] : \A u \in rest[p] : t <= u

\* The last answer of the row is unknown.
Unknown(b, t) ==
    \/ Status(b, t) = "in_flight"
    \/ Status(b, t) = "retryable_failure" /\ Last(row[b][t]) = "indeterminate"

Skipped(b, t) == Status(b, t) \in Terminal

SkipTask(p) ==
    /\ phase[p] = "task" /\ rest[p] # {}
    /\ Skipped(batch[p], Current(p))
    /\ rest' = [rest EXCEPT ![p] = @ \ {Current(p)}]
    /\ UNCHANGED <<disk, ledger, holder, phase, word, batch, plan, answer,
                   ghost, commands, crashes>>

\* A lost answer stops the run unless the operator allowed its repetition.
RefuseTask(p) ==
    /\ phase[p] = "task" /\ rest[p] # {}
    /\ Unknown(batch[p], Current(p)) /\ ~word[p]
    /\ EndCommand(p)
    /\ UNCHANGED <<disk, ledger, ghost, commands, crashes>>

\* recover_in_flight: an interrupted call is first put on record as lost.
Recover(p) ==
    /\ phase[p] = "task" /\ rest[p] # {}
    /\ LET b == batch[p]  t == Current(p) IN
        /\ Status(b, t) = "in_flight" /\ word[p]
        /\ Store(b, t, Append(Front(row[b][t]), "indeterminate"))
    /\ UNCHANGED <<manifest, litter, ledger, holder, local, ghost, commands,
                   crashes>>

TakeTask(p) ==
    /\ phase[p] = "task" /\ rest[p] # {}
    /\ LET b == batch[p]  t == Current(p) IN
        /\ ~Skipped(b, t) /\ Status(b, t) # "in_flight"
        /\ Unknown(b, t) => word[p]
    /\ MoveTo(p, "begin")
    /\ UNCHANGED <<disk, ledger, holder, word, batch, plan, rest, answer,
                   ghost, commands, crashes>>

Finish(p) ==
    /\ phase[p] = "task" /\ rest[p] = {}
    /\ EndCommand(p)
    /\ UNCHANGED <<disk, ledger, ghost, commands, crashes>>

\* Mutant of BeginAttempt: the marker is only kept in memory.
BeginUnstored(p) ==
    /\ phase[p] = "begin"
    /\ MoveTo(p, "call")
    /\ UNCHANGED <<disk, ledger, holder, word, batch, plan, rest, answer,
                   ghost, commands, crashes>>

\* begin_attempt: the marker is on disk before the request leaves.
BeginAttempt(p) ==
    /\ phase[p] = "begin"
    /\ LET b == batch[p]  t == Current(p) IN
        Store(b, t, Append(row[b][t], "in_flight"))
    /\ MoveTo(p, "call")
    /\ UNCHANGED <<manifest, litter, ledger, holder, word, batch, plan, rest,
                   answer, ghost, commands, crashes>>

\* Mutant of Refused: the account's ledger looks only for open requests.
RefusedIfOpen(p, t) == ledger[t] = "in_flight" /\ ~word[p]

\* _reserve: the exact request was sent before and its answer is not known.
Refused(p, t) == ledger[t] \in {"in_flight", "indeterminate"} /\ ~word[p]

\* The account refuses before anything leaves: the lost answer, a backoff, no
\* credential or no budget.
RefuseCall(p) ==
    /\ phase[p] = "call"
    /\ \E o \in {"indeterminate", "rate_limited", "account_unavailable"} :
        /\ o = "indeterminate" <=> Refused(p, Current(p))
        /\ answer' = [answer EXCEPT ![p] = o]
    /\ MoveTo(p, "store")
    /\ UNCHANGED <<disk, ledger, holder, word, batch, plan, rest, ghost,
                   commands, crashes>>

Send(p) ==
    /\ phase[p] = "call" /\ ~Refused(p, Current(p))
    /\ ledger' = [ledger EXCEPT ![Current(p)] = "in_flight"]
    /\ sent' = [sent EXCEPT ![batch[p]][Current(p)] = @ + 1]
    /\ astray' = astray \cup {Current(p)}
    /\ MoveTo(p, "wait")
    /\ UNCHANGED <<disk, holder, word, batch, plan, rest, answer, commands,
                   crashes>>

\* search_outcome_from_payload and the failures of the gateway.
Answer(p) ==
    /\ phase[p] = "wait"
    /\ \E o \in Outcome :
        /\ answer' = [answer EXCEPT ![p] = o]
        /\ ledger' = [ledger EXCEPT ![Current(p)] =
                        IF o = "indeterminate" THEN o ELSE "closed"]
        /\ astray' = IF o = "indeterminate" THEN astray
                    ELSE astray \ {Current(p)}
    /\ MoveTo(p, "store")
    /\ UNCHANGED <<disk, holder, word, batch, plan, rest, sent, commands,
                   crashes>>

\* complete_attempt; a lost answer or a refusal of the account ends the run,
\* a failure worth repeating begins again.
Complete(p) ==
    /\ phase[p] = "store"
    /\ LET b == batch[p]  t == Current(p)  o == answer[p]
           attempts == Append(Front(row[b][t]), o) IN
        /\ Store(b, t, attempts)
        /\ IF o = "indeterminate" \/ Systemic(o) THEN EndCommand(p)
           ELSE /\ answer' = [answer EXCEPT ![p] = None]
                /\ MoveTo(p, IF StatusOf(attempts) = "retryable_failure"
                           THEN "begin" ELSE "task")
                /\ UNCHANGED <<word, batch, plan, rest, holder>>
    /\ UNCHANGED <<manifest, litter, ledger, ghost, commands, crashes>>

---------------------------------------------------------------------------
\* The process is killed: the kernel drops its locks, the directory it was
\* staging stays.
Kill(p) ==
    /\ phase[p] # "idle" /\ crashes < MaxCrashes /\ crashes' = crashes + 1
    /\ litter' = (litter \/ phase[p] = "staging")
    /\ EndCommand(p)
    /\ UNCHANGED <<manifest, row, ledger, ghost, commands>>

DiscoveryNext ==
    \E p \in Process :
        \/ Plan(p) \/ Resume(p) \/ Lock(p) \/ Stage(p)
        \/ Open(p) \/ SkipTask(p) \/ RefuseTask(p) \/ Recover(p)
        \/ TakeTask(p) \/ Finish(p) \/ BeginAttempt(p) \/ RefuseCall(p)
        \/ Send(p) \/ Answer(p) \/ Complete(p) \/ Kill(p)

DiscoverySpec == DiscoveryInit /\ [][DiscoveryNext]_discoveryVars

---------------------------------------------------------------------------
(***************************************************************************)
(* Properties.                                                             *)
(***************************************************************************)
\* Whatever was killed and resumed, a row has at least as many attempts on
\* disk as requests left for it, so no more than MaxAttempts ever leave; and
\* every stored batch still passes the validation that each later run, of any
\* batch, begins with: one row it rejects would stop them all.
MoneyLeavesAMark ==
    /\ DiscoveryTypeOK
    /\ \A b \in Batch : ValidBatch(b)
    /\ \A b \in Batch, t \in Target : sent[b][t] <= Len(row[b][t])

\* A search whose answer was lost, by a crash or by the provider, is bought
\* again only by a run whose operator allowed it, and that holds for the same
\* request of another batch, which knows nothing of the first one's rows.
LostNeedsWord ==
    \A p \in Process, t \in Target :
        phase[p] = "call" /\ phase'[p] = "wait" /\ t = Current(p)
        => t \notin astray \/ word[p]

\* Evidence is only added: an answer, a refusal or a spent budget closes its
\* row for good, and of the attempts only the open one is ever rewritten.
EvidenceStands ==
    \A b \in Batch, t \in Target :
        /\ Status(b, t) \in Terminal => row'[b][t] = row[b][t]
        /\ \A i \in DOMAIN row[b][t] : row[b][t][i] # "in_flight" =>
                i \in DOMAIN row'[b][t] /\ row'[b][t][i] = row[b][t][i]

\* Both, of every step of any two processes over the batches.
SpentOnceAndKept == [][LostNeedsWord /\ EvidenceStands]_discoveryVars
=============================================================================
