-------------------------------- MODULE Outreach --------------------------------
(***************************************************************************)
(* The "Request draft" button of one rich card and the handoff to          *)
(* Persequor behind it (campaign/actions.py, persequor_client.py).         *)
(*                                                                         *)
(* A rep's click is handled in its own thread: it claims the card's one    *)
(* draft action, persists the brief as an outreach row and posts it.  A    *)
(* retry worker picks up rows whose post did not get through.  Handlers    *)
(* and workers meet only in the database, and each decides from a row it   *)
(* read some steps ago.  Persequor is idempotent by request id and may     *)
(* accept a post whose answer is lost.                                     *)
(*                                                                         *)
(* A request id is a function of card and requester, so a rep names one.   *)
(***************************************************************************)
EXTENDS Integers, FiniteSets

CONSTANTS Rep,
          NoRep,
          Handler,      \* threads that may handle a click
          Worker,       \* processes that may run retry_pending
          MaxAttempts,  \* DEFAULT_MAX_ATTEMPTS
          MaxCrashes    \* BOUND: handlers and workers that die

Proc == Handler \cup Worker

ASSUME OutreachAssumption ==
    /\ NoRep \notin Rep
    /\ Handler \cap Worker = {}
    /\ MaxAttempts \in Nat /\ MaxAttempts > 0
    /\ MaxCrashes \in Nat

VARIABLES
    action,    \* the draft row of rich_card_actions
    outreach,  \* the outreach row of each rep's request
    expired,   \* the frozen contact or spend-window evidence has run out
    pc,
    rep,       \* whose request a process works on
    tried,     \* attempts, as read with the row
    stale,     \* the evidence was expired when the worker looked at its clock
    answer,    \* of Persequor, then of the submission
    accepted,  \* requests Persequor has accepted
    asked,     \* history: requests posted at least once
    acked,     \* history: requests whose row has been submitted
    crashes

row == <<action, outreach>>
local == <<pc, rep, tried, stale, answer>>
history == <<accepted, asked, acked>>
vars == <<row, expired, local, history, crashes>>

NoAction == [by |-> NoRep, state |-> "none"]
NoRequest == [status |-> "none", attempts |-> 0, due |-> FALSE]

\* Every value stays in its domain: in particular no request is attempted
\* more than MaxAttempts times.
TypeOK ==
    /\ action \in [by : Rep \cup {NoRep},
                   state : {"none", "requested", "accepted", "rejected"}]
    /\ outreach \in
         [Rep -> [status : {"none", "queued", "sending", "submitted",
                            "rejected", "failed"},
                  attempts : 0..MaxAttempts, due : BOOLEAN]]
    /\ expired \in BOOLEAN
    /\ pc \in [Proc -> {"idle", "look", "insert", "persist", "saved", "claim",
                        "post", "posted", "reply"}]
    /\ rep \in [Proc -> Rep \cup {NoRep}]
    /\ \A p \in Proc : pc[p] # "idle" => rep[p] \in Rep
    /\ tried \in [Proc -> 0..MaxAttempts]
    /\ stale \in [Proc -> BOOLEAN]
    /\ answer \in [Proc -> {"none", "ok", "later", "no"}]
    /\ accepted \subseteq Rep /\ asked \subseteq Rep /\ acked \subseteq Rep
    /\ crashes \in 0..MaxCrashes

Init ==
    /\ action = NoAction
    /\ outreach = [r \in Rep |-> NoRequest]
    /\ expired = FALSE
    /\ pc = [p \in Proc |-> "idle"]
    /\ rep = [p \in Proc |-> NoRep]
    /\ tried = [p \in Proc |-> 0]
    /\ stale = [p \in Proc |-> FALSE]
    /\ answer = [p \in Proc |-> "none"]
    /\ accepted = {} /\ asked = {} /\ acked = {}
    /\ crashes = 0

Goto(p, l) == pc' = [pc EXCEPT ![p] = l]

End(p) ==
    /\ Goto(p, "idle")
    /\ rep' = [rep EXCEPT ![p] = NoRep]
    /\ tried' = [tried EXCEPT ![p] = 0]
    /\ stale' = [stale EXCEPT ![p] = FALSE]
    /\ answer' = [answer EXCEPT ![p] = "none"]

\* Leave the submission with its state: ok, later ("unreachable") or no.
Reply(p, a) ==
    /\ answer' = [answer EXCEPT ![p] = a]
    /\ Goto(p, "reply")

\* The row of request r gets a status; due says whether a worker may list it.
SetRow(r, s, due) ==
    outreach' = [outreach EXCEPT ![r] =
                    [status |-> s, attempts |-> outreach[r].attempts, due |-> due]]

---------------------------------------------------------------------------
(***************************************************************************)
(* request_draft, up to the submitter.                                     *)
(***************************************************************************)
\* _authorized_snapshot let the rep through; _fresh_contact is the first test.
Click(h, r) ==
    /\ pc[h] = "idle"
    /\ ~expired
    /\ rep' = [rep EXCEPT ![h] = r]
    /\ Goto(h, "look")
    /\ UNCHANGED <<row, expired, tried, stale, answer, history, crashes>>

FirstClick(h) ==
    /\ pc[h] = "look" /\ action = NoAction
    /\ Goto(h, "insert")
    /\ UNCHANGED <<row, expired, rep, tried, stale, answer, history, crashes>>

\* Taken by another rep, or already answered.
ClickRefused(h) ==
    /\ pc[h] = "look" /\ action # NoAction
    /\ action.by # rep[h] \/ action.state # "requested"
    /\ End(h)
    /\ UNCHANGED <<row, expired, history, crashes>>

\* The rep's own action is still open: re-enter the idempotent submitter.
ClickAgain(h) ==
    /\ pc[h] = "look"
    /\ action = [by |-> rep[h], state |-> "requested"]
    /\ Goto(h, "persist")
    /\ UNCHANGED <<row, expired, rep, tried, stale, answer, history, crashes>>

\* idx_rich_draft_once: the second of two inserts raises.
InsertAction(h) ==
    /\ pc[h] = "insert"
    /\ \/ /\ action = NoAction
          /\ action' = [by |-> rep[h], state |-> "requested"]
          /\ Goto(h, "persist")
          /\ UNCHANGED <<rep, tried, stale, answer>>
       \/ /\ action # NoAction
          /\ End(h)
          /\ UNCHANGED action
    /\ UNCHANGED <<outreach, expired, history, crashes>>

(***************************************************************************)
(* submit_brief: INSERT OR IGNORE, then read the row and go by its status. *)
(***************************************************************************)
Persist(h) ==
    /\ pc[h] = "persist" /\ outreach[rep[h]] = NoRequest
    /\ outreach' = [outreach EXCEPT ![rep[h]] =
                       [status |-> "queued", attempts |-> 0, due |-> TRUE]]
    /\ Goto(h, "saved")
    /\ UNCHANGED <<action, expired, rep, tried, stale, answer, history, crashes>>

PersistIgnored(h) ==
    /\ pc[h] = "persist" /\ outreach[rep[h]] # NoRequest
    /\ LET status == outreach[rep[h]].status
       IN Reply(h, CASE status = "submitted" -> "ok"
                     [] status \in {"rejected", "failed"} -> "no"
                     [] status \in {"queued", "sending"} -> "later")
    /\ UNCHANGED <<row, expired, rep, tried, stale, history, crashes>>

ReadSaved(h) ==
    /\ pc[h] = "saved"
    /\ LET status == outreach[rep[h]].status
       IN \/ status \in {"submitted", "rejected"}
             /\ Reply(h, IF status = "submitted" THEN "ok" ELSE "no")
             /\ UNCHANGED tried
          \/ status \notin {"submitted", "rejected"}
             /\ tried' = [tried EXCEPT ![h] = outreach[rep[h]].attempts]
             /\ Goto(h, "claim")
             /\ UNCHANGED answer
    /\ UNCHANGED <<row, expired, rep, stale, history, crashes>>

---------------------------------------------------------------------------
(***************************************************************************)
(* retry_pending: read the due rows and the clock once, then work them off.*)
(***************************************************************************)
PickUp(k, r) ==
    /\ pc[k] = "idle"
    /\ outreach[r].status = "queued" /\ outreach[r].due
    /\ outreach[r].attempts < MaxAttempts
    /\ rep' = [rep EXCEPT ![k] = r]
    /\ tried' = [tried EXCEPT ![k] = outreach[r].attempts]
    /\ stale' = [stale EXCEPT ![k] = expired]
    /\ Goto(k, "claim")
    /\ UNCHANGED <<row, expired, answer, history, crashes>>

\* _brief_expired: the row is rejected, whatever it says by now.
RejectExpired(k) ==
    /\ pc[k] = "claim" /\ stale[k]
    /\ SetRow(rep[k], "rejected", FALSE)
    /\ Reply(k, "no")
    /\ UNCHANGED <<action, expired, rep, tried, stale, history, crashes>>

\* Mutant of ClaimRow: UPDATE without "AND status = 'queued'".
ClaimAnyRow(p) ==
    /\ pc[p] = "claim" /\ ~stale[p]
    /\ tried' = [tried EXCEPT ![p] = @ + 1]
    /\ outreach' = [outreach EXCEPT ![rep[p]] =
          [status |-> "sending", attempts |-> tried[p] + 1, due |-> FALSE]]
    /\ Goto(p, "post")
    /\ UNCHANGED <<action, expired, rep, stale, answer, history, crashes>>

(***************************************************************************)
(* _attempt_saved: claim the row by its status, post, record.              *)
(***************************************************************************)
ClaimRow(p) ==
    /\ pc[p] = "claim" /\ ~stale[p]
    /\ outreach[rep[p]].status = "queued"
    /\ tried' = [tried EXCEPT ![p] = @ + 1]
    /\ outreach' = [outreach EXCEPT ![rep[p]] =
          [status |-> "sending", attempts |-> tried[p] + 1, due |-> FALSE]]
    /\ Goto(p, "post")
    /\ UNCHANGED <<action, expired, rep, stale, answer, history, crashes>>

ClaimLost(p) ==
    /\ pc[p] = "claim" /\ ~stale[p]
    /\ outreach[rep[p]].status # "queued"
    /\ Reply(p, "later")
    /\ UNCHANGED <<row, expired, rep, tried, stale, history, crashes>>

\* 2xx; 404, 5xx or no answer, although Persequor may have taken it; or 4xx.
Post(p) ==
    /\ pc[p] = "post"
    /\ asked' = asked \cup {rep[p]}
    /\ \E a \in {"ok", "later", "no"} :
          /\ answer' = [answer EXCEPT ![p] = a]
          /\ \/ a # "no" /\ accepted' = accepted \cup {rep[p]}
             \/ a # "ok" /\ UNCHANGED accepted
    /\ Goto(p, "posted")
    /\ UNCHANGED <<row, expired, rep, tried, stale, acked, crashes>>

\* _queue_retry: queued for later until the attempts are spent.
AfterRetryable(p) ==
    IF tried[p] < MaxAttempts THEN "queued" ELSE "failed"

\* Mutant of RecordAnswer: every answer but a refusal counts as submitted.
RecordOptimistically(p) ==
    /\ pc[p] = "posted"
    /\ LET status == IF answer[p] = "no" THEN "rejected" ELSE "submitted"
       IN /\ SetRow(rep[p], status, FALSE)
          /\ acked' = IF status = "submitted" THEN acked \cup {rep[p]} ELSE acked
    /\ Goto(p, "reply")
    /\ UNCHANGED <<action, expired, rep, tried, stale, answer, accepted, asked,
                   crashes>>

RecordAnswer(p) ==
    /\ pc[p] = "posted"
    /\ LET status == CASE answer[p] = "ok" -> "submitted"
                       [] answer[p] = "no" -> "rejected"
                       [] answer[p] = "later" -> AfterRetryable(p)
       IN /\ SetRow(rep[p], status, FALSE)
          /\ acked' = IF status = "submitted" THEN acked \cup {rep[p]} ELSE acked
    /\ Goto(p, "reply")
    /\ UNCHANGED <<action, expired, rep, tried, stale, answer, accepted, asked,
                   crashes>>

(***************************************************************************)
(* The end of request_draft, and _reconcile_rich_action: the card's action *)
(* takes the submission's state, whatever state it has.                    *)
(***************************************************************************)
Mirror(p) ==
    /\ pc[p] = "reply"
    /\ action' = IF action.by = rep[p]
                 THEN [action EXCEPT !.state =
                          CASE answer[p] = "ok" -> "accepted"
                            [] answer[p] = "no" -> "rejected"
                            [] answer[p] = "later" -> "requested"]
                 ELSE action
    /\ End(p)
    /\ UNCHANGED <<outreach, expired, history, crashes>>

Crash(p) ==
    /\ pc[p] # "idle" /\ crashes < MaxCrashes
    /\ crashes' = crashes + 1
    /\ End(p)
    /\ UNCHANGED <<row, expired, history>>

EvidenceExpires ==
    /\ ~expired /\ expired' = TRUE
    /\ UNCHANGED <<row, local, history, crashes>>

\* next_attempt_at passes.
RetryDue(r) ==
    /\ outreach[r].status = "queued" /\ ~outreach[r].due
    /\ SetRow(r, "queued", TRUE)
    /\ UNCHANGED <<action, expired, local, history, crashes>>

Next ==
    \/ \E h \in Handler :
          \/ \E r \in Rep : Click(h, r)
          \/ FirstClick(h) \/ ClickRefused(h) \/ ClickAgain(h) \/ InsertAction(h)
          \/ Persist(h) \/ PersistIgnored(h) \/ ReadSaved(h)
    \/ \E k \in Worker : (\E r \in Rep : PickUp(k, r)) \/ RejectExpired(k)
    \/ \E p \in Proc :
          \/ ClaimRow(p) \/ ClaimLost(p) \/ Post(p) \/ RecordAnswer(p)
          \/ Mirror(p) \/ Crash(p)
    \/ EvidenceExpires
    \/ \E r \in Rep : RetryDue(r)

Spec == Init /\ [][Next]_vars

---------------------------------------------------------------------------
(***************************************************************************)
(* Two reps who click at once do not both get a draft: Persequor hears of  *)
(* one requester per card (idx_rich_draft_once, request_draft).            *)
(***************************************************************************)
OneRequesterPerCard == \A q, r \in asked : q = r

(***************************************************************************)
(* A request is in the hands of one process at a time, whatever rows the   *)
(* others still hold (the claim in _attempt_saved).                        *)
(***************************************************************************)
SingleFlight ==
    \A p, q \in Proc :
        pc[p] \in {"post", "posted"} /\ pc[q] \in {"post", "posted"}
            /\ rep[p] = rep[q] => p = q

(***************************************************************************)
(* The recorded state is truthful: what is called submitted, or accepted   *)
(* on the card, Persequor did accept.                                      *)
(***************************************************************************)
AcceptedIsTrue ==
    /\ \A r \in Rep : outreach[r].status = "submitted" => r \in accepted
    /\ action.state = "accepted" => action.by \in accepted

(***************************************************************************)
(* A handoff that was once recorded as submitted is never posted again,    *)
(* not even after another process overwrote the record.                    *)
(***************************************************************************)
NeverResent ==
    \A p \in Proc : pc[p] = "post" => rep[p] \notin acked

================================================================================
