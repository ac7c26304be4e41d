-------------------------------- MODULE PaidPull --------------------------------
(***************************************************************************)
(* Buying ZoomInfo contacts (slack/paid_pull.py, contact_fill.py,          *)
(* enrich/zoominfo_enrichment.py) against the account-wide credit ledger   *)
(* (enrich/zoominfo_credits.py).                                           *)
(*                                                                         *)
(* A rep prices a set of leads for free and confirms; the confirmed run    *)
(* goes through the leads and buys contacts for each under one ledger row, *)
(* whose key is the lead and the people chosen.  A rep may also buy for    *)
(* one lead directly.  Runs are threads and processes that meet only in    *)
(* the ledger: the whole cost is reserved before the call and settled to   *)
(* what the vendor billed after it.  The vendor may bill and not answer; a *)
(* run may die anywhere; each process reads the monthly limit from its own *)
(* environment; the month may turn at any point.                           *)
(*                                                                         *)
(* The free search ranks people deterministically, so a lead stands for    *)
(* its key.  Its price, Cost, is the number of people chosen.              *)
(***************************************************************************)
EXTENDS Integers, FiniteSets

CONSTANTS Caller,       \* runs that may be under way
          Lead,
          NoLead,
          Cost,         \* Lead -> people to buy
          PerLead,      \* contact_fill.PER_LEAD
          Limits,       \* values of ZOOMINFO_MONTHLY_CREDITS in use
          Ceilings,     \* max_credits asked for, within MAX_CREDITS_PER_CALL
          MaxPeriod     \* BOUND: months

Period == 1..MaxPeriod

ASSUME PullAssumption ==
    /\ IsFiniteSet(Lead) /\ NoLead \notin Lead
    /\ PerLead \in Nat
    /\ Cost \in [Lead -> 1..PerLead]
    /\ Limits \subseteq Nat \ {0}
    /\ Ceilings \subseteq Nat \ {0}
    /\ MaxPeriod \in Nat \ {0}

VARIABLES
    \* the ledger
    consumed,  \* zoominfo_credit_periods.consumed
    limit,     \* zoominfo_credit_periods.credit_limit, 0 for no row
    spends,    \* zoominfo_credit_spends, one row per key
    period,    \* the calendar month
    \* the application
    stored,    \* leads with a vendor contact
    priced,    \* _PRICED_RUNS: the last priced ceiling, 0 when forgotten
    \* each run
    pc, todo, lead, ceiling, spent,
    per,       \* the month read by reserve
    billed,    \* records the answer bills
    \* history
    vendor,    \* credits the vendor charged for a key
    calls,     \* calls that reached the vendor
    runBill    \* charged to the vendor account by this run

ledger == <<consumed, limit, spends>>
app == <<stored, priced>>
run == <<todo, lead, ceiling, spent, per, billed>>
hist == <<vendor, calls, runBill>>
vars == <<ledger, period, app, pc, run, hist>>

NoSpend == [state |-> "none", period |-> 1, billed |-> 0]

RunTypeOK ==
    /\ pc \in [Caller -> {"idle", "loop", "ensure", "reserve", "call",
                          "settle", "mark", "save"}]
    /\ todo \in [Caller -> SUBSET Lead]
    /\ lead \in [Caller -> Lead \cup {NoLead}]
    /\ \A c \in Caller : pc[c] \notin {"idle", "loop"} => lead[c] \in Lead
    /\ ceiling \in [Caller -> Nat]
    /\ spent \in [Caller -> Nat]
    /\ per \in [Caller -> Period]
    /\ billed \in [Caller -> Nat]
    /\ runBill \in [Caller -> Nat]

\* Every value stays in its domain; a run at a pull has a lead.
TypeOK ==
    /\ consumed \in [Period -> Nat]
    /\ limit \in [Period -> Limits \cup {0}]
    /\ spends \in [Lead -> [state : {"none", "reserved", "settled",
                                     "indeterminate", "released"},
                            period : Period, billed : Nat]]
    /\ period \in Period
    /\ stored \subseteq Lead
    /\ priced \in Ceilings \cup {0}
    /\ vendor \in [Lead -> Nat] /\ calls \in [Lead -> Nat]
    /\ RunTypeOK

Init ==
    /\ consumed = [p \in Period |-> 0]
    /\ limit = [p \in Period |-> 0]
    /\ spends = [l \in Lead |-> NoSpend]
    /\ period = 1
    /\ stored = {} /\ priced = 0
    /\ pc = [c \in Caller |-> "idle"]
    /\ todo = [c \in Caller |-> {}]
    /\ lead = [c \in Caller |-> NoLead]
    /\ ceiling = [c \in Caller |-> 0]
    /\ spent = [c \in Caller |-> 0]
    /\ per = [c \in Caller |-> 1]
    /\ billed = [c \in Caller |-> 0]
    /\ vendor = [l \in Lead |-> 0] /\ calls = [l \in Lead |-> 0]
    /\ runBill = [c \in Caller |-> 0]

Goto(c, p) == pc' = [pc EXCEPT ![c] = p]

End(c) ==
    /\ Goto(c, "idle")
    /\ todo' = [todo EXCEPT ![c] = {}]
    /\ lead' = [lead EXCEPT ![c] = NoLead]
    /\ ceiling' = [ceiling EXCEPT ![c] = 0]
    /\ spent' = [spent EXCEPT ![c] = 0]
    /\ per' = [per EXCEPT ![c] = 1]
    /\ billed' = [billed EXCEPT ![c] = 0]
    /\ runBill' = [runBill EXCEPT ![c] = 0]

\* On to the next lead.
Advance(c) ==
    /\ Goto(c, "loop")
    /\ todo' = [todo EXCEPT ![c] = @ \ {lead[c]}]
    /\ lead' = [lead EXCEPT ![c] = NoLead]
    /\ per' = [per EXCEPT ![c] = 1]
    /\ billed' = [billed EXCEPT ![c] = 0]
    /\ UNCHANGED ceiling

---------------------------------------------------------------------------
(***************************************************************************)
(* _zoominfo_fill_many: price, then confirm.                               *)
(***************************************************************************)
\* remaining: the row if there is one, else this process's own limit.
Remaining(n) ==
    IF limit[period] = 0 THEN n
    ELSE IF consumed[period] > limit[period] THEN 0
    ELSE limit[period] - consumed[period]

Price(m, n) ==
    /\ m <= Remaining(n)
    /\ priced' = m
    /\ UNCHANGED <<ledger, period, stored, pc, run, hist>>

\* The hour passes, or the bot restarts.
Forget ==
    /\ priced # 0 /\ priced' = 0
    /\ UNCHANGED <<ledger, period, stored, pc, run, hist>>

Confirm(c, m, n) ==
    /\ pc[c] = "idle"
    /\ m <= priced                 \* _require_priced_run
    /\ m <= Remaining(n)
    /\ Goto(c, "loop")
    /\ todo' = [todo EXCEPT ![c] = Lead]
    /\ ceiling' = [ceiling EXCEPT ![c] = m]
    /\ UNCHANGED <<ledger, period, app, lead, spent, per, billed, hist>>

\* zoominfo_enrich_contacts: one lead, approved in conversation.
PullOne(c, l) ==
    /\ pc[c] = "idle"
    /\ Goto(c, "ensure")
    /\ lead' = [lead EXCEPT ![c] = l]
    /\ ceiling' = [ceiling EXCEPT ![c] = Cost[l]]
    /\ UNCHANGED <<ledger, period, app, todo, spent, per, billed, hist>>

(***************************************************************************)
(* fill_contacts: one lead after another.                                  *)
(***************************************************************************)
\* A contact is there already, nobody matches, or the ceiling is too near.
Skip(c, l) ==
    /\ pc[c] = "loop" /\ l \in todo[c]
    /\ todo' = [todo EXCEPT ![c] = @ \ {l}]
    /\ UNCHANGED <<ledger, period, app, pc, lead, ceiling, spent, per, billed, hist>>

\* Mutant of Take: the price of this lead is not added before the comparison.
TakeUpToCeiling(c, l) ==
    /\ pc[c] = "loop" /\ l \in todo[c]
    /\ l \notin stored
    /\ spent[c] < ceiling[c]
    /\ lead' = [lead EXCEPT ![c] = l]
    /\ Goto(c, "ensure")
    /\ UNCHANGED <<ledger, period, app, todo, ceiling, spent, per, billed, hist>>

Take(c, l) ==
    /\ pc[c] = "loop" /\ l \in todo[c]
    /\ l \notin stored
    /\ spent[c] + Cost[l] <= ceiling[c]
    /\ lead' = [lead EXCEPT ![c] = l]
    /\ Goto(c, "ensure")
    /\ UNCHANGED <<ledger, period, app, todo, ceiling, spent, per, billed, hist>>

\* All done, or the free search failed.
Finish(c) ==
    /\ pc[c] = "loop"
    /\ End(c)
    /\ UNCHANGED <<ledger, period, app, vendor, calls>>

---------------------------------------------------------------------------
(***************************************************************************)
(* reserve: first ensure_period, a commit of its own, then the claim.      *)
(***************************************************************************)
EnsurePeriod(c, n) ==
    /\ pc[c] = "ensure"
    /\ per' = [per EXCEPT ![c] = period]
    /\ limit' = [limit EXCEPT ![period] = n]
    /\ Goto(c, "reserve")
    /\ UNCHANGED <<consumed, spends, period, app, todo, lead, ceiling, spent,
                   billed, hist>>

\* Mutant of HasRoom: room for one credit is taken for room for all of them.
HasSomeRoom(c) == consumed[per[c]] < limit[per[c]]

HasRoom(c) == consumed[per[c]] + Cost[lead[c]] <= limit[per[c]]

Reserve(c) ==
    /\ pc[c] = "reserve" /\ spends[lead[c]].state = "none"
    /\ HasRoom(c)
    /\ consumed' = [consumed EXCEPT ![per[c]] = @ + Cost[lead[c]]]
    /\ spends' = [spends EXCEPT ![lead[c]] =
                     [state |-> "reserved", period |-> per[c], billed |-> 0]]
    /\ per' = [per EXCEPT ![c] = 1]
    /\ Goto(c, "call")
    /\ UNCHANGED <<limit, period, app, todo, lead, ceiling, spent, billed, hist>>

\* BudgetExhausted and SpendIndeterminate end the run, AlreadySpent the lead.
ReserveRefused(c) ==
    /\ pc[c] = "reserve"
    /\ LET state == spends[lead[c]].state
       IN \/ \/ state = "none" /\ ~HasRoom(c)
             \/ state \in {"reserved", "indeterminate"}
             /\ End(c)
             /\ UNCHANGED <<vendor, calls>>
          \/ /\ state \in {"settled", "released"}
             /\ Advance(c)
             /\ UNCHANGED <<spent, hist>>
    /\ UNCHANGED <<ledger, period, app>>

---------------------------------------------------------------------------
(***************************************************************************)
(* enrich_contacts: the vendor bills at most what was asked for.           *)
(***************************************************************************)
Charge(c, b) ==
    /\ vendor' = [vendor EXCEPT ![lead[c]] = @ + b]
    /\ calls' = [calls EXCEPT ![lead[c]] = @ + 1]
    /\ runBill' = [runBill EXCEPT ![c] = @ + b]

Answered(c, b) ==
    /\ pc[c] = "call" /\ b <= Cost[lead[c]]
    /\ Charge(c, b)
    /\ billed' = [billed EXCEPT ![c] = b]
    /\ Goto(c, "settle")
    /\ UNCHANGED <<ledger, period, app, todo, lead, ceiling, spent, per>>

\* No usable answer, whatever the vendor billed, or no call at all.
Fails(c) ==
    /\ pc[c] = "call"
    /\ \/ UNCHANGED hist
       \/ \E b \in 0..Cost[lead[c]] : Charge(c, b)
    /\ Goto(c, "mark")
    /\ UNCHANGED <<ledger, period, app, run>>

\* Mutant of Refund: credits are given back to the current month.
RefundNow(l, n) ==
    consumed' = [consumed EXCEPT ![period] = IF n > @ THEN 0 ELSE @ - n]

\* Give n credits back to the period the row belongs to: MAX(0, ...).
Refund(l, n) ==
    consumed' = [consumed EXCEPT ![spends[l].period] = IF n > @ THEN 0 ELSE @ - n]

SettleRow(l, b) ==
    /\ Refund(l, Cost[l] - b)
    /\ spends' = [spends EXCEPT ![l].state = "settled", ![l].billed = b]

Settle(c) ==
    /\ pc[c] = "settle" /\ spends[lead[c]].state \in {"reserved", "indeterminate"}
    /\ SettleRow(lead[c], billed[c])
    /\ Goto(c, "save")
    /\ UNCHANGED <<limit, period, app, run, hist>>

\* Mutant of MarkIndeterminate: a failed call is taken for one that cost nothing.
MarkReleased(c) ==
    /\ pc[c] = "mark" /\ spends[lead[c]].state = "reserved"
    /\ Refund(lead[c], Cost[lead[c]])
    /\ spends' = [spends EXCEPT ![lead[c]].state = "released"]
    /\ End(c)
    /\ UNCHANGED <<limit, period, app, vendor, calls>>

\* mark_indeterminate, and the exception goes on up: the run ends.
MarkIndeterminate(c) ==
    /\ pc[c] = "mark" /\ spends[lead[c]].state = "reserved"
    /\ spends' = [spends EXCEPT ![lead[c]].state = "indeterminate"]
    /\ End(c)
    /\ UNCHANGED <<consumed, limit, period, app, vendor, calls>>

\* save_vendor_contact for every matched person.
Save(c) ==
    /\ pc[c] = "save"
    /\ stored' = IF billed[c] > 0 THEN stored \cup {lead[c]} ELSE stored
    /\ spent' = [spent EXCEPT ![c] = @ + billed[c]]
    /\ Advance(c)
    /\ UNCHANGED <<ledger, period, priced, hist>>

Crash(c) ==
    /\ pc[c] # "idle"
    /\ End(c)
    /\ UNCHANGED <<ledger, period, app, vendor, calls>>

---------------------------------------------------------------------------
(***************************************************************************)
(* The two ways out of an uncertain row.  Neither has a command: an        *)
(* operator who knows what the vendor charged calls settle, or release for *)
(* a pull proven never to have reached the vendor, once no run is at it.   *)
(***************************************************************************)
Abandoned(l) ==
    /\ spends[l].state \in {"reserved", "indeterminate"}
    /\ \A c \in Caller : lead[c] = l => pc[c] \notin {"call", "settle", "mark"}

Reconcile(l) ==
    /\ Abandoned(l)
    /\ SettleRow(l, vendor[l])
    /\ UNCHANGED <<limit, period, app, pc, run, hist>>

Release(l) ==
    /\ Abandoned(l) /\ spends[l].state = "reserved" /\ calls[l] = 0
    /\ Refund(l, Cost[l])
    /\ spends' = [spends EXCEPT ![l].state = "released"]
    /\ UNCHANGED <<limit, period, app, pc, run, hist>>

NextMonth ==
    /\ period < MaxPeriod /\ period' = period + 1
    /\ UNCHANGED <<ledger, app, pc, run, hist>>

RunStep(c) ==
    \/ \E m \in Ceilings, n \in Limits : Confirm(c, m, n)
    \/ \E l \in Lead : PullOne(c, l) \/ Skip(c, l) \/ Take(c, l)
    \/ Finish(c)
    \/ \E n \in Limits : EnsurePeriod(c, n)
    \/ Reserve(c) \/ ReserveRefused(c)
    \/ \E b \in 0..PerLead : Answered(c, b)
    \/ Fails(c) \/ Settle(c) \/ MarkIndeterminate(c) \/ Save(c)
    \/ Crash(c)

Next ==
    \/ \E c \in Caller : RunStep(c)
    \/ \E m \in Ceilings, n \in Limits : Price(m, n)
    \/ Forget \/ NextMonth
    \/ \E l \in Lead : Reconcile(l) \/ Release(l)

Spec == Init /\ [][Next]_vars

---------------------------------------------------------------------------
(***************************************************************************)
(* Properties.  A credit is a pair of a lead and a number.                 *)
(***************************************************************************)
Counted(l) ==
    CASE spends[l].state \in {"reserved", "indeterminate"} -> Cost[l]
      [] spends[l].state = "settled" -> spends[l].billed
      [] spends[l].state \in {"none", "released"} -> 0

Credits == Lead \X (1..PerLead)

CreditsCounted(p) ==
    {u \in Credits : spends[u[1]].period = p /\ u[2] <= Counted(u[1])}

(***************************************************************************)
(* The counter and the rows say the same: what a month has consumed is the *)
(* sum of what its rows reserve or were billed, through any interleaving   *)
(* of reservations, refunds and the turn of the month (reserve, settle,    *)
(* release and their MAX(0, ...)).                                         *)
(***************************************************************************)
BooksBalance ==
    \A p \in Period : consumed[p] = Cardinality(CreditsCounted(p))

(***************************************************************************)
(* The ledger fails toward overcounting: whatever the vendor charged for a *)
(* key is counted, with no answer, after a crash and in between.           *)
(***************************************************************************)
NeverUnderstated == \A l \in Lead : vendor[l] <= Counted(l)

(***************************************************************************)
(* spend calls the vendor once per key, whoever asks again, whenever.      *)
(***************************************************************************)
CalledOnce == \A l \in Lead : calls[l] <= 1

(***************************************************************************)
(* Two callers can never both win the last credit: what the vendor charged *)
(* to a month's rows stays within a limit that was configured.             *)
(***************************************************************************)
CreditsCharged(p) ==
    {u \in Credits : spends[u[1]].period = p /\ u[2] <= vendor[u[1]]}

AccountWithinLimit ==
    \A p \in Period : CreditsCharged(p) # {} =>
        \E n \in Limits : Cardinality(CreditsCharged(p)) <= n

(***************************************************************************)
(* The budget decides before the money moves: no run is charged more than  *)
(* its ceiling, though it adds up what was billed and not what it reserved *)
(* (fill_contacts).                                                        *)
(***************************************************************************)
RunWithinCeiling == \A c \in Caller : runBill[c] <= ceiling[c]
================================================================================
