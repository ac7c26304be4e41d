------------------------------- MODULE Paid_proofs ------------------------------
(***************************************************************************)
(* Theorems about everything that is paid for: the ZoomInfo pulls          *)
(* (PaidPull) and the provider calls of lookups (PaidLookups); for any     *)
(* number of runs, leads, lookups, months and calls, any prices, limits    *)
(* and ceilings.                                                           *)
(***************************************************************************)
EXTENDS PaidPull, PaidLookups, FiniteSetTheorems, TLAPS

---------------------------------------------------------------------------
(***************************************************************************)
(* ZoomInfo pulls.                                                         *)
(***************************************************************************)
SpendRow == [state : {"none", "reserved", "settled", "indeterminate", "released"},
        period : Period, billed : Nat]

---------------------------------------------------------------------------
(***************************************************************************)
(* How End and Advance keep the types of a run.                            *)
(***************************************************************************)
LEMMA EndTypes ==
    ASSUME RunTypeOK, NEW c \in Caller, End(c)
    PROVE  RunTypeOK'
BY PullAssumption DEF RunTypeOK, End, Goto, Period

LEMMA AdvanceTypes ==
    ASSUME RunTypeOK, NEW c \in Caller, Advance(c),
           spent' \in [Caller -> Nat], UNCHANGED runBill
    PROVE  RunTypeOK'
<1>1. todo' \in [Caller -> SUBSET Lead]
  BY DEF RunTypeOK, Advance
<1>2. per' \in [Caller -> Period] /\ billed' \in [Caller -> Nat]
  BY PullAssumption DEF RunTypeOK, Advance, Period
<1>3. QED
  BY <1>1, <1>2 DEF RunTypeOK, Advance, Goto

LEMMA ChargeTypes ==
    ASSUME TypeOK, NEW c \in Caller, pc[c] = "call", NEW b \in Nat, Charge(c, b)
    PROVE  /\ vendor' \in [Lead -> Nat] /\ calls' \in [Lead -> Nat]
           /\ runBill' \in [Caller -> Nat]
BY DEF TypeOK, RunTypeOK, Charge

LEMMA RefundTypes ==
    ASSUME TypeOK, NEW l \in Lead, NEW n \in Int, Refund(l, n)
    PROVE  consumed' \in [Period -> Nat]
BY DEF TypeOK, Refund

LEMMA CostType == \A l \in Lead : Cost[l] \in 1..PerLead /\ Cost[l] \in Nat
BY PullAssumption

---------------------------------------------------------------------------
LEMMA InitTypeOK == Init => TypeOK
BY PullAssumption DEF Init, TypeOK, RunTypeOK, NoSpend, Period

(***************************************************************************)
(* The steps of a run that touch neither ledger nor vendor.                *)
(***************************************************************************)
LEMMA RunTypeStep ==
    ASSUME TypeOK, NEW c \in Caller,
           \/ \E m \in Ceilings, n \in Limits : Confirm(c, m, n)
           \/ \E l \in Lead : PullOne(c, l) \/ Skip(c, l) \/ Take(c, l)
           \/ Finish(c) \/ Crash(c)
    PROVE  TypeOK'
<1> USE PullAssumption DEF ledger, app, hist
<1>1. ASSUME NEW m \in Ceilings, NEW n \in Limits, Confirm(c, m, n)
      PROVE  TypeOK'
  BY <1>1 DEF TypeOK, RunTypeOK, Confirm, Goto
<1>2. ASSUME NEW l \in Lead, PullOne(c, l)
      PROVE  TypeOK'
  BY <1>2, CostType DEF TypeOK, RunTypeOK, PullOne, Goto
<1>3. ASSUME NEW l \in Lead, Skip(c, l)
      PROVE  TypeOK'
  BY <1>3 DEF TypeOK, RunTypeOK, Skip
<1>4. ASSUME NEW l \in Lead, Take(c, l)
      PROVE  TypeOK'
  BY <1>4 DEF TypeOK, RunTypeOK, Take, Goto
<1>5. CASE Finish(c)
  BY <1>5, EndTypes DEF TypeOK, Finish
<1>6. CASE Crash(c)
  BY <1>6, EndTypes DEF TypeOK, Crash
<1>7. QED
  BY <1>1, <1>2, <1>3, <1>4, <1>5, <1>6

LEMMA SettleRowTypes ==
    ASSUME TypeOK, NEW l \in Lead, NEW b \in Nat, SettleRow(l, b)
    PROVE  /\ consumed' \in [Period -> Nat]
           /\ spends' \in [Lead -> SpendRow]
<1>1. consumed' \in [Period -> Nat]
  BY RefundTypes, CostType DEF SettleRow
<1>2. QED
  BY <1>1 DEF TypeOK, SettleRow, SpendRow

(***************************************************************************)
(* The steps of a pull.                                                    *)
(***************************************************************************)
LEMMA PullTypeStep ==
    ASSUME TypeOK, NEW c \in Caller,
           \/ \E n \in Limits : EnsurePeriod(c, n)
           \/ Reserve(c) \/ ReserveRefused(c)
           \/ \E b \in 0..PerLead : Answered(c, b)
           \/ Fails(c) \/ Settle(c) \/ MarkIndeterminate(c) \/ Save(c)
    PROVE  TypeOK'
<1> USE PullAssumption DEF ledger, app, hist, run
<1>1. ASSUME NEW n \in Limits, EnsurePeriod(c, n)
      PROVE  TypeOK'
  BY <1>1 DEF TypeOK, RunTypeOK, EnsurePeriod, Goto
<1>2. CASE Reserve(c)
  <2>1. lead[c] \in Lead /\ per[c] \in Period
    BY <1>2 DEF TypeOK, RunTypeOK, Reserve
  <2>2. consumed' \in [Period -> Nat]
    BY <1>2, <2>1, CostType DEF TypeOK, Reserve
  <2>3. RunTypeOK'
    <3>1. per' \in [Caller -> Period]
      BY <1>2 DEF TypeOK, RunTypeOK, Reserve, Period
    <3>2. QED
      BY <1>2, <2>1, <3>1 DEF TypeOK, RunTypeOK, Reserve, Goto
  <2>4. [state |-> "reserved", period |-> per[c], billed |-> 0] \in SpendRow
    BY <2>1 DEF SpendRow
  <2>5. spends' \in [Lead -> SpendRow]
    BY <1>2, <2>1, <2>4 DEF TypeOK, Reserve, SpendRow
  <2>6. QED
    BY <1>2, <2>2, <2>3, <2>5 DEF TypeOK, Reserve, SpendRow
<1>3. CASE ReserveRefused(c)
  <2>1. RunTypeOK'
    BY <1>3, EndTypes, AdvanceTypes DEF TypeOK, RunTypeOK, ReserveRefused
  <2>2. QED
    BY <1>3, <2>1 DEF TypeOK, ReserveRefused
<1>4. ASSUME NEW b \in 0..PerLead, Answered(c, b)
      PROVE  TypeOK'
  <2>1. /\ vendor' \in [Lead -> Nat] /\ calls' \in [Lead -> Nat]
        /\ runBill' \in [Caller -> Nat]
    BY <1>4, ChargeTypes DEF Answered
  <2>2. RunTypeOK'
    <3>1. billed' \in [Caller -> Nat] /\ lead[c] \in Lead
      BY <1>4 DEF TypeOK, RunTypeOK, Answered
    <3>2. QED
      BY <1>4, <2>1, <3>1 DEF TypeOK, RunTypeOK, Answered, Goto
  <2>3. QED
    BY <1>4, <2>1, <2>2 DEF TypeOK, Answered
<1>5. CASE Fails(c)
  <2>1. lead[c] \in Lead
    BY <1>5 DEF TypeOK, RunTypeOK, Fails
  <2>2. /\ vendor' \in [Lead -> Nat] /\ calls' \in [Lead -> Nat]
        /\ runBill' \in [Caller -> Nat]
    BY <1>5, <2>1, ChargeTypes, CostType DEF Fails, TypeOK, RunTypeOK
  <2>3. RunTypeOK'
    BY <1>5, <2>2 DEF TypeOK, RunTypeOK, Fails, Goto
  <2>4. QED
    BY <1>5, <2>2, <2>3 DEF TypeOK, Fails
<1>6. CASE Settle(c)
  <2>1. lead[c] \in Lead /\ billed[c] \in Nat
    BY <1>6 DEF TypeOK, RunTypeOK, Settle
  <2>2. RunTypeOK'
    BY <1>6 DEF TypeOK, RunTypeOK, Settle, Goto
  <2>3. QED
    BY <1>6, <2>1, <2>2, SettleRowTypes DEF TypeOK, Settle, SpendRow
<1>7. CASE MarkIndeterminate(c)
  <2>1. RunTypeOK'
    BY <1>7, EndTypes DEF TypeOK, MarkIndeterminate
  <2>2. lead[c] \in Lead
    BY <1>7 DEF TypeOK, RunTypeOK, MarkIndeterminate
  <2>3. spends' \in [Lead -> SpendRow]
    <3>1. spends \in [Lead -> SpendRow]
      BY DEF TypeOK, SpendRow
    <3>2. spends' = [spends EXCEPT ![lead[c]].state = "indeterminate"]
      BY <1>7 DEF MarkIndeterminate
    <3>3. [spends[lead[c]] EXCEPT !.state = "indeterminate"] \in SpendRow
      BY <2>2, <3>1 DEF SpendRow
    <3>4. QED
      BY <2>2, <3>1, <3>2, <3>3
  <2>4. QED
    BY <1>7, <2>1, <2>3 DEF TypeOK, MarkIndeterminate, SpendRow
<1>8. CASE Save(c)
  <2>1. lead[c] \in Lead /\ spent' \in [Caller -> Nat]
    BY <1>8 DEF TypeOK, RunTypeOK, Save
  <2>2. RunTypeOK'
    BY <1>8, <2>1, AdvanceTypes DEF TypeOK, Save
  <2>3. QED
    BY <1>8, <2>1, <2>2 DEF TypeOK, Save
<1>9. QED
  BY <1>1, <1>2, <1>3, <1>4, <1>5, <1>6, <1>7, <1>8

(***************************************************************************)
(* The steps of everybody else.                                            *)
(***************************************************************************)
LEMMA OtherTypeStep ==
    ASSUME TypeOK,
           \/ \E m \in Ceilings, n \in Limits : Price(m, n)
           \/ Forget \/ NextMonth
           \/ \E l \in Lead : Reconcile(l) \/ Release(l)
    PROVE  TypeOK'
<1> USE DEF ledger, app, hist, run
<1>1. ASSUME NEW m \in Ceilings, NEW n \in Limits, Price(m, n)
      PROVE  TypeOK'
  BY <1>1 DEF TypeOK, RunTypeOK, Price
<1>2. CASE Forget
  BY <1>2 DEF TypeOK, RunTypeOK, Forget
<1>3. CASE NextMonth
  BY <1>3, PullAssumption DEF TypeOK, RunTypeOK, NextMonth, Period
<1>4. ASSUME NEW l \in Lead, Reconcile(l)
      PROVE  TypeOK'
  <2>1. vendor[l] \in Nat
    BY DEF TypeOK
  <2>2. QED
    BY <1>4, <2>1, SettleRowTypes DEF TypeOK, RunTypeOK, Reconcile, SpendRow
<1>5. ASSUME NEW l \in Lead, Release(l)
      PROVE  TypeOK'
  <2>1. consumed' \in [Period -> Nat]
    BY <1>5, RefundTypes, CostType DEF Release
  <2>2. spends' \in [Lead -> SpendRow]
    BY <1>5 DEF TypeOK, Release, SpendRow
  <2>3. QED
    BY <1>5, <2>1, <2>2 DEF TypeOK, RunTypeOK, Release, SpendRow
<1>6. QED
  BY <1>1, <1>2, <1>3, <1>4, <1>5

LEMMA NextTypeOK == TypeOK /\ [Next]_vars => TypeOK'
<1> SUFFICES ASSUME TypeOK, [Next]_vars
             PROVE  TypeOK'
  OBVIOUS
<1>1. ASSUME NEW c \in Caller, RunStep(c)
      PROVE  TypeOK'
  BY <1>1, RunTypeStep, PullTypeStep DEF RunStep
<1>2. CASE UNCHANGED vars
  BY <1>2 DEF TypeOK, RunTypeOK, vars, ledger, app, run, hist
<1>3. QED
  BY <1>1, <1>2, OtherTypeStep DEF Next

(***************************************************************************)
(* Every value stays in its domain: in particular a month's limit is one   *)
(* that was configured, and a run at a lead knows it (ensure_period, run). *)
(***************************************************************************)
THEOREM TypeCorrect == Spec => []TypeOK
BY InitTypeOK, NextTypeOK, PTL DEF Spec

---------------------------------------------------------------------------
(***************************************************************************)
(* A pull and its row.  A run on its way to the vendor and back has the    *)
(* row of its lead to itself, in state "reserved": the insert of reserve   *)
(* is the claim, and nobody settles or releases a row somebody is at.      *)
(***************************************************************************)
AtVendor == {"call", "settle", "mark"}

OwnSpend == \A c \in Caller :
    pc[c] \in AtVendor => spends[lead[c]].state = "reserved"

Alone == \A c, d \in Caller :
    pc[c] \in AtVendor /\ pc[d] \in AtVendor /\ lead[c] = lead[d] => c = d

\* What the vendor did, against the state of the row.
RowTrue(l) ==
    /\ spends[l].state = "none" => calls[l] = 0
    /\ calls[l] = 0 => vendor[l] = 0
    /\ calls[l] <= 1 /\ vendor[l] <= Cost[l]
    /\ spends[l].state = "settled" => spends[l].billed = vendor[l]
    /\ spends[l].state = "released" => vendor[l] = 0

\* What a run knows of the vendor.
RunTrue(c) ==
    /\ pc[c] = "call" => calls[lead[c]] = 0
    /\ pc[c] = "settle" => vendor[lead[c]] = billed[c]

PullInv ==
    /\ OwnSpend /\ Alone
    /\ \A l \in Lead : RowTrue(l)
    /\ \A c \in Caller : RunTrue(c)

\* Runs at the vendor stay as they are or leave.
Elsewhere ==
    \A c \in Caller : pc'[c] \in AtVendor =>
        pc[c] = pc'[c] /\ lead[c] = lead'[c] /\ billed[c] = billed'[c]

LEMMA ElsewhereStep ==
    ASSUME TypeOK, PullInv, Elsewhere, UNCHANGED <<spends, vendor, calls>>
    PROVE  PullInv'
BY DEF PullInv, Elsewhere, OwnSpend, Alone, RowTrue, RunTrue, AtVendor

LEMMA InitPullInv == Init => PullInv
BY CostType
DEF Init, PullInv, OwnSpend, Alone, RowTrue, RunTrue, AtVendor, NoSpend

LEMMA ElsewherePullInv ==
    ASSUME TypeOK, PullInv,
           \/ \E c \in Caller :
                 \/ \E m \in Ceilings, n \in Limits : Confirm(c, m, n)
                 \/ \E l \in Lead : PullOne(c, l) \/ Skip(c, l) \/ Take(c, l)
                 \/ Finish(c) \/ ReserveRefused(c) \/ Save(c) \/ Crash(c)
                 \/ \E n \in Limits : EnsurePeriod(c, n)
           \/ \E m \in Ceilings, n \in Limits : Price(m, n)
           \/ Forget \/ NextMonth
    PROVE  PullInv'
<1> USE DEF ledger, app, hist, run
<1>1. UNCHANGED <<spends, vendor, calls>>
  BY DEF Confirm, PullOne, Skip, Take, Finish, ReserveRefused, Save, Crash,
         EnsurePeriod, Price, Forget, NextMonth
<1>2. ASSUME NEW c \in Caller,
             \/ \E m \in Ceilings, n \in Limits : Confirm(c, m, n)
             \/ \E l \in Lead : PullOne(c, l) \/ Skip(c, l) \/ Take(c, l)
             \/ \E n \in Limits : EnsurePeriod(c, n)
      PROVE  Elsewhere
  BY <1>2 DEF Confirm, PullOne, Skip, Take, EnsurePeriod, Elsewhere, Goto,
              AtVendor, TypeOK, RunTypeOK
<1>3. ASSUME NEW c \in Caller,
             Finish(c) \/ ReserveRefused(c) \/ Save(c) \/ Crash(c)
      PROVE  Elsewhere
  <2>1. End(c) \/ Advance(c)
    BY <1>3 DEF Finish, ReserveRefused, Save, Crash
  <2>2. QED
    BY <2>1 DEF Elsewhere, End, Advance, Goto, AtVendor, TypeOK, RunTypeOK
<1>4. ASSUME \/ \E m \in Ceilings, n \in Limits : Price(m, n)
             \/ Forget \/ NextMonth
      PROVE  Elsewhere
  BY <1>4 DEF Price, Forget, NextMonth, Elsewhere
<1>5. QED
  BY <1>1, <1>2, <1>3, <1>4, ElsewhereStep

LEMMA ReservePullInv ==
    ASSUME TypeOK, PullInv, NEW c \in Caller, Reserve(c)
    PROVE  PullInv'
<1> USE DEF hist
<1>1. lead[c] \in Lead /\ spends[lead[c]].state = "none"
  BY DEF TypeOK, RunTypeOK, Reserve
<1>2. \A d \in Caller \ {c} : pc[d] \in AtVendor => lead[d] # lead[c]
  BY <1>1 DEF PullInv, OwnSpend
<1>3. /\ \A l \in Lead \ {lead[c]} : spends'[l] = spends[l]
      /\ spends'[lead[c]].state = "reserved"
  BY <1>1 DEF Reserve, TypeOK
<1>4. /\ pc'[c] = "call" /\ \A d \in Caller \ {c} : pc'[d] = pc[d]
      /\ UNCHANGED <<lead, billed, vendor, calls>>
  BY DEF Reserve, Goto, TypeOK, RunTypeOK
<1>5. OwnSpend'
  BY <1>2, <1>3, <1>4 DEF PullInv, OwnSpend, AtVendor, TypeOK, RunTypeOK
<1>6. Alone'
  BY <1>2, <1>4 DEF PullInv, Alone, AtVendor
<1>7. \A l \in Lead : RowTrue(l)'
  BY <1>1, <1>3, <1>4 DEF PullInv, RowTrue
<1>8. \A d \in Caller : RunTrue(d)'
  BY <1>1, <1>4 DEF PullInv, RowTrue, RunTrue
<1>9. QED
  BY <1>5, <1>6, <1>7, <1>8 DEF PullInv

(***************************************************************************)
(* A step of a run at the vendor that leaves all other rows alone.         *)
(***************************************************************************)
LEMMA AtVendorStep ==
    ASSUME TypeOK, PullInv, NEW c \in Caller, NEW k \in Lead, lead[c] = k,
           pc[c] \in AtVendor,
           \A l \in Lead \ {k} :
               /\ spends'[l] = spends[l]
               /\ vendor'[l] = vendor[l] /\ calls'[l] = calls[l],
           \A d \in Caller \ {c} :
               pc'[d] = pc[d] /\ lead'[d] = lead[d] /\ billed'[d] = billed[d],
           RowTrue(k)', RunTrue(c)',
           pc'[c] \in AtVendor => /\ lead'[c] = k
                                  /\ spends'[k].state = "reserved"
    PROVE  PullInv'
<1>1. \A d \in Caller \ {c} : pc[d] \in AtVendor =>
          lead[d] \in Lead \ {k}
  BY DEF PullInv, Alone, TypeOK, RunTypeOK, AtVendor
<1>2. OwnSpend'
  BY <1>1 DEF PullInv, OwnSpend
<1>3. Alone'
  BY <1>1 DEF PullInv, Alone
<1>4. \A l \in Lead : RowTrue(l)'
  BY DEF PullInv, RowTrue
<1>5. \A d \in Caller : RunTrue(d)'
  BY <1>1 DEF PullInv, RunTrue, AtVendor
<1>6. QED
  BY <1>2, <1>3, <1>4, <1>5 DEF PullInv

LEMMA VendorPullInv ==
    ASSUME TypeOK, PullInv, NEW c \in Caller,
           \/ \E b \in 0..PerLead : Answered(c, b)
           \/ Fails(c) \/ Settle(c) \/ MarkIndeterminate(c)
    PROVE  PullInv'
<1> USE DEF hist, run, app
<1> DEFINE k == lead[c]
<1>1. k \in Lead /\ pc[c] \in AtVendor
  BY DEF Answered, Fails, Settle, MarkIndeterminate, AtVendor, TypeOK, RunTypeOK
<1>2. spends[k].state = "reserved"
  BY <1>1 DEF PullInv, OwnSpend
<1>3. \A l \in Lead \ {k} :
          spends'[l] = spends[l] /\ vendor'[l] = vendor[l] /\ calls'[l] = calls[l]
  BY <1>1 DEF Answered, Fails, Settle, MarkIndeterminate, Charge, SettleRow,
              ledger, TypeOK
<1>4. \A d \in Caller \ {c} :
          pc'[d] = pc[d] /\ lead'[d] = lead[d] /\ billed'[d] = billed[d]
  BY DEF Answered, Fails, Settle, MarkIndeterminate, End, Goto, TypeOK, RunTypeOK
<1>5. RowTrue(k)
  BY <1>1 DEF PullInv
<1>6. RunTrue(c)
  BY DEF PullInv
<1>7. ASSUME NEW l \in Lead, l = k
      PROVE  /\ RowTrue(l)' /\ RunTrue(c)'
             /\ pc'[c] \in AtVendor =>
                   lead'[c] = l /\ spends'[l].state = "reserved"
  <2>1. ASSUME NEW b \in 0..PerLead, Answered(c, b)
        PROVE  /\ RowTrue(l)' /\ RunTrue(c)'
               /\ lead'[c] = l /\ spends'[l].state = "reserved"
    <3>1. /\ vendor'[l] = vendor[l] + b /\ calls'[l] = calls[l] + 1
          /\ b <= Cost[l] /\ pc[c] = "call"
          /\ UNCHANGED <<spends, lead>>
          /\ pc'[c] = "settle" /\ billed'[c] = b
      BY <1>7, <1>1, <2>1
      DEF Answered, Charge, ledger, Goto, TypeOK, RunTypeOK
    <3>2. vendor[l] = 0 /\ calls[l] = 0
      BY <1>5, <1>6, <1>7, <3>1 DEF RowTrue, RunTrue
    <3>3. QED
      BY <1>2, <1>7, <3>1, <3>2, CostType DEF RowTrue, RunTrue
  <2>2. CASE Fails(c)
    <3>1. /\ pc[c] = "call" /\ pc'[c] = "mark" /\ UNCHANGED <<spends, lead>>
      BY <2>2 DEF Fails, ledger, Goto, TypeOK, RunTypeOK
    <3>2. vendor[l] = 0 /\ calls[l] = 0
      BY <1>5, <1>6, <1>7, <3>1 DEF RowTrue, RunTrue
    <3>3. \/ vendor'[l] = 0 /\ calls'[l] = 0
          \/ vendor'[l] \in 0..Cost[l] /\ calls'[l] = 1
      BY <1>7, <2>2, <3>2, CostType DEF Fails, Charge, TypeOK
    <3>4. QED
      BY <1>2, <1>7, <3>1, <3>3, CostType DEF RowTrue, RunTrue
  <2>3. CASE Settle(c)
    <3>1. /\ spends'[l].state = "settled" /\ spends'[l].billed = billed[c]
          /\ pc[c] = "settle" /\ pc'[c] = "save"
          /\ UNCHANGED <<vendor, calls, lead, billed>>
      BY <1>7, <2>3 DEF Settle, SettleRow, Goto, TypeOK, RunTypeOK
    <3>2. QED
      BY <1>5, <1>6, <1>7, <3>1 DEF RowTrue, RunTrue, AtVendor
  <2>4. CASE MarkIndeterminate(c)
    <3>1. /\ spends'[l].state = "indeterminate" /\ pc'[c] = "idle"
          /\ UNCHANGED <<vendor, calls>>
      BY <1>7, <2>4 DEF MarkIndeterminate, End, Goto, TypeOK, RunTypeOK
    <3>2. QED
      BY <1>5, <1>7, <3>1 DEF RowTrue, RunTrue, AtVendor
  <2>5. QED
    BY <2>1, <2>2, <2>3, <2>4
<1>8. QED
  BY <1>1, <1>3, <1>4, <1>7, AtVendorStep

(***************************************************************************)
(* What an operator does to a row nobody is at.                            *)
(***************************************************************************)
LEMMA OperatorPullInv ==
    ASSUME TypeOK, PullInv, NEW l \in Lead, Reconcile(l) \/ Release(l)
    PROVE  PullInv'
<1> USE DEF hist, run, app
<1>1. UNCHANGED <<pc, lead, billed, vendor, calls>>
  BY DEF Reconcile, Release
<1>2. \A c \in Caller : lead[c] = l => pc[c] \notin AtVendor
  BY DEF Reconcile, Release, Abandoned, AtVendor
<1>3. \A k \in Lead \ {l} : spends'[k] = spends[k]
  BY DEF Reconcile, Release, SettleRow, TypeOK
<1>4. \/ spends'[l].state = "settled" /\ spends'[l].billed = vendor[l]
      \/ spends'[l].state = "released" /\ calls[l] = 0
  BY DEF Reconcile, Release, SettleRow, TypeOK
<1>5. OwnSpend'
  BY <1>1, <1>2, <1>3 DEF PullInv, OwnSpend, TypeOK, RunTypeOK, AtVendor
<1>6. Alone'
  BY <1>1 DEF PullInv, Alone
<1>7. \A k \in Lead : RowTrue(k)'
  BY <1>1, <1>3, <1>4 DEF PullInv, RowTrue
<1>8. \A c \in Caller : RunTrue(c)'
  BY <1>1 DEF PullInv, RunTrue
<1>9. QED
  BY <1>5, <1>6, <1>7, <1>8 DEF PullInv

LEMMA NextPullInv == TypeOK /\ PullInv /\ [Next]_vars => PullInv'
<1> SUFFICES ASSUME TypeOK, PullInv, [Next]_vars
             PROVE  PullInv'
  OBVIOUS
<1>1. CASE UNCHANGED vars
  BY <1>1 DEF PullInv, OwnSpend, Alone, RowTrue, RunTrue,
              vars, ledger, app, run, hist
<1>2. ASSUME NEW c \in Caller, RunStep(c)
      PROVE  PullInv'
  BY <1>2, ElsewherePullInv, ReservePullInv, VendorPullInv DEF RunStep
<1>3. QED
  BY <1>1, <1>2, ElsewherePullInv, OperatorPullInv DEF Next

\* A pull has its row to itself, and row and vendor agree, in every state.
THEOREM PullsInductive == Spec => [](TypeOK /\ PullInv)
BY InitTypeOK, NextTypeOK, InitPullInv, NextPullInv, PTL DEF Spec

(***************************************************************************)
(* spend calls the vendor at most once per key.                            *)
(***************************************************************************)
THEOREM OneCallPerKey == Spec => []CalledOnce
<1>1. PullInv => CalledOnce
  BY DEF PullInv, RowTrue, CalledOnce
<1>2. QED
  BY <1>1, PullsInductive, PTL

(***************************************************************************)
(* Whatever the vendor charged is counted by the row, in every state of a  *)
(* pull (spend, settle, mark_indeterminate, release).                      *)
(***************************************************************************)
THEOREM FailsTowardOvercounting == Spec => []NeverUnderstated
<1>1. TypeOK /\ PullInv => NeverUnderstated
  <2> SUFFICES ASSUME TypeOK, PullInv, NEW l \in Lead
               PROVE  vendor[l] <= Counted(l)
    BY DEF NeverUnderstated
  <2>1. RowTrue(l) /\ vendor[l] \in Nat
    BY DEF PullInv, TypeOK
  <2>2. spends[l].state \in {"none", "reserved", "settled", "indeterminate",
                             "released"}
    BY DEF TypeOK
  <2>3. QED
    BY <2>1, <2>2, CostType DEF RowTrue, Counted
<1>2. QED
  BY <1>1, PullsInductive, PTL

---------------------------------------------------------------------------
(***************************************************************************)
(* The money of a run.  What it was charged is what it has added up, plus  *)
(* the pull in hand; and the lead in hand fitted under the ceiling whole.  *)
(***************************************************************************)
RunMoney(c) ==
    /\ pc[c] = "idle" => spent[c] = 0 /\ runBill[c] = 0
    /\ pc[c] = "loop" => runBill[c] = spent[c] /\ spent[c] <= ceiling[c]
    /\ pc[c] \notin {"idle", "loop"} => spent[c] + Cost[lead[c]] <= ceiling[c]
    /\ pc[c] \in {"ensure", "reserve", "call"} => runBill[c] = spent[c]
    /\ pc[c] = "mark" => runBill[c] <= spent[c] + Cost[lead[c]]
    /\ pc[c] \in {"settle", "save"} => /\ runBill[c] = spent[c] + billed[c]
                                      /\ billed[c] <= Cost[lead[c]]

MoneyInv == \A c \in Caller : RunMoney(c)

LEMMA EndMoney ==
    ASSUME TypeOK, NEW c \in Caller, End(c)
    PROVE  RunMoney(c)'
BY DEF TypeOK, RunTypeOK, End, Goto, RunMoney

LEMMA MoneyStep ==
    ASSUME TypeOK, NEW c \in Caller, RunMoney(c), RunStep(c)
    PROVE  RunMoney(c)'
<1> USE DEF hist, run, app
<1>1. ASSUME NEW m \in Ceilings, NEW n \in Limits, Confirm(c, m, n)
      PROVE  RunMoney(c)'
  BY <1>1, PullAssumption DEF Confirm, RunMoney, Goto, TypeOK, RunTypeOK
<1>2. ASSUME NEW l \in Lead, PullOne(c, l)
      PROVE  RunMoney(c)'
  BY <1>2, CostType DEF PullOne, RunMoney, Goto, TypeOK, RunTypeOK
<1>3. ASSUME NEW l \in Lead, Skip(c, l)
      PROVE  RunMoney(c)'
  BY <1>3 DEF Skip, RunMoney
<1>4. ASSUME NEW l \in Lead, Take(c, l)
      PROVE  RunMoney(c)'
  BY <1>4 DEF Take, RunMoney, Goto, TypeOK, RunTypeOK
<1>5. CASE Finish(c) \/ MarkIndeterminate(c) \/ Crash(c)
  BY <1>5, EndMoney DEF Finish, MarkIndeterminate, Crash
<1>6. ASSUME NEW n \in Limits, EnsurePeriod(c, n)
      PROVE  RunMoney(c)'
  BY <1>6 DEF EnsurePeriod, RunMoney, Goto, TypeOK, RunTypeOK
<1>7. CASE Reserve(c)
  BY <1>7 DEF Reserve, RunMoney, Goto, TypeOK, RunTypeOK
<1>8. CASE ReserveRefused(c)
  <2>1. CASE End(c)
    BY <2>1, EndMoney
  <2>2. CASE Advance(c) /\ UNCHANGED <<spent, hist>>
    <3>1. pc[c] = "reserve" /\ lead[c] \in Lead
      BY <1>8 DEF ReserveRefused, TypeOK, RunTypeOK
    <3>2. runBill[c] = spent[c] /\ spent[c] <= ceiling[c]
      BY <3>1, CostType DEF RunMoney, TypeOK, RunTypeOK
    <3>3. QED
      BY <2>2, <3>2 DEF Advance, RunMoney, Goto, TypeOK, RunTypeOK
  <2>3. QED
    BY <1>8, <2>1, <2>2 DEF ReserveRefused
<1>9. ASSUME NEW b \in 0..PerLead, Answered(c, b)
      PROVE  RunMoney(c)'
  BY <1>9, CostType DEF Answered, Charge, RunMoney, Goto, TypeOK, RunTypeOK
<1>10. CASE Fails(c)
  <2>1. /\ pc[c] = "call" /\ pc'[c] = "mark" /\ UNCHANGED run
        /\ Cost[lead[c]] \in Nat
    BY <1>10, CostType DEF Fails, Goto, TypeOK, RunTypeOK
  <2>2. runBill'[c] <= spent[c] + Cost[lead[c]]
    BY <1>10, <2>1 DEF Fails, Charge, RunMoney, TypeOK, RunTypeOK
  <2>3. QED
    BY <2>1, <2>2 DEF RunMoney
<1>11. CASE Settle(c)
  BY <1>11 DEF Settle, RunMoney, Goto, TypeOK, RunTypeOK
<1>12. CASE Save(c)
  <2>1. pc[c] = "save" /\ lead[c] \in Lead
    BY <1>12 DEF Save, TypeOK, RunTypeOK
  <2>2. /\ pc'[c] = "loop" /\ spent'[c] = spent[c] + billed[c]
        /\ UNCHANGED <<ceiling, runBill>>
    BY <1>12 DEF Save, Advance, Goto, TypeOK, RunTypeOK
  <2>3. QED
    BY <2>1, <2>2, CostType DEF RunMoney, TypeOK, RunTypeOK
<1>13. QED
  BY <1>1, <1>2, <1>3, <1>4, <1>5, <1>6, <1>7, <1>8, <1>9, <1>10, <1>11,
     <1>12
  DEF RunStep

\* A run's step leaves the money of the others alone.
LEMMA OthersMoney ==
    ASSUME TypeOK, MoneyInv, NEW c \in Caller, RunStep(c),
           NEW d \in Caller, d # c
    PROVE  RunMoney(d)'
<1>1. /\ pc'[d] = pc[d] /\ lead'[d] = lead[d] /\ ceiling'[d] = ceiling[d]
      /\ spent'[d] = spent[d] /\ billed'[d] = billed[d]
      /\ runBill'[d] = runBill[d]
  <2> USE DEF hist, run, app, TypeOK, RunTypeOK, Goto
  <2>1. CASE Finish(c) \/ MarkIndeterminate(c) \/ Crash(c)
    BY <2>1 DEF Finish, MarkIndeterminate, Crash, End
  <2>2. CASE ReserveRefused(c)
    BY <2>2 DEF ReserveRefused, End, Advance
  <2>3. CASE Save(c)
    BY <2>3 DEF Save, Advance
  <2>4. CASE (\E b \in 0..PerLead : Answered(c, b)) \/ Fails(c)
    BY <2>4 DEF Answered, Fails, Charge
  <2>5. CASE Reserve(c) \/ Settle(c) \/ \E n \in Limits : EnsurePeriod(c, n)
    BY <2>5 DEF Reserve, Settle, EnsurePeriod
  <2>6. CASE \/ \E m \in Ceilings, n \in Limits : Confirm(c, m, n)
             \/ \E l \in Lead : PullOne(c, l) \/ Skip(c, l) \/ Take(c, l)
    BY <2>6 DEF Confirm, PullOne, Skip, Take
  <2>7. QED
    BY <2>1, <2>2, <2>3, <2>4, <2>5, <2>6 DEF RunStep
<1>2. QED
  BY <1>1 DEF MoneyInv, RunMoney

LEMMA NextMoneyInv == TypeOK /\ MoneyInv /\ [Next]_vars => MoneyInv'
<1> SUFFICES ASSUME TypeOK, MoneyInv, [Next]_vars
             PROVE  MoneyInv'
  OBVIOUS
<1>1. CASE UNCHANGED vars
  BY <1>1 DEF MoneyInv, RunMoney, vars, run, hist
<1>2. ASSUME NEW c \in Caller, RunStep(c)
      PROVE  MoneyInv'
  BY <1>2, MoneyStep, OthersMoney DEF MoneyInv
<1>3. CASE \/ \E m \in Ceilings, n \in Limits : Price(m, n)
           \/ Forget \/ NextMonth \/ (\E l \in Lead : Reconcile(l) \/ Release(l))
  BY <1>3 DEF Price, Forget, NextMonth, Reconcile, Release, MoneyInv, RunMoney,
              run, hist
<1>4. QED
  BY <1>1, <1>2, <1>3 DEF Next

(***************************************************************************)
(* No run is charged more than its ceiling, whatever is billed, lost or    *)
(* refused on the way (fill_contacts).                                     *)
(***************************************************************************)
THEOREM CeilingHolds == Spec => []RunWithinCeiling
<1>1. Init => MoneyInv
  BY DEF Init, MoneyInv, RunMoney
<1>2. TypeOK /\ MoneyInv => RunWithinCeiling
  BY CostType DEF MoneyInv, RunMoney, RunWithinCeiling, TypeOK, RunTypeOK
<1>3. QED
  BY <1>1, <1>2, InitTypeOK, NextTypeOK, NextMoneyInv, PTL DEF Spec

---------------------------------------------------------------------------
(***************************************************************************)
(* Counting credits.  A row stands for the credits <<l, 1>> up to          *)
(* <<l, Counted(l)>> in its month, so the books of a month change by what  *)
(* one row does and the rest of them stays.                                *)
(***************************************************************************)
Own(l, n) == {l} \X (1..n)

Rest(p, l) == {u \in CreditsCounted(p) : u[1] # l}

CountedIn(p, l) == IF spends[l].period = p THEN Counted(l) ELSE 0

LEMMA OwnCardinality ==
    ASSUME NEW l, NEW n \in Nat
    PROVE  IsFiniteSet(Own(l, n)) /\ Cardinality(Own(l, n)) = n
<1>1. IsFiniteSet(1..n) /\ Cardinality(1..n) = n
  BY FS_Interval
<1>2. IsFiniteSet({l}) /\ Cardinality({l}) = 1
  BY FS_Singleton
<1>3. QED
  BY <1>1, <1>2, FS_Product DEF Own

LEMMA CreditsFinite == IsFiniteSet(Credits)
<1>1. IsFiniteSet(1..PerLead)
  BY PullAssumption, FS_Interval
<1>2. QED
  BY <1>1, PullAssumption, FS_Product DEF Credits

LEMMA CountedType ==
    ASSUME TypeOK, PullInv, NEW l \in Lead
    PROVE  Counted(l) \in 0..Cost[l]
<1>1. spends[l].state \in {"none", "reserved", "settled", "indeterminate",
                           "released"}
  BY DEF TypeOK
<1>2. RowTrue(l) /\ vendor[l] \in Nat
  BY DEF PullInv, TypeOK
<1>3. QED
  BY <1>1, <1>2, CostType DEF RowTrue, Counted

LEMMA Split ==
    ASSUME TypeOK, PullInv, NEW l \in Lead, NEW p \in Period
    PROVE  /\ IsFiniteSet(Rest(p, l)) /\ Cardinality(Rest(p, l)) \in Nat
           /\ CountedIn(p, l) \in 0..Cost[l]
           /\ Cardinality(CreditsCounted(p)) =
                 Cardinality(Rest(p, l)) + CountedIn(p, l)
<1> DEFINE own == Own(l, CountedIn(p, l))
<1>1. CountedIn(p, l) \in 0..Cost[l] /\ CountedIn(p, l) \in 0..PerLead
  BY CountedType, CostType, PullAssumption DEF CountedIn
<1>2. CreditsCounted(p) \subseteq Credits /\ Rest(p, l) \subseteq Credits
  BY DEF CreditsCounted, Rest
<1>3. IsFiniteSet(Rest(p, l)) /\ Cardinality(Rest(p, l)) \in Nat
  BY <1>2, CreditsFinite, FS_Subset, FS_CardinalityType
<1>4. IsFiniteSet(own) /\ Cardinality(own) = CountedIn(p, l)
  BY <1>1, OwnCardinality
<1>5. CreditsCounted(p) = Rest(p, l) \cup own
  <2>1. ASSUME NEW u \in CreditsCounted(p), u[1] = l
        PROVE  u \in own
    <3>1. u[2] \in 1..PerLead /\ u[2] <= Counted(l) /\ spends[l].period = p
      BY <2>1 DEF CreditsCounted, Credits
    <3>2. u = <<l, u[2]>>
      BY <2>1 DEF CreditsCounted, Credits
    <3>3. u[2] \in 1..CountedIn(p, l)
      BY <1>1, <3>1 DEF CountedIn
    <3>4. QED
      BY <3>2, <3>3 DEF Own
  <2>2. ASSUME NEW u \in own
        PROVE  u \in CreditsCounted(p)
    <3>1. u \in Lead \X (1..PerLead) /\ u[1] = l /\ u[2] \in 1..CountedIn(p, l)
      BY <1>1, <2>2, PullAssumption DEF Own
    <3>2. spends[l].period = p /\ u[2] <= Counted(l)
      BY <1>1, <3>1 DEF CountedIn
    <3>3. QED
      BY <3>1, <3>2 DEF CreditsCounted, Credits
  <2>3. QED
    BY <2>1, <2>2 DEF Rest
<1>6. Rest(p, l) \cap own = {}
  BY DEF Rest, Own
<1>7. Cardinality(Rest(p, l) \cap own) = 0
  BY <1>6, FS_EmptySet
<1>8. Cardinality(Rest(p, l) \cup own) =
          Cardinality(Rest(p, l)) + Cardinality(own) - 0
  <2> HIDE DEF own
  <2>1. QED
    BY <1>3, <1>4, <1>7, FS_Union
<1>9. QED
  BY <1>1, <1>3, <1>4, <1>5, <1>8

Splits == \A l \in Lead, p \in Period :
    /\ Cardinality(Rest(p, l)) \in Nat
    /\ CountedIn(p, l) \in 0..Cost[l]
    /\ Cardinality(CreditsCounted(p)) = Cardinality(Rest(p, l)) + CountedIn(p, l)

LEMMA SplitNow == TypeOK /\ PullInv => Splits
BY Split DEF Splits

LEMMA SplitNext == TypeOK' /\ PullInv' => Splits'
BY SplitNow, PTL

(***************************************************************************)
(* A step that changes one row and moves the counters by what it counts.   *)
(***************************************************************************)
LEMMA OneRowStep ==
    ASSUME TypeOK, PullInv, BooksBalance, TypeOK', PullInv',
           NEW l \in Lead,
           \A k \in Lead \ {l} : spends'[k] = spends[k],
           \A p \in Period : consumed'[p] =
               consumed[p] - CountedIn(p, l) + CountedIn(p, l)'
    PROVE  BooksBalance'
<1> SUFFICES ASSUME NEW p \in Period
             PROVE  consumed'[p] = Cardinality(CreditsCounted(p))'
  BY DEF BooksBalance
<1>1. Rest(p, l)' = Rest(p, l)
  BY DEF Rest, CreditsCounted, Credits, Counted
<1>2. consumed[p] = Cardinality(Rest(p, l)) + CountedIn(p, l)
  BY SplitNow DEF Splits, BooksBalance
<1>3. Cardinality(CreditsCounted(p))' =
          Cardinality(Rest(p, l)) + CountedIn(p, l)'
  BY <1>1, SplitNext DEF Splits
<1>4. /\ Cardinality(Rest(p, l)) \in Nat /\ CountedIn(p, l) \in Nat
      /\ CountedIn(p, l)' \in Nat
  BY SplitNow, SplitNext, CostType DEF Splits
<1>5. QED
  BY <1>2, <1>3, <1>4

\* A row's credits are all in its month's counter, so a refund is never cut.
LEMMA RefundIsWhole ==
    ASSUME TypeOK, PullInv, BooksBalance, NEW l \in Lead,
           NEW n \in Int, n <= Counted(l), Refund(l, n)
    PROVE  \A p \in Period : consumed'[p] =
               IF p = spends[l].period THEN consumed[p] - n ELSE consumed[p]
<1>1. spends[l].period \in Period
  BY DEF TypeOK
<1>2. consumed[spends[l].period] >= Counted(l)
  <2>1. /\ Cardinality(Rest(spends[l].period, l)) \in Nat
        /\ consumed[spends[l].period] =
              Cardinality(Rest(spends[l].period, l)) + Counted(l)
    BY <1>1, SplitNow DEF Splits, BooksBalance, CountedIn
  <2>2. QED
    BY <2>1, CountedType, CostType
<1>3. ~(n > consumed[spends[l].period])
  BY <1>1, <1>2, CountedType, CostType DEF TypeOK
<1>4. QED
  BY <1>1, <1>3 DEF Refund, TypeOK

LEMMA ReserveBooks ==
    ASSUME TypeOK, PullInv, BooksBalance, TypeOK', PullInv',
           NEW c \in Caller, Reserve(c)
    PROVE  BooksBalance'
<1> DEFINE l == lead[c]  q == per[c]
<1>1. l \in Lead /\ q \in Period /\ Counted(l) = 0
  BY DEF Reserve, TypeOK, RunTypeOK, Counted
<1>2. \A k \in Lead \ {l} : spends'[k] = spends[k]
  BY DEF Reserve, TypeOK
<1>3. ASSUME NEW k \in Lead, k = l, NEW p \in Period
      PROVE  /\ CountedIn(p, k) = 0
             /\ CountedIn(p, k)' = IF p = q THEN Cost[k] ELSE 0
  <2>1. spends'[k] = [state |-> "reserved", period |-> q, billed |-> 0]
    BY <1>1, <1>3 DEF Reserve, TypeOK
  <2>2. CountedIn(p, k) = 0
    BY <1>1, <1>3 DEF CountedIn
  <2>3. Counted(k)' = Cost[k]
    BY <2>1 DEF Counted
  <2>4. QED
    BY <2>1, <2>2, <2>3 DEF CountedIn
<1>4. \A p \in Period : consumed'[p] =
          IF p = q THEN consumed[p] + Cost[l] ELSE consumed[p]
  BY <1>1 DEF Reserve, TypeOK
<1>5. ASSUME NEW k \in Lead, k = l
      PROVE  BooksBalance'
  <2>1. \A p \in Period : consumed'[p] =
            consumed[p] - CountedIn(p, k) + CountedIn(p, k)'
    BY <1>3, <1>4, <1>5, CostType DEF TypeOK
  <2>2. QED
    BY <1>2, <1>5, <2>1, OneRowStep
<1>6. QED
  BY <1>1, <1>5

LEMMA SettleRowBooks ==
    ASSUME TypeOK, PullInv, BooksBalance, TypeOK', PullInv', NEW l \in Lead,
           spends[l].state \in {"reserved", "indeterminate"},
           NEW b \in 0..Cost[l], SettleRow(l, b)
    PROVE  BooksBalance'
<1>1. /\ spends'[l].state = "settled" /\ spends'[l].billed = b
      /\ spends'[l].period = spends[l].period
      /\ \A k \in Lead \ {l} : spends'[k] = spends[k]
  BY DEF SettleRow, TypeOK
<1>2. Counted(l) = Cost[l] /\ Counted(l)' = b
  BY <1>1 DEF Counted
<1>3. \A p \in Period : consumed'[p] =
          IF p = spends[l].period THEN consumed[p] - (Cost[l] - b) ELSE consumed[p]
  BY <1>2, RefundIsWhole, CostType DEF SettleRow
<1>4. \A p \in Period : consumed'[p] =
          consumed[p] - CountedIn(p, l) + CountedIn(p, l)'
  BY <1>1, <1>2, <1>3, CostType DEF CountedIn, TypeOK
<1>5. QED
  BY <1>1, <1>4, OneRowStep

LEMMA ReleaseBooks ==
    ASSUME TypeOK, PullInv, BooksBalance, TypeOK', PullInv', NEW l \in Lead,
           Release(l)
    PROVE  BooksBalance'
<1>1. /\ spends'[l].state = "released"
      /\ spends'[l].period = spends[l].period
      /\ \A k \in Lead \ {l} : spends'[k] = spends[k]
  BY DEF Release, TypeOK
<1>2. Counted(l) = Cost[l] /\ Counted(l)' = 0
  BY <1>1 DEF Counted, Release
<1>3. \A p \in Period : consumed'[p] =
          IF p = spends[l].period THEN consumed[p] - Cost[l] ELSE consumed[p]
  BY <1>2, RefundIsWhole, CostType DEF Release
<1>4. \A p \in Period : consumed'[p] =
          consumed[p] - CountedIn(p, l) + CountedIn(p, l)'
  BY <1>1, <1>2, <1>3, CostType DEF CountedIn, TypeOK
<1>5. QED
  BY <1>1, <1>4, OneRowStep

LEMMA MarkBooks ==
    ASSUME TypeOK, BooksBalance, NEW c \in Caller, MarkIndeterminate(c)
    PROVE  BooksBalance'
<1>1. lead[c] \in Lead
  BY DEF MarkIndeterminate, TypeOK, RunTypeOK
<1>2. \A l \in Lead : spends'[l].period = spends[l].period
                      /\ Counted(l)' = Counted(l)
  BY <1>1 DEF MarkIndeterminate, Counted, TypeOK
<1>3. \A p \in Period : CreditsCounted(p)' = CreditsCounted(p)
  BY <1>2 DEF CreditsCounted, Credits
<1>4. QED
  BY <1>3 DEF BooksBalance, MarkIndeterminate

LEMMA InitBooks == Init => BooksBalance
<1> SUFFICES ASSUME Init, NEW p \in Period
             PROVE  Cardinality(CreditsCounted(p)) = 0
  BY DEF Init, BooksBalance
<1>1. CreditsCounted(p) = {}
  BY DEF CreditsCounted, Credits, Counted, Init, NoSpend
<1>2. QED
  BY <1>1, FS_EmptySet

LEMMA NextBooks ==
    ASSUME TypeOK, PullInv, BooksBalance, TypeOK', PullInv', [Next]_vars
    PROVE  BooksBalance'
<1> USE DEF ledger, run, app, hist
<1>1. CASE UNCHANGED <<consumed, spends>>
  BY <1>1 DEF BooksBalance, CreditsCounted, Credits, Counted
<1>2. ASSUME NEW c \in Caller, RunStep(c)
      PROVE  BooksBalance'
  <2>1. CASE Settle(c)
    <3>1. /\ lead[c] \in Lead /\ billed[c] \in Nat
          /\ pc[c] = "settle"
      BY <2>1 DEF Settle, TypeOK, RunTypeOK
    <3>2. billed[c] \in 0..Cost[lead[c]]
      BY <3>1, CostType DEF PullInv, RunTrue, RowTrue
    <3>3. QED
      BY <2>1, <3>1, <3>2, SettleRowBooks DEF Settle
  <2>2. CASE UNCHANGED <<consumed, spends>>
    BY <2>2, <1>1
  <2>3. QED
    BY <1>2, <2>1, <2>2, ReserveBooks, MarkBooks
    DEF RunStep, Confirm, PullOne, Skip, Take, Finish, EnsurePeriod,
        ReserveRefused, Answered, Fails, Save, Crash
<1>3. ASSUME NEW l \in Lead, Reconcile(l)
      PROVE  BooksBalance'
  <2>1. vendor[l] \in 0..Cost[l]
    BY CostType DEF PullInv, RowTrue, TypeOK
  <2>2. QED
    BY <1>3, <2>1, SettleRowBooks DEF Reconcile, Abandoned
<1>4. QED
  BY <1>1, <1>2, <1>3, ReleaseBooks DEF Next, Price, Forget, NextMonth, vars

(***************************************************************************)
(* The counter of a month is the sum of its rows: reservations and refunds *)
(* of any number of runs, over the turn of the month, lose and double      *)
(* nothing, and MAX(0, ...) never cuts (reserve, settle, release).         *)
(***************************************************************************)
THEOREM CounterIsItsRows == Spec => []BooksBalance
<1>1. TypeOK /\ PullInv /\ BooksBalance /\ [Next]_vars /\ TypeOK' /\ PullInv'
          => BooksBalance'
  BY NextBooks
<1>2. QED
  BY <1>1, InitBooks, PullsInductive, PTL DEF Spec
---------------------------------------------------------------------------
(***************************************************************************)
(* The account.  A counter only rises under a limit somebody configured,   *)
(* and a lower limit configured since forbids more but takes nothing back. *)
(***************************************************************************)
UnderSomeLimit ==
    \A p \in Period : consumed[p] # 0 => \E n \in Limits : consumed[p] <= n

LEMMA ReserveUnderLimit ==
    ASSUME TypeOK, UnderSomeLimit, NEW c \in Caller, Reserve(c)
    PROVE  UnderSomeLimit'
<1>1. lead[c] \in Lead /\ per[c] \in Period
  BY DEF Reserve, TypeOK, RunTypeOK
<1>2. limit[per[c]] \in Limits /\ consumed[per[c]] + Cost[lead[c]] <= limit[per[c]]
  BY <1>1, CostType, PullAssumption DEF Reserve, HasRoom, TypeOK
<1>3. QED
  BY <1>1, <1>2 DEF Reserve, UnderSomeLimit, TypeOK

LEMMA RefundUnderLimit ==
    ASSUME TypeOK, UnderSomeLimit, NEW l \in Lead, NEW n \in Nat, Refund(l, n)
    PROVE  UnderSomeLimit'
<1> SUFFICES ASSUME NEW p \in Period, consumed'[p] # 0
             PROVE  \E m \in Limits : consumed'[p] <= m
  BY DEF UnderSomeLimit
<1>1. consumed'[p] \in Nat /\ consumed[p] \in Nat /\ consumed'[p] <= consumed[p]
  BY DEF Refund, TypeOK
<1>2. PICK m \in Limits : consumed[p] <= m
  BY <1>1 DEF UnderSomeLimit
<1>3. QED
  BY <1>1, <1>2, PullAssumption

LEMMA NextUnderLimit ==
    ASSUME TypeOK, PullInv, UnderSomeLimit, [Next]_vars
    PROVE  UnderSomeLimit'
<1> USE DEF ledger, run, app, hist
<1>1. CASE UNCHANGED consumed
  BY <1>1 DEF UnderSomeLimit
<1>2. ASSUME NEW c \in Caller, RunStep(c)
      PROVE  UnderSomeLimit'
  <2>1. CASE Settle(c)
    <3>1. lead[c] \in Lead /\ billed[c] \in Nat /\ pc[c] = "settle"
      BY <2>1 DEF Settle, TypeOK, RunTypeOK
    <3>2. Cost[lead[c]] - billed[c] \in Nat
      BY <3>1, CostType DEF PullInv, RunTrue, RowTrue
    <3>3. QED
      BY <2>1, <3>1, <3>2, RefundUnderLimit DEF Settle, SettleRow
  <2>2. QED
    BY <1>1, <1>2, <2>1, ReserveUnderLimit
    DEF RunStep, Confirm, PullOne, Skip, Take, Finish, EnsurePeriod,
        ReserveRefused, Answered, Fails, MarkIndeterminate, Save, Crash
<1>3. ASSUME NEW l \in Lead, Reconcile(l) \/ Release(l)
      PROVE  UnderSomeLimit'
  <2>1. Cost[l] - vendor[l] \in Nat /\ Cost[l] \in Nat
    BY CostType DEF PullInv, RowTrue, TypeOK
  <2>2. QED
    BY <1>3, <2>1, RefundUnderLimit DEF Reconcile, Release, SettleRow
<1>4. QED
  BY <1>1, <1>2, <1>3 DEF Next, Price, Forget, NextMonth, vars

LEMMA ChargedIsCounted ==
    ASSUME TypeOK, PullInv, BooksBalance, UnderSomeLimit
    PROVE  AccountWithinLimit
<1> SUFFICES ASSUME NEW p \in Period, CreditsCharged(p) # {}
             PROVE  \E n \in Limits : Cardinality(CreditsCharged(p)) <= n
  BY DEF AccountWithinLimit
<1>1. ASSUME NEW l \in Lead
      PROVE  vendor[l] <= Counted(l) /\ vendor[l] \in Nat /\ Counted(l) \in Nat
  <2>1. /\ RowTrue(l) /\ vendor[l] \in Nat
        /\ spends[l].state \in {"none", "reserved", "settled", "indeterminate",
                                "released"}
    BY DEF PullInv, TypeOK
  <2>2. QED
    BY <2>1, CountedType, CostType DEF RowTrue, Counted
<1>2. CreditsCharged(p) \subseteq CreditsCounted(p)
  BY <1>1 DEF CreditsCharged, CreditsCounted, Credits
<1>3. IsFiniteSet(CreditsCounted(p))
  BY CreditsFinite, FS_Subset DEF CreditsCounted
<1>4. /\ IsFiniteSet(CreditsCharged(p))
      /\ Cardinality(CreditsCharged(p)) <= Cardinality(CreditsCounted(p))
  BY <1>2, <1>3, FS_Subset
<1>5. /\ Cardinality(CreditsCharged(p)) \in Nat
      /\ Cardinality(CreditsCharged(p)) # 0
  BY <1>4, FS_CardinalityType, FS_EmptySet
<1>6. Cardinality(CreditsCounted(p)) = consumed[p] /\ consumed[p] \in Nat
  BY DEF BooksBalance, TypeOK
<1>7. PICK n \in Limits : consumed[p] <= n
  BY <1>4, <1>5, <1>6 DEF UnderSomeLimit
<1>8. QED
  BY <1>4, <1>5, <1>6, <1>7, PullAssumption

(***************************************************************************)
(* What the vendor charges to a month never exceeds every limit that was   *)
(* in use: two callers cannot both win the last credits (reserve).         *)
(***************************************************************************)
THEOREM AccountHolds == Spec => []AccountWithinLimit
<1>1. Init => UnderSomeLimit
  BY DEF Init, UnderSomeLimit
<1>2. TypeOK /\ PullInv /\ UnderSomeLimit /\ [Next]_vars => UnderSomeLimit'
  BY NextUnderLimit
<1>3. TypeOK /\ PullInv /\ BooksBalance /\ UnderSomeLimit => AccountWithinLimit
  BY ChargedIsCounted
<1>4. QED
  BY <1>1, <1>2, <1>3, PullsInductive, CounterIsItsRows, PTL DEF Spec

---------------------------------------------------------------------------
(***************************************************************************)
(* Provider calls.                                                         *)
(***************************************************************************)
Posting == {"claim", "open", "slot", "send", "answer"}
Flight == {"slot", "send", "answer"}
Saves == {"save", "absent", "linkedin", "profile", "nosite", "unread",
          "sitefacts", "sitemail", "miss"}
Gate == {"prior", "declare", "insert"}
Place == {"idle", "settle"} \cup Gate \cup Posting \cup Saves

\* What a worker holds at each place of its lookup.
PlaceOf(w) ==
    /\ at[w] = "idle" <=> mode[w] = "none"
    /\ at[w] \in Gate \cup {"settle", "miss"} => mode[w] # "site"
    /\ at[w] \in Posting => want[w] # "none"
    /\ mode[w] \in {"batch", "single"} => key[w] = LegacyKey(target[w])
    /\ mode[w] = "prep" => key[w][2] # 0
    /\ at[w] \in Gate /\ word[w] => mode[w] = "prep"
PlaceInv == at \in [Worker -> Place] /\ \A w \in Worker : PlaceOf(w)

\* The gate of paid_calls.execute: who is past it has a row to itself.
Inside(w) == mode[w] # "none" /\ mode[w] # "site" /\ at[w] \notin Gate

Holding(w) ==
    /\ at[w] = "declare" => word[w] /\ before[w] \in DOMAIN paid[key[w]]
    /\ at[w] = "insert" =>
        /\ before[w] <= Len(paid[key[w]])
        /\ before[w] > 0 /\ ~word[w] => paid[key[w]][before[w]] = "failed"
    /\ Inside(w) =>
        /\ mine[w] \in DOMAIN paid[key[w]]
        /\ paid[key[w]][mine[w]] \in Unsettled
        /\ key[w][2] = 0 => paid[key[w]][mine[w]] = "in_flight"

OwnRow ==
    \A v, w \in Worker : v # w /\ Inside(v) /\ Inside(w) /\ key[v] = key[w]
                         => mine[v] # mine[w]

RichRows ==
    \A k \in Key : k[2] # 0 => 
        \A n \in DOMAIN paid[k] :
            /\ paid[k][n] # "failed"
            /\ n > 1 => <<k, n>> \in asked

LookupsOnce ==
    \A k \in Key : \A n \in DOMAIN paid[k] :
         n > 1 /\ <<k, n>> \notin asked => paid[k][n - 1] = "failed"

GateInv == (\A w \in Worker : Holding(w)) /\ OwnRow /\ RichRows /\ LookupsOnce

\* The row of a call under way.
Flying(w) ==
    at[w] \in Flight =>
        /\ call[w] \in DOMAIN attempts
        /\ attempts[call[w]].req = RequestOf(w)
        /\ attempts[call[w]].state \in Unsettled
        /\ at[w] = "answer" => attempts[call[w]].sent
OwnCall ==
    \A v, w \in Worker : v # w /\ at[v] \in Flight /\ at[w] \in Flight
                         => call[v] # call[w]
CallInv == (\A w \in Worker : Flying(w)) /\ OwnCall

\* The requests that were sent and answered, or may have been.
Shown ==
    {r \in Request : \E i \in DOMAIN attempts :
                        /\ attempts[i].req = r /\ attempts[i].sent
                        /\ attempts[i].state \in {"completed", "indeterminate"}}

SitePlaces == {"profile", "nosite", "unread", "sitefacts", "sitemail"}
Asks(w, kinds) == at[w] \in Posting /\ want[w] \in kinds
AtSite(w) == at[w] \in SitePlaces \/ Asks(w, {"site", "sitepage"})
Ready(w) == at[w] \in {"linkedin", "miss"}

Progress(w) ==
    mode[w] # "site" =>
        /\ Asks(w, {"page", "person"}) \/ Ready(w) \/ AtSite(w) =>
             <<target[w], "angle">> \in Shown
        /\ Asks(w, {"person"}) \/ Ready(w) \/ AtSite(w) =>
             <<target[w], "page">> \in Shown
        /\ Ready(w) \/ (AtSite(w) /\ ~down[w]) => <<target[w], "person">> \in Shown
        /\ at[w] = "miss" => profile[target[w]] # "none"
ProgressInv == \A w \in Worker : Progress(w)

CallsOnce ==
    \A i, j \in DOMAIN attempts :
         /\ i < j /\ attempts[i].req = attempts[j].req
         /\ attempts[i].month = attempts[j].month /\ ~attempts[j].asked
         /\ \A k \in i + 1..j - 1 : attempts[k].req # attempts[i].req
         => attempts[i].state \notin Unsettled

---------------------------------------------------------------------------
(***************************************************************************)
(* How the control of one worker moves.                                    *)
(***************************************************************************)
Ends == {"none", "ok", "outage", "stopped", "broken"}

OthersStay(w) ==
    \A v \in Worker \ {w} :
        /\ at'[v] = at[v] /\ mode'[v] = mode[v] /\ key'[v] = key[v]
        /\ before'[v] = before[v] /\ mine'[v] = mine[v]
        /\ want'[v] = want[v] /\ call'[v] = call[v] /\ down'[v] = down[v]
        /\ target'[v] = target[v] /\ word'[v] = word[v]

Flags(w) ==
    /\ person' \in [Worker -> BOOLEAN] /\ down' \in [Worker -> BOOLEAN]
    /\ end' \in [Worker -> Ends]
    /\ \A v \in Worker \ {w} : down'[v] = down[v]

\* The lookup ends, asks for the next page, saves, or comes to its settlement.
Moves(w) == LocalOK' /\ at' \in [Worker -> Place] /\ OthersStay(w)
Landed(w) ==
    /\ Moves(w)
    /\ target'[w] = target[w]
    /\ \/ at'[w] = "idle" /\ mode'[w] = "none"
       \/ /\ at'[w] \in {"claim", "settle"} \cup Saves
          /\ mode'[w] = mode[w] /\ key'[w] = key[w] /\ mine'[w] = mine[w]
          /\ word'[w] = word[w]
          /\ at'[w] \in {"settle", "miss"} => mode[w] # "site"
          /\ at'[w] = "claim" => want'[w] # "none"

LEMMA ReturnLands ==
    ASSUME LocalOK, at \in [Worker -> Place], NEW w \in Worker, Return(w)
    PROVE  Landed(w) /\ at'[w] = "idle" /\ mode'[w] = "none"
<1>1. LegacyKey(target[w]) \in Key
  BY LookupAssumption DEF LocalOK, LegacyKey, Key
<1>2. QED
  BY <1>1 DEF Return, Landed, Moves, LocalOK, OthersStay, GoTo, Set, Place

LEMMA StepLands ==
    ASSUME LocalOK, at \in [Worker -> Place], NEW w \in Worker,
           NEW l \in {"settle"} \cup Saves, l \in {"settle", "miss"} => mode[w] # "site",
           Step(w, l), Flags(w)
    PROVE  Landed(w) /\ at'[w] = l
BY DEF Step, Landed, Moves, LocalOK, OthersStay, GoTo, Set, Place, Flags, Ends, Saves

LEMMA AskLands ==
    ASSUME LocalOK, at \in [Worker -> Place], NEW w \in Worker,
           NEW kind \in Kind \cup {"sitepage", "mailpage"}, 
           AskFor(w, kind), Flags(w)
    PROVE  Landed(w) /\ at'[w] = "claim" /\ want'[w] = kind
BY DEF AskFor, Landed, Moves, LocalOK, OthersStay, GoTo, Set, Place, Flags, Ends, Kind,
       Posting

LEMMA SameFlags ==
    ASSUME LocalOK, NEW w, Same(w)
    PROVE  Flags(w)
BY DEF LocalOK, Same, Flags, Ends

LEMMA FinishLands ==
    ASSUME LocalOK, at \in [Worker -> Place], NEW w \in Worker,
           NEW how \in Ends, FinishLookup(w, how)
    PROVE  /\ Landed(w)
           /\ at'[w] \in {"idle", "settle"}
<1>1. CASE mode[w] = "site"
  BY <1>1, ReturnLands DEF FinishLookup
<1>2. CASE mode[w] # "site"
  <2>1. Step(w, "settle") /\ end' = Set(end, w, how) /\ UNCHANGED <<person, down>>
    BY <1>2 DEF FinishLookup
  <2>2. Flags(w)
    BY <2>1 DEF LocalOK, Flags, Ends, Set
  <2>3. QED
    BY <1>2, <2>1, <2>2, StepLands
<1>3. QED
  BY <1>1, <1>2

LEMMA DecideLands ==
    ASSUME LocalOK, at \in [Worker -> Place], NEW w \in Worker,
           NEW mailbox \in BOOLEAN, NEW outage \in BOOLEAN,
           Decide(w, mailbox, outage)
    PROVE  /\ Landed(w)
           /\ at'[w] \in {"idle", "settle", "miss"}
           /\ at'[w] = "miss" => mode[w] # "site" /\ ~outage
<1>1. CASE mode[w] = "site"
  BY <1>1, ReturnLands DEF Decide
<1>2. CASE mode[w] # "site" /\ (person[w] \/ mailbox)
  <2>1. FinishLookup(w, "ok")
    BY <1>2 DEF Decide
  <2>2. QED
    BY <2>1, FinishLands DEF Ends
<1>3. CASE mode[w] # "site" /\ ~(person[w] \/ mailbox) /\ outage
  <2>1. FinishLookup(w, "outage")
    BY <1>3 DEF Decide
  <2>2. QED
    BY <2>1, FinishLands DEF Ends
<1>4. CASE mode[w] # "site" /\ ~(person[w] \/ mailbox) /\ ~outage
  <2>1. Step(w, "miss") /\ Same(w)
    BY <1>4 DEF Decide
  <2>2. QED
    BY <1>4, <2>1, SameFlags, StepLands DEF Saves
<1>5. QED
  BY <1>1, <1>2, <1>3, <1>4

---------------------------------------------------------------------------
(***************************************************************************)
(* One answer: where it takes the lookup, and what the lookup then knows.  *)
(***************************************************************************)
\* Nothing that was shown is forgotten, and an answer shows its own request.
Learns(w, got) ==
    /\ Shown \subseteq Shown' /\ profile' = profile
    /\ got => RequestOf(w) \in Shown'

LEMMA LandedElsewhere ==
    ASSUME NEW w \in Worker, Landed(w), Progress(w), Shown \subseteq Shown',
           \/ at'[w] \in {"idle", "settle", "save", "absent"}
           \/ at'[w] = "claim" /\ want'[w] \in {"angle", "mailpage"}
    PROVE  Progress(w)'
BY DEF Landed, Moves, Progress, Asks, Ready, AtSite, SitePlaces, Posting

LEMMA AfterAngleLands ==
    ASSUME LocalOK, PlaceInv, NEW w \in Worker, NEW got \in BOOLEAN,
           at[w] \in Posting, want[w] = "angle", Progress(w),
           Learns(w, got), AfterAngle(w, got)
    PROVE  Landed(w) /\ Progress(w)'
<1>1. CASE got /\ AskFor(w, "page") /\ Same(w)
  <2>1. Landed(w) /\ at'[w] = "claim" /\ want'[w] = "page"
    BY <1>1, SameFlags, AskLands DEF PlaceInv, Kind
  <2>2. <<target'[w], "angle">> \in Shown'
    BY <1>1, <2>1 DEF Learns, RequestOf, Landed, Moves
  <2>3. QED
    BY <2>1, <2>2 DEF Progress, Asks, Ready, AtSite, SitePlaces
<1>2. CASE FinishLookup(w, "outage")
  BY <1>2, FinishLands, LandedElsewhere DEF PlaceInv, Learns, Ends
<1>3. QED
  BY <1>1, <1>2 DEF AfterAngle

LEMMA AfterMailPageLands ==
    ASSUME LocalOK, PlaceInv, NEW w \in Worker, NEW got \in BOOLEAN,
           Progress(w), Learns(w, got), AfterMailPage(w, got)
    PROVE  Landed(w) /\ Progress(w)'
<1>1. CASE Step(w, "save") /\ Same(w)
  BY <1>1, SameFlags, StepLands, LandedElsewhere DEF PlaceInv, Saves, Learns
<1>2. CASE AskFor(w, "angle") /\ Same(w)
  BY <1>2, SameFlags, AskLands, LandedElsewhere DEF PlaceInv, Kind, Learns
<1>3. CASE FinishLookup(w, "outage")
  BY <1>3, FinishLands, LandedElsewhere DEF PlaceInv, Learns, Ends
<1>4. QED
  BY <1>1, <1>2, <1>3 DEF AfterMailPage

LEMMA AfterPageLands ==
    ASSUME LocalOK, PlaceInv, NEW w \in Worker, NEW got \in BOOLEAN,
           at[w] \in Posting, want[w] = "page", Progress(w),
           Learns(w, got), AfterPage(w, got)
    PROVE  Landed(w) /\ Progress(w)'
<1>1. CASE got /\ AskFor(w, "person") /\ Same(w)
  <2>1. Landed(w) /\ at'[w] = "claim" /\ want'[w] = "person"
    BY <1>1, SameFlags, AskLands DEF PlaceInv, Kind
  <2>2. <<target'[w], "page">> \in Shown'
    BY <1>1, <2>1 DEF Learns, RequestOf, Landed, Moves
  <2>3. mode[w] # "site" => <<target'[w], "angle">> \in Shown'
    BY <2>1 DEF Learns, Landed, Moves, Progress, Asks
  <2>4. QED
    BY <2>1, <2>2, <2>3 DEF Progress, Asks, Ready, AtSite, SitePlaces, Landed, Moves
<1>2. CASE \E l \in {"save", "absent"} : Step(w, l) /\ Same(w)
  BY <1>2, SameFlags, StepLands, LandedElsewhere DEF PlaceInv, Saves, Learns
<1>3. CASE FinishLookup(w, "outage")
  BY <1>3, FinishLands, LandedElsewhere DEF PlaceInv, Learns, Ends
<1>4. QED
  BY <1>1, <1>2, <1>3 DEF AfterPage

LEMMA AfterPersonLands ==
    ASSUME LocalOK, PlaceInv, NEW w \in Worker, NEW got \in BOOLEAN,
           at[w] \in Posting, want[w] = "person", Progress(w),
           Learns(w, got), AfterPerson(w, got)
    PROVE  Landed(w) /\ Progress(w)'
<1>1. mode[w] # "site" => <<target[w], "angle">> \in Shown'
                          /\ <<target[w], "page">> \in Shown'
  BY DEF Learns, Progress, Asks
<1>2. CASE got /\ \E l \in {"linkedin", "profile"} : Step(w, l) /\ Same(w)
  <2>1. Landed(w) /\ at'[w] \in {"linkedin", "profile"}
    BY <1>2, SameFlags, StepLands DEF PlaceInv, Saves
  <2>2. <<target'[w], "person">> \in Shown'
    BY <1>2, <2>1 DEF Learns, RequestOf, Landed, Moves
  <2>3. QED
    BY <1>1, <2>1, <2>2 DEF Progress, Asks, Ready, AtSite, SitePlaces, Landed, Moves
<1>3. CASE /\ Step(w, "profile") /\ down' = Set(down, w, TRUE)
           /\ UNCHANGED <<person, end>>
  <2>1. Flags(w) /\ down'[w]
    BY <1>3 DEF LocalOK, Flags, Ends, Set
  <2>2. Landed(w) /\ at'[w] = "profile"
    BY <1>3, <2>1, StepLands DEF PlaceInv, Saves
  <2>3. QED
    BY <1>1, <2>1, <2>2 DEF Progress, Asks, Ready, AtSite, SitePlaces, Landed, Moves
<1>4. QED
  BY <1>2, <1>3 DEF AfterPerson

\* Whoever is at the website keeps what it knows as long as it stays there.
LEMMA StaysAtSite ==
    ASSUME NEW w \in Worker, Landed(w), Progress(w), AtSite(w),
           Shown \subseteq Shown', Same(w), at'[w] # "miss", AtSite(w)'
    PROVE  Progress(w)'
BY DEF Landed, Moves, Progress, Asks, Ready, AtSite, SitePlaces, Same, Posting

LEMMA SitePlacesSaved == SitePlaces \subseteq Saves
BY DEF SitePlaces, Saves

LEMMA AfterSiteLands ==
    ASSUME LocalOK, PlaceInv, NEW w \in Worker, NEW got \in BOOLEAN,
           at[w] \in Posting, want[w] = "site", Progress(w),
           Learns(w, got), AfterSite(w, got)
    PROVE  Landed(w) /\ Progress(w)'
<1>1. CASE AskFor(w, "sitepage") /\ Same(w)
  <2>1. Landed(w) /\ at'[w] = "claim" /\ want'[w] = "sitepage"
    BY <1>1, SameFlags, AskLands DEF PlaceInv
  <2>2. QED
    BY <1>1, <2>1, StaysAtSite DEF AtSite, Asks, Posting, Learns
<1>2. CASE Step(w, "nosite") /\ Same(w)
  <2>1. Landed(w) /\ at'[w] = "nosite"
    BY <1>2, SameFlags, StepLands DEF PlaceInv, Saves
  <2>2. QED
    BY <1>2, <2>1, StaysAtSite DEF AtSite, Asks, SitePlaces, Learns
<1>3. CASE Decide(w, FALSE, TRUE)
  BY <1>3, DecideLands, LandedElsewhere DEF PlaceInv, Learns
<1>4. QED
  BY <1>1, <1>2, <1>3 DEF AfterSite

LEMMA AfterSitePageLands ==
    ASSUME LocalOK, PlaceInv, NEW w \in Worker, NEW got \in BOOLEAN,
           at[w] \in Posting, want[w] = "sitepage", Progress(w),
           Learns(w, got), AfterSitePage(w, got)
    PROVE  Landed(w) /\ Progress(w)'
<1>1. CASE \E l \in Facts \cup {"unread"} : Step(w, l) /\ Same(w)
  <2>1. Facts \cup {"unread"} \subseteq SitePlaces
    BY DEF Facts, SitePlaces
  <2>2. PICK l \in SitePlaces : Step(w, l) /\ Same(w)
    BY <1>1, <2>1
  <2>3. l # "settle" /\ l # "miss"
    BY DEF SitePlaces
  <2>4. Landed(w) /\ at'[w] = l
    BY <2>2, <2>3, SitePlacesSaved, SameFlags, StepLands DEF PlaceInv
  <2>5. QED
    BY <2>2, <2>3, <2>4, StaysAtSite DEF AtSite, Asks, Learns
<1>2. CASE FinishLookup(w, "broken")
  BY <1>2, FinishLands, LandedElsewhere DEF PlaceInv, Learns, Ends
<1>3. QED
  BY <1>1, <1>2 DEF AfterSitePage

LEMMA ResumeLands ==
    ASSUME LocalOK, PlaceInv, NEW w \in Worker, NEW got \in BOOLEAN,
           at[w] \in Posting, Progress(w), Learns(w, got), Resume(w, got)
    PROVE  Landed(w) /\ Progress(w)'
<1>1. want[w] \in {"angle", "mailpage", "page", "person", "site", "sitepage"}
  BY DEF PlaceInv, PlaceOf, LocalOK, Kind
<1>2. QED
  BY <1>1, AfterAngleLands, AfterMailPageLands, AfterPageLands,
     AfterPersonLands, AfterSiteLands, AfterSitePageLands DEF Resume

LEMMA StopLands ==
    ASSUME LocalOK, PlaceInv, NEW w \in Worker, Progress(w),
           Shown \subseteq Shown', Stop(w)
    PROVE  Landed(w) /\ Progress(w)'
BY FinishLands, LandedElsewhere DEF PlaceInv, Stop, Ends

---------------------------------------------------------------------------
(***************************************************************************)
(* How the rows of the account ledger move.                                *)
(***************************************************************************)
\* No row is added; a row in flight may be taken for interrupted, or settled
\* by the call it stands for.
RowsMoved(w) ==
    /\ attempts' \in Seq(Row) /\ Len(attempts') = Len(attempts)
    /\ \A i \in 1..Len(attempts) :
         /\ attempts'[i].req = attempts[i].req
         /\ attempts'[i].month = attempts[i].month
         /\ attempts'[i].asked = attempts[i].asked
         /\ attempts[i].sent => attempts'[i].sent
         /\ \/ attempts'[i].state = attempts[i].state
            \/ /\ attempts[i].state = "in_flight"
               /\ \/ attempts'[i].state = "indeterminate"
                  \/ at[w] \in Flight /\ call[w] = i

LEMMA RowFields ==
    ASSUME BooksOK, NEW i \in 1..Len(attempts)
    PROVE  /\ attempts[i] \in Row /\ attempts[i].req \in Request
           /\ attempts[i].month \in Month /\ attempts[i].state \in CallState
           /\ attempts[i].sent \in BOOLEAN /\ attempts[i].asked \in BOOLEAN
<1>1. attempts[i] \in Row
  BY DEF BooksOK
<1>2. ASSUME NEW a \in Row
      PROVE  /\ a.req \in Request /\ a.month \in Month /\ a.state \in CallState
             /\ a.sent \in BOOLEAN /\ a.asked \in BOOLEAN
  BY DEF Row
<1>3. QED
  BY <1>1, <1>2

LEMMA UnmovedMoves ==
    ASSUME BooksOK, NEW w \in Worker, attempts' = attempts
    PROVE  RowsMoved(w)
BY DEF BooksOK, RowsMoved

LEMMA FinalizedMoves ==
    ASSUME BooksOK, NEW w \in Worker, at[w] \in Flight,
           call[w] \in DOMAIN attempts, NEW state \in CallState,
           attempts' = Finalized(w, state)
    PROVE  /\ RowsMoved(w)
           /\ attempts'[call[w]].state = IF attempts[call[w]].state = "in_flight"
                                         THEN state ELSE attempts[call[w]].state
           /\ attempts'[call[w]].sent = attempts[call[w]].sent
<1> DEFINE c == call[w]
<1>1. c \in 1..Len(attempts) /\ attempts[c] \in Row
  BY RowFields DEF BooksOK
<1>2. CASE attempts[c].state = "in_flight"
  <2>1. attempts' = [attempts EXCEPT ![c].state = state]
    BY <1>2 DEF Finalized
  <2>2. [attempts[c] EXCEPT !.state = state] \in Row
    BY <1>1 DEF Row
  <2>3. /\ attempts' \in Seq(Row) /\ Len(attempts') = Len(attempts)
        /\ \A i \in 1..Len(attempts) : i # c => attempts'[i] = attempts[i]
        /\ attempts'[c] = [attempts[c] EXCEPT !.state = state]
    BY <1>1, <2>1, <2>2 DEF BooksOK
  <2>4. /\ attempts'[c].req = attempts[c].req /\ attempts'[c].month = attempts[c].month
        /\ attempts'[c].asked = attempts[c].asked /\ attempts'[c].sent = attempts[c].sent
        /\ attempts'[c].state = state
    BY <1>1, <2>3 DEF Row
  <2>5. QED
    BY <1>2, <2>3, <2>4 DEF RowsMoved
<1>3. CASE attempts[c].state # "in_flight"
  BY <1>3, UnmovedMoves DEF Finalized
<1>4. QED
  BY <1>2, <1>3

LEMMA SentMoves ==
    ASSUME BooksOK, NEW w \in Worker, call[w] \in DOMAIN attempts,
           attempts' = [attempts EXCEPT ![call[w]].sent = TRUE]
    PROVE  /\ RowsMoved(w)
           /\ attempts'[call[w]].sent
           /\ attempts'[call[w]].state = attempts[call[w]].state
<1> DEFINE c == call[w]
<1>1. c \in 1..Len(attempts) /\ attempts[c] \in Row
  BY RowFields DEF BooksOK
<1>2. [attempts[c] EXCEPT !.sent = TRUE] \in Row
  BY <1>1 DEF Row
<1>3. /\ attempts' \in Seq(Row) /\ Len(attempts') = Len(attempts)
      /\ \A i \in 1..Len(attempts) : i # c => attempts'[i] = attempts[i]
      /\ attempts'[c] = [attempts[c] EXCEPT !.sent = TRUE]
  BY <1>1, <1>2 DEF BooksOK
<1>4. /\ attempts'[c].req = attempts[c].req /\ attempts'[c].month = attempts[c].month
      /\ attempts'[c].asked = attempts[c].asked /\ attempts'[c].sent
      /\ attempts'[c].state = attempts[c].state
  BY <1>1, <1>3 DEF Row
<1>5. QED
  BY <1>3, <1>4 DEF RowsMoved

LEMMA InterruptedRows ==
    ASSUME BooksOK, NEW r, NEW rows, rows = Interrupted(r)
    PROVE  /\ rows \in Seq(Row) /\ Len(rows) = Len(attempts)
           /\ \A i \in 1..Len(attempts) :
                /\ rows[i].req = attempts[i].req
                /\ rows[i].month = attempts[i].month
                /\ rows[i].asked = attempts[i].asked
                /\ rows[i].sent = attempts[i].sent
                /\ \/ rows[i].state = attempts[i].state
                   \/ /\ attempts[i].state = "in_flight"
                      /\ rows[i].state = "indeterminate"
<1>1. DOMAIN attempts = 1..Len(attempts) /\ Len(attempts) \in Nat
  BY DEF BooksOK
<1>2. ASSUME NEW i \in 1..Len(attempts)
      PROVE  /\ [attempts[i] EXCEPT !.state = "indeterminate"] \in Row
             /\ attempts[i] \in Row
             /\ LET e == [attempts[i] EXCEPT !.state = "indeterminate"] IN
                /\ e.req = attempts[i].req /\ e.month = attempts[i].month
                /\ e.asked = attempts[i].asked /\ e.sent = attempts[i].sent
                /\ e.state = "indeterminate"
  <2>1. attempts[i] \in Row
    BY <1>2, RowFields
  <2>2. QED
    BY <2>1 DEF Row, CallState
<1>3. rows \in [1..Len(attempts) -> Row]
  BY <1>1, <1>2 DEF Interrupted
<1>4. rows \in Seq(Row) /\ Len(rows) = Len(attempts)
  BY <1>1, <1>3
<1>5. ASSUME NEW i \in 1..Len(attempts)
      PROVE  \/ rows[i] = attempts[i]
             \/ /\ attempts[i].state = "in_flight"
                /\ rows[i] = [attempts[i] EXCEPT !.state = "indeterminate"]
  BY <1>1, <1>5 DEF Interrupted
<1>6. QED
  BY <1>2, <1>4, <1>5

LEMMA InterruptedMoves ==
    ASSUME BooksOK, NEW w \in Worker, NEW r, attempts' = Interrupted(r)
    PROVE  RowsMoved(w)
BY InterruptedRows DEF RowsMoved

(***************************************************************************)
(* What moving rows leave alone.                                           *)
(***************************************************************************)
LEMMA MovedShows ==
    ASSUME BooksOK, NEW w \in Worker, RowsMoved(w), CallInv
    PROVE  Shown \subseteq Shown'
<1>1. SUFFICES ASSUME NEW r \in Request, NEW i \in DOMAIN attempts,
                      attempts[i].req = r, attempts[i].sent,
                      attempts[i].state \in {"completed", "indeterminate"}
               PROVE  \E j \in DOMAIN attempts' :
                        /\ attempts'[j].req = r /\ attempts'[j].sent
                        /\ attempts'[j].state \in {"completed", "indeterminate"}
  BY DEF Shown
<1>2. i \in 1..Len(attempts) /\ i \in DOMAIN attempts'
  BY <1>1 DEF RowsMoved, BooksOK
<1>3. QED
  BY <1>1, <1>2 DEF RowsMoved

LEMMA MovedOnce ==
    ASSUME BooksOK, NEW w \in Worker, RowsMoved(w), CallsOnce
    PROVE  CallsOnce'
<1>1. DOMAIN attempts = 1..Len(attempts) /\ DOMAIN attempts' = 1..Len(attempts)
  BY DEF BooksOK, RowsMoved
<1>2. SUFFICES ASSUME NEW i \in 1..Len(attempts), NEW j \in 1..Len(attempts),
                      i < j, attempts'[i].req = attempts'[j].req,
                      attempts'[i].month = attempts'[j].month,
                      ~attempts'[j].asked,
                      \A k \in i + 1..j - 1 : attempts'[k].req # attempts'[i].req
               PROVE  attempts'[i].state \notin Unsettled
  BY <1>1 DEF CallsOnce, Unsettled
<1>3. \A k \in i + 1..j - 1 : k \in 1..Len(attempts)
  BY DEF BooksOK
<1>4. /\ attempts[i].req = attempts[j].req /\ attempts[i].month = attempts[j].month
      /\ ~attempts[j].asked
  BY <1>2 DEF RowsMoved
<1>5. \A k \in i + 1..j - 1 : attempts[k].req # attempts[i].req
  BY <1>2, <1>3 DEF RowsMoved
<1>6. i \in DOMAIN attempts /\ j \in DOMAIN attempts
  BY <1>1
<1>7. attempts[i].state \notin Unsettled
  BY <1>2, <1>4, <1>5, <1>6 DEF CallsOnce
<1>8. QED
  BY <1>7 DEF RowsMoved, Unsettled

Booked(m) == {i \in DOMAIN attempts : attempts[i].month = m}

LEMMA MovedBooked ==
    ASSUME BooksOK, NEW w \in Worker, RowsMoved(w), NEW m
    PROVE  Booked(m)' = Booked(m)
BY DEF BooksOK, RowsMoved, Booked

---------------------------------------------------------------------------
(***************************************************************************)
(* A step of one worker disturbs no other.                                 *)
(***************************************************************************)
LEMMA MovesPlace ==
    ASSUME PlaceInv, NEW w \in Worker, Moves(w), PlaceOf(w)'
    PROVE  PlaceInv'
<1>1. ASSUME NEW v \in Worker \ {w}
      PROVE  PlaceOf(v)'
  BY <1>1 DEF PlaceInv, PlaceOf, Moves, OthersStay
<1>2. QED
  BY <1>1 DEF PlaceInv, Moves

LEMMA MovesProgress ==
    ASSUME ProgressInv, NEW w \in Worker, Moves(w), Progress(w)',
           Shown \subseteq Shown', LocalOK,
           \A l \in Target : profile[l] # "none" => profile'[l] # "none"
    PROVE  ProgressInv'
<1>1. ASSUME NEW v \in Worker \ {w}
      PROVE  Progress(v)'
  <2>1. /\ at'[v] = at[v] /\ mode'[v] = mode[v] /\ want'[v] = want[v]
        /\ down'[v] = down[v] /\ target'[v] = target[v] /\ target[v] \in Target
    BY DEF Moves, OthersStay, LocalOK
  <2>2. Progress(v)
    BY DEF ProgressInv
  <2>3. QED
    BY <2>1, <2>2 DEF Progress, Asks, Ready, AtSite
<1>2. QED
  BY <1>1 DEF ProgressInv

LEMMA MovesCalls ==
    ASSUME BooksOK, NEW w \in Worker, CallInv, RowsMoved(w), Moves(w),
           Flying(w)',
           at'[w] \in Flight => at[w] \in Flight /\ call'[w] = call[w]
    PROVE  CallInv'
<1>1. ASSUME NEW v \in Worker \ {w}, at'[v] \in Flight
      PROVE  /\ at[v] \in Flight /\ at'[v] = at[v]
             /\ call'[v] = call[v] /\ RequestOf(v)' = RequestOf(v)
  BY <1>1 DEF Moves, OthersStay, RequestOf
<1>2. ASSUME NEW v \in Worker \ {w}
      PROVE  Flying(v)'
  <2>1. CASE at'[v] \in Flight
    <3>1. at[v] \in Flight /\ at'[v] = at[v] /\ call'[v] = call[v]
          /\ RequestOf(v)' = RequestOf(v)
      BY <1>1, <2>1
    <3>2. /\ call[v] \in 1..Len(attempts) /\ call[v] \in DOMAIN attempts'
          /\ attempts[call[v]].req = RequestOf(v)
          /\ attempts[call[v]].state \in Unsettled
          /\ at[v] = "answer" => attempts[call[v]].sent
          /\ at[w] \in Flight => call[w] # call[v]
      BY <3>1 DEF CallInv, Flying, OwnCall, BooksOK, RowsMoved
    <3>3. QED
      BY <3>1, <3>2 DEF RowsMoved, Flying, Unsettled
  <2>2. QED
    BY <2>1 DEF Flying
<1>3. OwnCall'
  BY <1>1 DEF CallInv, OwnCall
<1>4. QED
  BY <1>2, <1>3 DEF CallInv

LEMMA MovesGate ==
    ASSUME GateInv, NEW w \in Worker, Moves(w), Holding(w)',
           Inside(w)' => Inside(w) /\ key'[w] = key[w] /\ mine'[w] = mine[w],
           paid' = paid, asked' = asked
    PROVE  GateInv'
<1>1. ASSUME NEW v \in Worker \ {w}
      PROVE  /\ Inside(v)' <=> Inside(v)
             /\ key'[v] = key[v] /\ mine'[v] = mine[v]
             /\ Holding(v)'
  <2>1. /\ at'[v] = at[v] /\ mode'[v] = mode[v] /\ key'[v] = key[v]
        /\ before'[v] = before[v] /\ mine'[v] = mine[v] /\ word'[v] = word[v]
    BY DEF Moves, OthersStay
  <2>2. Holding(v)
    BY DEF GateInv
  <2>3. QED
    BY <2>1, <2>2 DEF Inside, Holding
<1>2. OwnRow'
  BY <1>1 DEF GateInv, OwnRow
<1>3. RichRows' /\ LookupsOnce'
  BY DEF GateInv, RichRows, LookupsOnce
<1>4. QED
  BY <1>1, <1>2, <1>3 DEF GateInv

---------------------------------------------------------------------------
(***************************************************************************)
(* The counters: the month's, and the batch's.                             *)
(***************************************************************************)
MeterInv ==
    \A m \in Month :
        /\ reserved[m] = Cardinality(Booked(m))
        /\ reserved[m] <= call_limit[m] /\ call_limit[m] <= MonthLimit

Open == {v \in Worker : mode[v] = "batch" /\ at[v] \in {"open", "slot", "send"}}

LEMMA BudgetIs ==
    BatchStaysInBudget <=> batched + Cardinality(Open) <= used /\ used <= BatchLimit
BY DEF BatchStaysInBudget, Open

LEMMA BudgetNext ==
    ASSUME batched' + Cardinality(Open') <= used', used' <= BatchLimit
    PROVE  BatchStaysInBudget'
BY DEF BatchStaysInBudget, Open

LEMMA OpenFinite == IsFiniteSet(Open) /\ Cardinality(Open) \in Nat
BY LookupAssumption, FS_Subset, FS_CardinalityType DEF Open

LEMMA OpenLess ==
    ASSUME NEW w \in Worker, OthersStay(w), w \notin Open'
    PROVE  /\ Open' = Open \ {w}
           /\ IsFiniteSet(Open') /\ Cardinality(Open') \in Nat
           /\ Cardinality(Open') = IF w \in Open THEN Cardinality(Open) - 1
                                   ELSE Cardinality(Open)
<1>1. Open' = Open \ {w}
  BY DEF Open, OthersStay
<1>2. QED
  BY <1>1, OpenFinite, FS_RemoveElement, FS_CardinalityType

LEMMA OpenMore ==
    ASSUME NEW w \in Worker, OthersStay(w), w \notin Open, w \in Open'
    PROVE  Cardinality(Open') = Cardinality(Open) + 1
<1>1. Open' = Open \cup {w}
  BY DEF Open, OthersStay
<1>2. QED
  BY <1>1, OpenFinite, FS_AddElement

LEMMA OpenSame ==
    ASSUME NEW w \in Worker, OthersStay(w), w \in Open <=> w \in Open'
    PROVE  Open' = Open
BY DEF Open, OthersStay

LEMMA BudgetSame ==
    ASSUME NEW w \in Worker, BatchOK, OthersStay(w), BatchStaysInBudget,
           w \in Open' => w \in Open, used' = used, batched' = batched
    PROVE  BatchStaysInBudget'
<1>1. Cardinality(Open') <= Cardinality(Open)
  <2>1. CASE w \in Open'
    BY <2>1, OpenSame, OpenFinite
  <2>2. CASE w \notin Open'
    BY <2>2, OpenLess, OpenFinite
  <2>3. QED
    BY <2>1, <2>2
<1>2. Cardinality(Open') \in Nat
  BY <1>1, OpenLess, OpenSame, OpenFinite
<1>3. batched' + Cardinality(Open') <= used' /\ used' <= BatchLimit
  BY <1>1, <1>2, BudgetIs, OpenFinite, LookupAssumption DEF BatchOK
<1>4. QED
  BY <1>3, BudgetNext

LEMMA MovedMeter ==
    ASSUME BooksOK, NEW w \in Worker, RowsMoved(w), MeterInv,
           UNCHANGED <<reserved, call_limit>>
    PROVE  MeterInv'
<1>1. \A m \in Month : Booked(m)' = Booked(m)
  BY MovedBooked
<1>2. QED
  BY <1>1 DEF MeterInv, Month

Absent(l) == contact[l] = "not_found"
AbsenceInv ==
    \A l \in Target : Absent(l) =>
        /\ \A kind \in {"angle", "page", "person"} : <<l, kind>> \in Shown
        /\ profile[l] # "none"

LEMMA AbsenceKept ==
    ASSUME AbsenceInv, Shown \subseteq Shown', contact' = contact,
           \A l \in Target : profile[l] # "none" => profile'[l] # "none"
    PROVE  AbsenceInv'
BY DEF AbsenceInv, Absent

LEMMA AbsenceIs == AbsenceInv => AbsenceIsEarned
BY DEF AbsenceInv, Absent, AbsenceIsEarned, Shown

---------------------------------------------------------------------------
(***************************************************************************)
(* The inductive invariant, and how a worker's step keeps it.              *)
(***************************************************************************)
LookupsInv ==
    /\ LookupsTypeOK /\ PlaceInv /\ GateInv /\ CallInv /\ ProgressInv
    /\ CallsOnce /\ MeterInv /\ BatchStaysInBudget /\ AbsenceInv

ProfilesStay == \A l \in Target : profile[l] # "none" => profile'[l] # "none"

LEMMA WalkKeeps ==
    ASSUME LookupsInv, NEW w \in Worker, Moves(w), PlaceOf(w)', GateInv',
           Flying(w)',
           at'[w] \in Flight => at[w] \in Flight /\ call'[w] = call[w],
           Progress(w)', RowsMoved(w), BooksOK', FoundOK', BatchOK', MeterInv',
           BatchStaysInBudget', AbsenceInv', ProfilesStay,
           lookups' \in 0..MaxLookups, crashes' \in 0..MaxCrashes
    PROVE  LookupsInv'
<1>1. BooksOK /\ LocalOK /\ CallInv
  BY DEF LookupsInv, LookupsTypeOK
<1>2. Shown \subseteq Shown' /\ CallsOnce'
  BY <1>1, MovedShows, MovedOnce DEF LookupsInv
<1>3. PlaceInv' /\ CallInv' /\ ProgressInv'
  BY <1>1, <1>2, MovesPlace, MovesCalls, MovesProgress
     DEF LookupsInv, ProfilesStay
<1>4. LookupsTypeOK'
  BY DEF LookupsTypeOK, Moves
<1>5. QED
  BY <1>2, <1>3, <1>4 DEF LookupsInv

LEMMA LandedPlace ==
    ASSUME PlaceInv, NEW w \in Worker, Landed(w), mode[w] # "none"
    PROVE  PlaceOf(w)' /\ Flying(w)' /\ at'[w] \notin Flight
BY DEF PlaceInv, PlaceOf, Landed, Flying, Flight, Saves, Posting, Gate

LEMMA LandedGate ==
    ASSUME GateInv, NEW w \in Worker, Landed(w), mode[w] # "none",
           at[w] \notin Gate, paid' = paid, asked' = asked
    PROVE  GateInv'
<1>1. at'[w] \notin Gate
  BY DEF Landed, Gate, Saves
<1>2. Inside(w)' => Inside(w) /\ key'[w] = key[w] /\ mine'[w] = mine[w]
  BY DEF Landed, Inside
<1>3. Holding(w)'
  BY <1>1, <1>2 DEF GateInv, Holding, Gate
<1>4. QED
  BY <1>2, <1>3, MovesGate DEF Landed

LEMMA LandedPost ==
    ASSUME LookupsInv, NEW w \in Worker, at[w] \in Posting, Landed(w),
           Progress(w)', RowsMoved(w), Metered, MeterInv', BatchOK',
           BatchStaysInBudget', configured' = configured,
           call_limit' \in [Month -> Nat], reserved' \in [Month -> Nat],
           blocked' \in {"none", "rate_limited", "credential"}
    PROVE  LookupsInv'
<1>1. BooksOK /\ LocalOK /\ FoundOK /\ PlaceInv /\ GateInv /\ CallInv
  BY DEF LookupsInv, LookupsTypeOK
<1>2. mode[w] # "none" /\ at[w] \notin Gate
  BY <1>1 DEF PlaceInv, PlaceOf, Posting, Gate
<1>3. UNCHANGED <<day, paid, asked, contact, profile, fresh, lookups, crashes>>
  BY DEF Metered, found
<1>4. BooksOK' /\ FoundOK'
  BY <1>1, <1>3 DEF BooksOK, FoundOK, RowsMoved
<1>5. PlaceOf(w)' /\ Flying(w)' /\ at'[w] \notin Flight /\ GateInv'
  BY <1>1, <1>2, <1>3, LandedPlace, LandedGate
<1>6. ProfilesStay
  BY <1>3 DEF ProfilesStay
<1>7. AbsenceInv'
  BY <1>1, <1>3, MovedShows, AbsenceKept DEF LookupsInv
<1>8. lookups' \in 0..MaxLookups /\ crashes' \in 0..MaxCrashes
  BY <1>3 DEF LookupsInv, LookupsTypeOK
<1>9. QED
  BY <1>4, <1>5, <1>6, <1>7, <1>8, WalkKeeps DEF Landed

LEMMA LandedSave ==
    ASSUME LookupsInv, NEW w \in Worker, at[w] \in Saves, Landed(w),
           Progress(w)', Saving, FoundOK', AbsenceInv', ProfilesStay
    PROVE  LookupsInv'
<1>1. BooksOK /\ LocalOK /\ PlaceInv /\ GateInv /\ BatchOK
  BY DEF LookupsInv, LookupsTypeOK
<1>2. mode[w] # "none" /\ at[w] \notin Gate
  BY <1>1 DEF PlaceInv, PlaceOf, Saves, Gate
<1>3. UNCHANGED <<day, configured, call_limit, reserved, attempts, blocked, paid,
                  asked, used, rung, batched, lookups, crashes>>
  BY DEF Saving, account, batch
<1>4. BooksOK' /\ BatchOK'
  BY <1>1, <1>3 DEF BooksOK, BatchOK
<1>5. PlaceOf(w)' /\ Flying(w)' /\ at'[w] \notin Flight /\ GateInv'
  BY <1>1, <1>2, <1>3, LandedPlace, LandedGate
<1>6. RowsMoved(w) /\ MeterInv'
  BY <1>1, <1>3, UnmovedMoves, MovedMeter DEF LookupsInv
<1>7. w \notin Open'
  BY DEF Landed, Open, Saves
<1>8. BatchStaysInBudget'
  BY <1>1, <1>3, <1>7, BudgetSame DEF LookupsInv, Landed, Moves
<1>9. lookups' \in 0..MaxLookups /\ crashes' \in 0..MaxCrashes
  BY <1>3 DEF LookupsInv, LookupsTypeOK
<1>10. QED
  BY <1>4, <1>5, <1>6, <1>8, <1>9, WalkKeeps DEF Landed

---------------------------------------------------------------------------
(***************************************************************************)
(* The saves.                                                              *)
(***************************************************************************)
LEMMA SavesShow ==
    ASSUME LookupsInv, Saving
    PROVE  Shown' = Shown
BY DEF Saving, account, Shown

LEMMA FactKeeps ==
    ASSUME LookupsInv, NEW w \in Worker, SaveContact(w) \/ SaveFact(w)
    PROVE  LookupsInv'
<1>1. LocalOK /\ FoundOK /\ PlaceInv /\ Progress(w) /\ at[w] \in Saves
  BY DEF LookupsInv, LookupsTypeOK, ProgressInv, SaveContact, SaveFact, Saves
<1>2. Saving /\ FinishLookup(w, "ok") /\ profile' = profile
  BY DEF SaveContact, SaveFact
<1>3. Landed(w) /\ Progress(w)'
  BY <1>1, <1>2, SavesShow, FinishLands, LandedElsewhere DEF PlaceInv, Ends
<1>4. FoundOK'
  BY <1>1 DEF LocalOK, FoundOK, SaveContact, SaveFact, Set, ContactRow
<1>5. \A l \in Target : Absent(l)' => Absent(l)
  BY <1>1 DEF LocalOK, FoundOK, SaveContact, SaveFact, Set, Absent
<1>6. AbsenceInv'
  BY <1>2, <1>5, SavesShow DEF AbsenceInv, LookupsInv
<1>7. QED
  BY <1>1, <1>2, <1>3, <1>4, <1>6, LandedSave DEF ProfilesStay

LEMMA LinkedinKeeps ==
    ASSUME LookupsInv, NEW w \in Worker, SaveLinkedin(w)
    PROVE  LookupsInv'
<1>1. LocalOK /\ FoundOK /\ PlaceInv /\ Progress(w) /\ at[w] \in Saves
  BY DEF LookupsInv, LookupsTypeOK, ProgressInv, SaveLinkedin, Saves
<1>2. Flags(w)
  BY <1>1 DEF LocalOK, SaveLinkedin, Flags, Set, Ends
<1>3. Landed(w) /\ at'[w] = "profile"
  BY <1>1, <1>2, StepLands DEF PlaceInv, SaveLinkedin, Saves
<1>4. Progress(w)'
  BY <1>1, <1>3, SavesShow DEF SaveLinkedin, Progress, Asks, Ready, AtSite,
     SitePlaces, Posting, Landed, Moves
<1>5. FoundOK' /\ \A l \in Target : Absent(l)' => Absent(l)
  BY <1>1 DEF LocalOK, FoundOK, SaveLinkedin, Set, ContactRow, Absent
<1>6. AbsenceInv' /\ ProfilesStay
  BY <1>5, SavesShow DEF AbsenceInv, LookupsInv, SaveLinkedin, ProfilesStay
<1>7. QED
  BY <1>1, <1>3, <1>4, <1>5, <1>6, LandedSave DEF SaveLinkedin

LEMMA DecideProgress ==
    ASSUME LocalOK, PlaceInv, NEW w \in Worker, NEW mailbox \in BOOLEAN,
           NEW outage \in BOOLEAN, Decide(w, mailbox, outage), Progress(w),
           Shown \subseteq Shown', at[w] \in SitePlaces, down[w] => outage,
           ~outage => profile'[target[w]] # "none"
    PROVE  Landed(w) /\ Progress(w)'
<1>1. /\ Landed(w) /\ at'[w] \in {"idle", "settle", "miss"}
      /\ at'[w] = "miss" => mode[w] # "site" /\ ~outage
  BY DecideLands DEF PlaceInv
<1>2. CASE at'[w] = "miss"
  <2>1. /\ <<target[w], "angle">> \in Shown /\ <<target[w], "page">> \in Shown
        /\ <<target[w], "person">> \in Shown
    BY <1>1, <1>2 DEF Progress, AtSite
  <2>2. QED
    BY <1>1, <1>2, <2>1 DEF Progress, Asks, Ready, AtSite, SitePlaces, Posting,
       Landed, Moves
<1>3. QED
  BY <1>1, <1>2, LandedElsewhere

LEMMA ProfileReadKeeps ==
    ASSUME LookupsInv, NEW w \in Worker, ReadProfile(w)
    PROVE  LookupsInv'
<1>1. LocalOK /\ FoundOK /\ PlaceInv /\ Progress(w) /\ at[w] \in Saves
      /\ at[w] \in SitePlaces
  BY DEF LookupsInv, LookupsTypeOK, ProgressInv, ReadProfile, Saves, SitePlaces
<1>2. Shown' = Shown /\ UNCHANGED <<contact, profile, fresh>>
  BY SavesShow DEF ReadProfile, found
<1>3. Landed(w) /\ Progress(w)'
  <2>1. CASE Decide(w, HasMailbox(target[w]), down[w])
             /\ profile[target[w]] \in {"found", "mailbox"}
    <3>1. HasMailbox(target[w]) \in BOOLEAN /\ down[w] \in BOOLEAN
      BY <1>1 DEF HasMailbox, LocalOK
    <3>2. QED
      BY <1>1, <1>2, <2>1, <3>1, DecideProgress
  <2>2. CASE AskFor(w, "site") /\ Same(w)
    <3>1. Landed(w) /\ at'[w] = "claim" /\ want'[w] = "site"
      BY <1>1, <2>2, SameFlags, AskLands DEF PlaceInv, Kind
    <3>2. QED
      BY <1>1, <1>2, <2>2, <3>1, StaysAtSite DEF AtSite, Asks, Posting
  <2>3. QED
    BY <2>1, <2>2 DEF ReadProfile
<1>4. FoundOK' /\ ProfilesStay /\ AbsenceInv'
  BY <1>1, <1>2, AbsenceKept DEF FoundOK, ProfilesStay, LookupsInv
<1>5. QED
  BY <1>1, <1>3, <1>4, LandedSave DEF ReadProfile

LEMMA ProfileKeeps ==
    ASSUME LookupsInv, NEW w \in Worker, SaveProfile(w)
    PROVE  LookupsInv'
<1>1. LocalOK /\ FoundOK /\ PlaceInv /\ Progress(w)
  BY DEF LookupsInv, LookupsTypeOK, ProgressInv
<1>2. at[w] \in {"nosite", "unread", "sitefacts", "sitemail"}
      /\ ProfileOf[at[w]] \in Profile \ {"none"}
  BY DEF SaveProfile, ProfileOf, Profile
<1>3. at[w] \in Saves /\ at[w] \in SitePlaces
  BY <1>2 DEF Saves, SitePlaces
<1>4. /\ profile' = Set(profile, target[w], ProfileOf[at[w]])
      /\ Saving /\ UNCHANGED <<contact, fresh>>
      /\ Decide(w, at[w] = "sitemail", down[w] \/ at[w] = "unread")
  BY DEF SaveProfile
<1>5. FoundOK' /\ profile'[target[w]] # "none" /\ ProfilesStay
  BY <1>1, <1>2, <1>4 DEF FoundOK, LocalOK, Set, ProfilesStay
<1>6. Landed(w) /\ Progress(w)'
  <2>1. (at[w] = "sitemail") \in BOOLEAN
        /\ (down[w] \/ at[w] = "unread") \in BOOLEAN
    OBVIOUS
  <2>2. QED
    BY <1>1, <1>3, <1>4, <1>5, <2>1, SavesShow, DecideProgress
<1>7. AbsenceInv'
  BY <1>4, <1>5, SavesShow, AbsenceKept DEF LookupsInv, ProfilesStay
<1>8. QED
  BY <1>3, <1>4, <1>5, <1>6, <1>7, LandedSave

LEMMA NotFoundKeeps ==
    ASSUME LookupsInv, NEW w \in Worker, MarkNotFound(w)
    PROVE  LookupsInv'
<1>1. LocalOK /\ FoundOK /\ PlaceInv /\ Progress(w) /\ at[w] \in Saves
  BY DEF LookupsInv, LookupsTypeOK, ProgressInv, MarkNotFound, Saves
<1>2. Saving /\ FinishLookup(w, "ok") /\ profile' = profile /\ fresh' = fresh
  BY DEF MarkNotFound
<1>3. Landed(w) /\ Progress(w)'
  BY <1>1, <1>2, SavesShow, FinishLands, LandedElsewhere DEF PlaceInv, Ends
<1>4. /\ profile[target[w]] # "none"
      /\ \A kind \in {"angle", "page", "person"} : <<target[w], kind>> \in Shown
  BY <1>1 DEF MarkNotFound, PlaceInv, PlaceOf, Progress, Ready
<1>5. FoundOK' /\ \A l \in Target : Absent(l)' => Absent(l) \/ l = target[w]
  BY <1>1, <1>2 DEF LocalOK, FoundOK, MarkNotFound, Set, ContactRow, Absent
<1>6. AbsenceInv'
  BY <1>2, <1>4, <1>5, SavesShow DEF AbsenceInv, LookupsInv
<1>7. QED
  BY <1>1, <1>2, <1>3, <1>5, <1>6, LandedSave DEF ProfilesStay

---------------------------------------------------------------------------
(***************************************************************************)
(* One metered call.                                                       *)
(***************************************************************************)
LEMMA PostMoves ==
    ASSUME LookupsInv, NEW w \in Worker, at[w] \in Posting, NEW p \in Posting,
           GoTo(w, p), call' \in [Worker -> Nat], paid' = paid,
           \A v \in Worker \ {w} : call'[v] = call[v],
           UNCHANGED <<mode, target, key, before, mine, want, person, down,
                       word, end>>
    PROVE  /\ Moves(w) /\ at'[w] = p /\ PlaceOf(w)' /\ Holding(w)'
           /\ Inside(w)' => Inside(w) /\ key'[w] = key[w] /\ mine'[w] = mine[w]
<1>1. LocalOK /\ at \in [Worker -> Place] /\ PlaceOf(w) /\ Holding(w)
  BY DEF LookupsInv, LookupsTypeOK, PlaceInv, GateInv
<1>2. Moves(w) /\ at'[w] = p
  BY <1>1 DEF GoTo, Set, Moves, LocalOK, OthersStay, Place
<1>3. p \notin Gate \cup {"idle", "settle", "miss"}
      /\ at[w] \notin Gate \cup {"idle", "settle", "miss"}
  BY DEF Posting, Gate
<1>4. PlaceOf(w)' /\ (Inside(w)' <=> Inside(w))
  BY <1>1, <1>2, <1>3 DEF PlaceOf, Inside
<1>5. at'[w] \notin Gate /\ at'[w] # "declare" /\ at'[w] # "insert"
  BY <1>2, <1>3 DEF Gate
<1>6. Holding(w)'
  BY <1>1, <1>4, <1>5 DEF Holding
<1>7. QED
  BY <1>2, <1>4, <1>6

\* The lookup waits for its answer: what it knows is what it knew.
LEMMA PostProgress ==
    ASSUME LookupsInv, NEW w \in Worker, at[w] \in Posting, at'[w] \in Posting,
           Shown \subseteq Shown', UNCHANGED <<mode, target, want, down>>
    PROVE  Progress(w)'
<1>1. Progress(w)
  BY DEF LookupsInv, ProgressInv
<1>2. at[w] \notin SitePlaces \cup {"linkedin", "miss"}
      /\ at'[w] \notin SitePlaces \cup {"linkedin", "miss"}
  BY DEF SitePlaces, Posting
<1>3. QED
  BY <1>1, <1>2 DEF Progress, Asks, Ready, AtSite

LEMMA PostWalk ==
    ASSUME LookupsInv, NEW w \in Worker, at[w] \in Posting, NEW p \in Posting,
           GoTo(w, p), UNCHANGED local, RowsMoved(w), Metered,
           UNCHANGED <<configured, call_limit, reserved, blocked>>,
           p \in Flight => at[w] \in Flight,
           p = "answer" /\ call[w] \in DOMAIN attempts
                             => attempts'[call[w]].sent,
           at[w] \in Flight /\ call[w] \in DOMAIN attempts
                               => attempts'[call[w]].state \in Unsettled,
           p = "answer" \/ at[w] # "answer",
           BatchOK', BatchStaysInBudget'
    PROVE  LookupsInv'
<1>1. BooksOK /\ LocalOK /\ FoundOK /\ PlaceInv /\ GateInv /\ CallInv
  BY DEF LookupsInv, LookupsTypeOK
<1>2. UNCHANGED <<mode, target, key, before, mine, want, call, person, down,
                  word, end>>
  BY DEF local
<1>3. UNCHANGED <<day, paid, asked, contact, profile, fresh, lookups, crashes>>
  BY DEF Metered, found
<1>4. /\ Moves(w) /\ at'[w] = p /\ PlaceOf(w)' /\ Holding(w)'
      /\ Inside(w)' => Inside(w) /\ key'[w] = key[w] /\ mine'[w] = mine[w]
  <2>1. call' \in [Worker -> Nat] /\ \A v \in Worker \ {w} : call'[v] = call[v]
    BY <1>1, <1>2 DEF LocalOK
  <2>2. QED
    BY <1>2, <1>3, <2>1, PostMoves
<1>5. GateInv'
  BY <1>1, <1>3, <1>4, MovesGate
<1>6. Shown \subseteq Shown'
  BY <1>1, MovedShows
<1>7. Progress(w)'
  BY <1>2, <1>4, <1>6, PostProgress
<1>8. Flying(w)'
  <2>1. CASE p \in Flight
    <3>1. /\ call[w] \in 1..Len(attempts) /\ call[w] \in DOMAIN attempts
          /\ call[w] \in DOMAIN attempts' /\ attempts[call[w]].req = RequestOf(w)
      BY <1>1, <2>1 DEF CallInv, Flying, BooksOK, RowsMoved
    <3>2. attempts'[call[w]].req = RequestOf(w)' /\ call'[w] = call[w]
      BY <1>2, <3>1 DEF RowsMoved, RequestOf
    <3>3. QED
      BY <1>4, <2>1, <3>1, <3>2 DEF Flying
  <2>2. QED
    BY <1>4, <2>1 DEF Flying
<1>9. BooksOK' /\ FoundOK'
  BY <1>1, <1>3 DEF BooksOK, FoundOK, RowsMoved
<1>10. MeterInv' /\ AbsenceInv' /\ ProfilesStay
  BY <1>1, <1>3, <1>6, MovedMeter, AbsenceKept DEF LookupsInv, ProfilesStay
<1>11. lookups' \in 0..MaxLookups /\ crashes' \in 0..MaxCrashes
  BY <1>3 DEF LookupsInv, LookupsTypeOK
<1>12. QED
  BY <1>2, <1>4, <1>5, <1>7, <1>8, <1>9, <1>10, <1>11, WalkKeeps

LEMMA ClaimKeeps ==
    ASSUME LookupsInv, NEW w \in Worker, Claim(w)
    PROVE  LookupsInv'
<1>1. BooksOK /\ LocalOK /\ PlaceInv /\ BatchOK /\ Progress(w)
      /\ CallInv /\ MeterInv
  BY DEF LookupsInv, LookupsTypeOK, ProgressInv
<1>2. /\ at[w] = "claim" /\ at[w] \in Posting /\ Metered
      /\ UNCHANGED <<configured, call_limit, reserved, attempts, blocked>>
  BY DEF Claim, account, Posting
<1>3. RowsMoved(w) /\ Shown' = Shown /\ MeterInv'
  BY <1>1, <1>2, UnmovedMoves, MovedMeter DEF Shown
<1>4. CASE Stop(w) /\ UNCHANGED batch
  <2>1. Landed(w) /\ Progress(w)'
    BY <1>1, <1>3, <1>4, StopLands
  <2>2. w \notin Open'
    BY <2>1 DEF Landed, Open, Saves
  <2>3. BatchOK' /\ BatchStaysInBudget'
    BY <1>1, <1>4, <2>1, <2>2, BudgetSame
       DEF batch, BatchOK, LookupsInv, Landed, Moves
  <2>4. QED
    BY <1>1, <1>2, <1>3, <2>1, <2>3, LandedPost DEF BooksOK
<1>5. CASE /\ mode[w] = "batch" => used < BatchLimit
           /\ used' = IF mode[w] = "batch" THEN used + 1 ELSE used
           /\ GoTo(w, "open") /\ UNCHANGED <<local, rung, batched>>
  <2>1. /\ OthersStay(w) /\ at'[w] = "open" /\ mode'[w] = mode[w]
    BY <1>1, <1>5 DEF GoTo, Set, local, OthersStay, PlaceInv
  <2>2. BatchOK'
    BY <1>1, <1>5, LookupAssumption DEF BatchOK
  <2>3. BatchStaysInBudget'
    <3>1. CASE mode[w] = "batch"
      <4>1. w \notin Open /\ w \in Open'
        BY <1>2, <2>1, <3>1 DEF Open
      <4>2. Cardinality(Open') = Cardinality(Open) + 1
        BY <2>1, <4>1, OpenMore
      <4>3. batched' + Cardinality(Open') <= used' /\ used' <= BatchLimit
        BY <1>1, <1>5, <3>1, <4>2, BudgetIs, OpenFinite, LookupAssumption
           DEF LookupsInv, BatchOK
      <4>4. QED
        BY <4>3, BudgetNext
    <3>2. CASE mode[w] # "batch"
      <4>1. used' = used /\ batched' = batched /\ w \notin Open'
        BY <1>5, <2>1, <3>2 DEF Open
      <4>2. QED
        BY <1>1, <2>1, <4>1, BudgetSame DEF LookupsInv
    <3>3. QED
      BY <3>1, <3>2
  <2>4. QED
    BY <1>2, <1>3, <1>5, <2>2, <2>3, PostWalk DEF Posting, Flight
<1>6. QED
  BY <1>1, <1>4, <1>5, LookupAssumption DEF Claim, BatchOK

LEMMA SlotKeeps ==
    ASSUME LookupsInv, NEW w \in Worker, TakeSlot(w)
    PROVE  LookupsInv'
<1>1. BooksOK /\ LocalOK /\ PlaceInv /\ BatchOK /\ CallInv
  BY DEF LookupsInv, LookupsTypeOK
<1>2. /\ at[w] = "slot" /\ GoTo(w, "send") /\ Metered /\ UNCHANGED local
      /\ UNCHANGED <<configured, call_limit, reserved, attempts, blocked>>
      /\ UNCHANGED <<used, rung, batched>>
  BY DEF TakeSlot, account, batch
<1>3. OthersStay(w) /\ at'[w] = "send" /\ mode'[w] = mode[w]
  BY <1>1, <1>2 DEF GoTo, Set, local, OthersStay, PlaceInv
<1>4. BatchOK' /\ BatchStaysInBudget'
  BY <1>1, <1>2, <1>3, BudgetSame DEF BatchOK, LookupsInv, Open
<1>5. QED
  BY <1>1, <1>2, <1>4, UnmovedMoves, PostWalk
     DEF Posting, Flight, CallInv, Flying

LEMMA SendKeeps ==
    ASSUME LookupsInv, NEW w \in Worker, Send(w)
    PROVE  LookupsInv'
<1>1. BooksOK /\ LocalOK /\ PlaceInv /\ BatchOK /\ CallInv
  BY DEF LookupsInv, LookupsTypeOK
<1>2. /\ at[w] = "send" /\ GoTo(w, "answer") /\ Metered /\ UNCHANGED local
      /\ attempts' = [attempts EXCEPT ![call[w]].sent = TRUE]
      /\ UNCHANGED <<configured, call_limit, reserved, blocked, used, rung>>
      /\ batched' = IF mode[w] = "batch" THEN batched + 1 ELSE batched
  BY DEF Send
<1>3. OthersStay(w) /\ at'[w] = "answer" /\ mode'[w] = mode[w]
  BY <1>1, <1>2 DEF GoTo, Set, local, OthersStay, PlaceInv
<1>4. call[w] \in DOMAIN attempts /\ attempts[call[w]].state \in Unsettled
  BY <1>1, <1>2 DEF CallInv, Flying, Flight
<1>5. /\ RowsMoved(w) /\ attempts'[call[w]].sent
      /\ attempts'[call[w]].state = attempts[call[w]].state
  BY <1>1, <1>2, <1>4, SentMoves
<1>6. BatchOK'
  BY <1>1, <1>2 DEF BatchOK
<1>7. BatchStaysInBudget'
  <2>1. w \notin Open' /\ (w \in Open <=> mode[w] = "batch")
    BY <1>2, <1>3 DEF Open
  <2>2. batched' + Cardinality(Open') <= used' /\ used' <= BatchLimit
    BY <1>1, <1>2, <1>3, <2>1, OpenLess, OpenFinite, BudgetIs, LookupAssumption
       DEF LookupsInv, BatchOK
  <2>3. QED
    BY <2>2, BudgetNext
<1>8. QED
  BY <1>2, <1>4, <1>5, <1>6, <1>7, PostWalk DEF Posting, Flight

\* A claim on the batch is given back by the thread that made it.
LEMMA GivenBack ==
    ASSUME LookupsInv, NEW w \in Worker, at[w] = "open", GiveBack(w),
           UNCHANGED <<rung, batched>>, OthersStay(w), w \notin Open'
    PROVE  BatchOK' /\ BatchStaysInBudget'
<1>1. BatchOK /\ (w \in Open <=> mode[w] = "batch")
  BY DEF LookupsInv, LookupsTypeOK, Open
<1>2. batched + Cardinality(Open) <= used /\ used <= BatchLimit
  BY BudgetIs DEF LookupsInv
<1>3. /\ IsFiniteSet(Open') /\ Cardinality(Open') \in Nat
      /\ Cardinality(Open') = IF w \in Open THEN Cardinality(Open) - 1
                              ELSE Cardinality(Open)
  BY OpenLess
<1>4. /\ batched \in Nat /\ used \in Nat /\ Cardinality(Open) \in Nat
      /\ BatchLimit \in Nat
  BY <1>1, OpenFinite, LookupAssumption DEF BatchOK
<1>5. batched' + Cardinality(Open') <= used' /\ used' \in 0..BatchLimit
  BY <1>1, <1>2, <1>3, <1>4 DEF GiveBack
<1>6. QED
  BY <1>1, <1>5, BudgetNext DEF BatchOK

LEMMA RefusedKeeps ==
    ASSUME LookupsInv, NEW w \in Worker, LedgerRefused(w)
    PROVE  LookupsInv'
<1>1. BooksOK /\ LocalOK /\ PlaceInv /\ BatchOK /\ Progress(w) /\ CallInv
      /\ MeterInv
  BY DEF LookupsInv, LookupsTypeOK, ProgressInv
<1>2. /\ at[w] \in Posting /\ Metered /\ Stop(w)
      /\ UNCHANGED <<configured, call_limit, reserved, attempts, blocked>>
      /\ UNCHANGED <<used, rung, batched>>
  BY DEF LedgerRefused, account, batch, Posting
<1>3. RowsMoved(w) /\ Shown' = Shown /\ MeterInv'
  BY <1>1, <1>2, UnmovedMoves, MovedMeter DEF Shown
<1>4. Landed(w) /\ Progress(w)'
  BY <1>1, <1>2, <1>3, StopLands
<1>5. w \notin Open'
  BY <1>4 DEF Landed, Open, Saves
<1>6. BatchOK' /\ BatchStaysInBudget'
  BY <1>1, <1>2, <1>4, <1>5, BudgetSame DEF BatchOK, LookupsInv, Landed, Moves
<1>7. QED
  BY <1>1, <1>2, <1>3, <1>4, <1>6, LandedPost DEF BooksOK

LEMMA WithheldKeeps ==
    ASSUME LookupsInv, NEW w \in Worker, ReserveWithheld(w)
    PROVE  LookupsInv'
<1>1. BooksOK /\ LocalOK /\ PlaceInv /\ BatchOK /\ Progress(w) /\ CallInv
      /\ MeterInv
  BY DEF LookupsInv, LookupsTypeOK, ProgressInv
<1>2. /\ at[w] = "open" /\ Metered /\ Resume(w, FALSE) /\ GiveBack(w)
      /\ UNCHANGED <<configured, call_limit, reserved, attempts, blocked>>
      /\ UNCHANGED <<rung, batched>>
  BY DEF ReserveWithheld, account
<1>3. at[w] \in Posting
  BY <1>2 DEF Posting
<1>4. RowsMoved(w) /\ Shown' = Shown /\ MeterInv'
  BY <1>1, <1>2, UnmovedMoves, MovedMeter DEF Shown
<1>5. Learns(w, FALSE)
  BY <1>2, <1>4 DEF Learns, Metered, found
<1>6. Landed(w) /\ Progress(w)'
  BY <1>1, <1>2, <1>3, <1>5, ResumeLands
<1>7. w \notin Open'
  BY <1>6 DEF Landed, Open, Saves
<1>8. BatchOK' /\ BatchStaysInBudget'
  BY <1>2, <1>6, <1>7, GivenBack DEF Landed, Moves
<1>9. QED
  BY <1>1, <1>2, <1>3, <1>4, <1>6, <1>8, LandedPost DEF BooksOK

LEMMA LimitHolds ==
    ASSUME LookupsInv
    PROVE  /\ month \in Month /\ NewLimit \in Nat /\ NewLimit <= MonthLimit
           /\ reserved[month] <= NewLimit /\ reserved[month] \in Nat
<1>1. BooksOK /\ MeterInv
  BY DEF LookupsInv, LookupsTypeOK
<1>2. month \in Month
  BY <1>1 DEF BooksOK, month, Month
<1>3. reserved[month] \in Nat /\ call_limit[month] \in Nat
      /\ reserved[month] <= call_limit[month] /\ call_limit[month] <= MonthLimit
  BY <1>1, <1>2 DEF BooksOK, MeterInv
<1>4. /\ configured \in Nat /\ MonthLimit \in Nat /\ configured <= MonthLimit
  BY <1>1, LookupAssumption DEF BooksOK
<1>5. QED
  BY <1>2, <1>3, <1>4 DEF NewLimit

LEMMA ExhaustedKeeps ==
    ASSUME LookupsInv, NEW w \in Worker, ReserveExhausted(w)
    PROVE  LookupsInv'
<1>1. BooksOK /\ LocalOK /\ PlaceInv /\ BatchOK /\ Progress(w) /\ CallInv
      /\ MeterInv
  BY DEF LookupsInv, LookupsTypeOK, ProgressInv
<1>2. /\ at[w] = "open" /\ Metered /\ Stop(w) /\ GiveBack(w)
      /\ call_limit' = [call_limit EXCEPT ![month] = NewLimit]
      /\ attempts' = Interrupted(RequestOf(w))
      /\ UNCHANGED <<configured, reserved, blocked, rung, batched>>
  BY DEF ReserveExhausted
<1>3. at[w] \in Posting
  BY <1>2 DEF Posting
<1>4. RowsMoved(w) /\ Shown \subseteq Shown'
  BY <1>1, <1>2, InterruptedMoves, MovedShows
<1>5. call_limit' \in [Month -> Nat] /\ reserved' \in [Month -> Nat]
  BY <1>1, <1>2, LimitHolds DEF BooksOK
<1>6. MeterInv'
  <2>1. \A m \in Month : Booked(m)' = Booked(m)
    BY <1>1, <1>4, MovedBooked
  <2>2. QED
    BY <1>1, <1>2, <2>1, LimitHolds DEF MeterInv, Month, BooksOK
<1>7. Landed(w) /\ Progress(w)'
  BY <1>1, <1>2, <1>4, StopLands
<1>8. w \notin Open'
  BY <1>7 DEF Landed, Open, Saves
<1>9. BatchOK' /\ BatchStaysInBudget'
  BY <1>2, <1>7, <1>8, GivenBack DEF Landed, Moves
<1>10. QED
  BY <1>1, <1>2, <1>3, <1>4, <1>5, <1>6, <1>7, <1>9, LandedPost DEF BooksOK

LEMMA NoSlotKeeps ==
    ASSUME LookupsInv, NEW w \in Worker, NoSlot(w)
    PROVE  LookupsInv'
<1>1. BooksOK /\ LocalOK /\ PlaceInv /\ BatchOK /\ Progress(w) /\ CallInv
      /\ MeterInv
  BY DEF LookupsInv, LookupsTypeOK, ProgressInv
<1>2. /\ at[w] = "slot" /\ Metered /\ Resume(w, FALSE)
      /\ attempts' = Finalized(w, "failed")
      /\ UNCHANGED <<configured, call_limit, reserved, blocked>>
      /\ UNCHANGED <<used, rung, batched>>
  BY DEF NoSlot, batch
<1>3. at[w] \in Posting /\ at[w] \in Flight /\ "failed" \in CallState
  BY <1>2 DEF Posting, Flight, CallState
<1>4. RowsMoved(w)
  BY <1>1, <1>2, <1>3, FinalizedMoves DEF CallInv, Flying
<1>5. Shown \subseteq Shown' /\ MeterInv'
  BY <1>1, <1>2, <1>4, MovedShows, MovedMeter
<1>6. Learns(w, FALSE)
  BY <1>2, <1>5 DEF Learns, Metered, found
<1>7. Landed(w) /\ Progress(w)'
  BY <1>1, <1>2, <1>3, <1>6, ResumeLands
<1>8. w \notin Open'
  BY <1>7 DEF Landed, Open, Saves
<1>9. BatchOK' /\ BatchStaysInBudget'
  BY <1>1, <1>2, <1>7, <1>8, BudgetSame DEF BatchOK, LookupsInv, Landed, Moves
<1>10. QED
  BY <1>1, <1>2, <1>3, <1>4, <1>5, <1>7, <1>9, LandedPost DEF BooksOK

LEMMA AnswerKinds ==
    ASSUME NEW a \in Answers
    PROVE  /\ a[1] \in CallState /\ a[2] \in BOOLEAN
           /\ a[2] => a[1] = "completed"
           /\ a[3] \in {"none", "rate_limited", "credential"}
<1>1. \/ a = <<"completed", TRUE, "none">>
      \/ a = <<"completed", FALSE, "none">>
      \/ a = <<"indeterminate", FALSE, "none">>
      \/ a = <<"rate_limited", FALSE, "rate_limited">>
      \/ a = <<"failed", FALSE, "credential">>
      \/ a = <<"failed", FALSE, "none">>
  BY Zenon DEF Answers
<1>2. CASE a = <<"completed", TRUE, "none">>
  BY <1>2 DEF CallState
<1>3. CASE a = <<"completed", FALSE, "none">>
  BY <1>3 DEF CallState
<1>4. CASE a = <<"indeterminate", FALSE, "none">>
  BY <1>4 DEF CallState
<1>5. CASE a = <<"rate_limited", FALSE, "rate_limited">>
  BY <1>5 DEF CallState
<1>6. CASE a = <<"failed", FALSE, "credential">>
  BY <1>6 DEF CallState
<1>7. CASE a = <<"failed", FALSE, "none">>
  BY <1>7 DEF CallState
<1>8. QED
  BY <1>1, <1>2, <1>3, <1>4, <1>5, <1>6, <1>7

\* A payload settles the row as completed, or finds it taken for interrupted:
\* either way the request was sent, and answered.
LEMMA AnswerKeeps ==
    ASSUME LookupsInv, NEW w \in Worker, Answer(w)
    PROVE  LookupsInv'
<1>1. BooksOK /\ LocalOK /\ PlaceInv /\ BatchOK /\ Progress(w) /\ CallInv
      /\ MeterInv
  BY DEF LookupsInv, LookupsTypeOK, ProgressInv
<1>2. PICK a \in Answers :
         /\ attempts' = Finalized(w, a[1])
         /\ blocked' = IF a[3] = "none" THEN blocked ELSE a[3]
         /\ Resume(w, a[2])
  BY DEF Answer
<1>3. /\ at[w] = "answer" /\ Metered
      /\ UNCHANGED <<configured, call_limit, reserved>>
      /\ UNCHANGED <<used, rung, batched>>
  BY DEF Answer, batch
<1>4. /\ at[w] \in Posting /\ at[w] \in Flight /\ a[1] \in CallState
      /\ a[2] \in BOOLEAN /\ (a[2] => a[1] = "completed")
      /\ a[3] \in {"none", "rate_limited", "credential"}
  BY <1>3, AnswerKinds DEF Posting, Flight
<1>5. /\ call[w] \in DOMAIN attempts /\ attempts[call[w]].req = RequestOf(w)
      /\ attempts[call[w]].state \in Unsettled /\ attempts[call[w]].sent
  BY <1>1, <1>3, <1>4 DEF CallInv, Flying
<1>6. /\ RowsMoved(w)
      /\ attempts'[call[w]].state = IF attempts[call[w]].state = "in_flight"
                                    THEN a[1] ELSE attempts[call[w]].state
      /\ attempts'[call[w]].sent = attempts[call[w]].sent
  BY <1>1, <1>2, <1>4, <1>5, FinalizedMoves
<1>7. Shown \subseteq Shown' /\ MeterInv'
  BY <1>1, <1>3, <1>6, MovedShows, MovedMeter
<1>8. a[2] => RequestOf(w) \in Shown'
  <2>1. call[w] \in 1..Len(attempts) /\ call[w] \in DOMAIN attempts'
    BY <1>1, <1>5, <1>6 DEF BooksOK, RowsMoved
  <2>2. attempts'[call[w]].req = RequestOf(w) /\ RequestOf(w) \in Request
    BY <1>1, <1>5, <1>6, <2>1, RowFields DEF RowsMoved
  <2>3. a[2] => attempts'[call[w]].state \in {"completed", "indeterminate"}
    BY <1>4, <1>5, <1>6 DEF Unsettled
  <2>4. QED
    BY <1>5, <1>6, <2>1, <2>2, <2>3 DEF Shown
<1>9. Learns(w, a[2])
  BY <1>3, <1>7, <1>8 DEF Learns, Metered, found
<1>10. Landed(w) /\ Progress(w)'
  BY <1>1, <1>2, <1>4, <1>9, ResumeLands
<1>11. w \notin Open'
  BY <1>10 DEF Landed, Open, Saves
<1>12. BatchOK' /\ BatchStaysInBudget'
  BY <1>1, <1>3, <1>10, <1>11, BudgetSame DEF BatchOK, LookupsInv, Landed, Moves
<1>13. blocked' \in {"none", "rate_limited", "credential"}
  BY <1>1, <1>2, <1>4 DEF BooksOK
<1>14. QED
  BY <1>1, <1>3, <1>4, <1>6, <1>7, <1>10, <1>12, <1>13, LandedPost DEF BooksOK

---------------------------------------------------------------------------
(***************************************************************************)
(* The reservation of a call.                                              *)
(***************************************************************************)
LEMMA LeastNat ==
    ASSUME NEW S \in SUBSET Nat, S # {}
    PROVE  \E n \in S : \A m \in S : n <= m
<1>1. PICK n \in S : \A m \in S : <<m, n>> \notin OpToRel(<, Nat)
  BY NatLessThanWellFounded, WFMin, Zenon
<1>2. \A m \in S : ~(m < n)
  BY <1>1, Zenon DEF OpToRel
<1>3. QED
  BY <1>2

LEMMA GreatestUpTo ==
    ASSUME NEW b \in Nat, NEW S \in SUBSET (1..b), S # {}
    PROVE  \E n \in S : \A m \in S : m <= n
<1> DEFINE T == {b - n : n \in S}
<1>1. T \in SUBSET Nat /\ T # {}
  <2>1. \A n \in S : n \in 1..b
    OBVIOUS
  <2>2. T \subseteq Nat
    BY <2>1
  <2>3. PICK n \in S : TRUE
    OBVIOUS
  <2>4. b - n \in T
    OBVIOUS
  <2>5. QED
    BY <2>2, <2>4
<1>2. PICK t \in T : \A u \in T : t <= u
  BY <1>1, LeastNat
<1>3. PICK n \in S : t = b - n
  BY <1>2
<1>4. ASSUME NEW m \in S
      PROVE  m <= n
  <2>1. t <= b - m
    BY <1>2
  <2>2. QED
    BY <1>3, <2>1
<1>5. QED
  BY <1>4

LEMMA PriorIsNewest ==
    ASSUME BooksOK, NEW r
    PROVE  /\ Prior(r) \in Nat
           /\ Rows(r) # {} => /\ Prior(r) \in Rows(r)
                              /\ \A j \in Rows(r) : j <= Prior(r)
<1>1. Rows(r) \in SUBSET (1..Len(attempts)) /\ Len(attempts) \in Nat
  BY DEF Rows, BooksOK
<1>2. CASE Rows(r) # {}
  <2>1. \E i \in Rows(r) : \A j \in Rows(r) : j <= i
    BY <1>1, <1>2, GreatestUpTo
  <2>2. Prior(r) \in Rows(r) /\ \A j \in Rows(r) : j <= Prior(r)
    BY <1>2, <2>1 DEF Prior
  <2>3. QED
    BY <1>1, <2>2
<1>3. QED
  BY <1>2 DEF Prior

LEMMA NewRowIsRow ==
    ASSUME LookupsInv, NEW w \in Worker, at[w] \in Posting
    PROVE  /\ RequestOf(w) \in Request /\ NewRow(w) \in Row
           /\ NewRow(w).req = RequestOf(w) /\ NewRow(w).month = month
           /\ NewRow(w).state = "in_flight" /\ ~NewRow(w).sent
           /\ NewRow(w).asked = Pending(RequestOf(w))
<1> DEFINE r == RequestOf(w)
<1>1. BooksOK /\ LocalOK /\ PlaceOf(w)
  BY DEF LookupsInv, LookupsTypeOK, PlaceInv
<1>2. r \in Request
  BY <1>1 DEF RequestOf, Request, LocalOK, PlaceOf, Kind
<1>3. Number(w) \in Nat
  <2>1. CASE Pending(r) \/ PriorState(r) = "rate_limited"
    <3>1. Prior(r) # 0
      BY <2>1 DEF Pending, PriorState, Unsettled
    <3>2. Prior(r) \in Rows(r)
      BY <1>1, <3>1, PriorIsNewest DEF Prior
    <3>3. attempts[Prior(r)] \in Row
      BY <1>1, <3>2, RowFields DEF Rows, BooksOK
    <3>4. attempts[Prior(r)].no \in Nat
      BY <3>3 DEF Row
    <3>5. QED
      BY <2>1, <3>4 DEF Number
  <2>2. CASE ~(Pending(r) \/ PriorState(r) = "rate_limited")
    BY <2>2 DEF Number
  <2>3. QED
    BY <2>1, <2>2
<1>4. month \in Month /\ Pending(r) \in BOOLEAN
  BY LimitHolds DEF Pending
<1>5. [req |-> r, month |-> month, state |-> "in_flight", no |-> Number(w),
       asked |-> Pending(r), sent |-> FALSE] \in Row
  BY <1>2, <1>3, <1>4 DEF Row, CallState
<1>6. QED
  BY <1>2, <1>5 DEF NewRow

\* The rows after a reservation: the old ones, one of them perhaps taken for
\* interrupted, and the new one.
RowAdded(w, n) ==
    /\ attempts' \in Seq(Row) /\ Len(attempts') = n + 1
    /\ \A i \in 1..n :
         /\ attempts'[i].req = attempts[i].req
         /\ attempts'[i].month = attempts[i].month
         /\ attempts'[i].asked = attempts[i].asked
         /\ attempts'[i].sent = attempts[i].sent
         /\ \/ attempts'[i].state = attempts[i].state
            \/ attempts[i].state = "in_flight"
               /\ attempts'[i].state = "indeterminate"
    /\ attempts'[n + 1] = NewRow(w)

LEMMA CallAdds ==
    ASSUME LookupsInv, NEW w \in Worker, ReserveCall(w)
    PROVE  RowAdded(w, Len(attempts)) /\ Len(attempts) \in Nat
<1> DEFINE rows == Interrupted(RequestOf(w))
<1>1. BooksOK /\ NewRow(w) \in Row /\ Len(attempts) \in Nat
  BY NewRowIsRow DEF LookupsInv, LookupsTypeOK, BooksOK, ReserveCall, Posting
<1>2. /\ rows \in Seq(Row) /\ Len(rows) = Len(attempts)
      /\ \A i \in 1..Len(attempts) :
           /\ rows[i].req = attempts[i].req
           /\ rows[i].month = attempts[i].month
           /\ rows[i].asked = attempts[i].asked
           /\ rows[i].sent = attempts[i].sent
           /\ \/ rows[i].state = attempts[i].state
              \/ /\ attempts[i].state = "in_flight"
                 /\ rows[i].state = "indeterminate"
  BY <1>1, InterruptedRows
<1>3. attempts' = Append(rows, NewRow(w))
  BY DEF ReserveCall
<1> HIDE DEF rows
<1>4. /\ attempts' \in Seq(Row) /\ Len(attempts') = Len(attempts) + 1
      /\ \A i \in 1..Len(attempts) : attempts'[i] = rows[i]
      /\ attempts'[Len(attempts) + 1] = NewRow(w)
  BY <1>1, <1>2, <1>3
<1>5. QED
  BY <1>1, <1>2, <1>4 DEF RowAdded

LEMMA AddedShows ==
    ASSUME BooksOK, NEW w, RowAdded(w, Len(attempts))
    PROVE  Shown \subseteq Shown'
<1>1. SUFFICES ASSUME NEW r \in Request, NEW i \in DOMAIN attempts,
                      attempts[i].req = r, attempts[i].sent,
                      attempts[i].state \in {"completed", "indeterminate"}
               PROVE  \E j \in DOMAIN attempts' :
                        /\ attempts'[j].req = r /\ attempts'[j].sent
                        /\ attempts'[j].state \in {"completed", "indeterminate"}
  BY DEF Shown
<1>2. i \in 1..Len(attempts) /\ i \in DOMAIN attempts'
  BY <1>1 DEF RowAdded, BooksOK
<1>3. QED
  BY <1>1, <1>2 DEF RowAdded

\* Of two neighbours the older is settled, or the newer was asked for: the
\* reservation looked at the newest row of the request in this month.
LEMMA AddedOnce ==
    ASSUME LookupsInv, NEW w \in Worker, ReserveCall(w)
    PROVE  CallsOnce'
<1> DEFINE n == Len(attempts)
           r == RequestOf(w)
<1>1. BooksOK /\ CallsOnce /\ RowAdded(w, n) /\ n \in Nat
  BY CallAdds DEF LookupsInv, LookupsTypeOK
<1>2. DOMAIN attempts = 1..n /\ DOMAIN attempts' = 1..(n + 1)
  BY <1>1 DEF BooksOK, RowAdded
<1>3. SUFFICES ASSUME NEW i \in 1..(n + 1), NEW j \in 1..(n + 1),
                      i < j, attempts'[i].req = attempts'[j].req,
                      attempts'[i].month = attempts'[j].month,
                      ~attempts'[j].asked,
                      \A k \in i + 1..j - 1 : attempts'[k].req # attempts'[i].req
               PROVE  attempts'[i].state \notin Unsettled
  BY <1>2 DEF CallsOnce, Unsettled
<1>4. i \in 1..n
  BY <1>1, <1>3
<1>5. attempts[i].state \notin Unsettled
  <2>1. CASE j \in 1..n
    <3>1. \A k \in i + 1..j - 1 : k \in 1..n
      BY <1>1, <2>1
    <3>2. \A k \in 1..n :
             /\ attempts'[k].req = attempts[k].req
             /\ attempts'[k].month = attempts[k].month
             /\ attempts'[k].asked = attempts[k].asked
      BY <1>1 DEF RowAdded
    <3>3. /\ i \in DOMAIN attempts /\ j \in DOMAIN attempts /\ i < j
          /\ attempts[i].req = attempts[j].req
          /\ attempts[i].month = attempts[j].month /\ ~attempts[j].asked
      BY <1>2, <1>3, <1>4, <2>1, <3>2
    <3>4. \A k \in i + 1..j - 1 : attempts[k].req # attempts[i].req
      BY <1>3, <1>4, <3>1, <3>2
    <3>5. QED
      BY <1>1, <3>3, <3>4 DEF CallsOnce
  <2>2. CASE j = n + 1
    <3>1. attempts'[j].req = r /\ attempts'[j].month = month
          /\ attempts'[j].asked = Pending(r)
      BY <1>1, <2>2, NewRowIsRow DEF RowAdded, ReserveCall, Posting
    <3>2. i \in Rows(r)
      BY <1>1, <1>2, <1>3, <1>4, <3>1 DEF Rows, RowAdded
    <3>3. Prior(r) \in Rows(r) /\ i <= Prior(r) /\ Prior(r) \in 1..n
      BY <1>1, <1>2, <3>2, PriorIsNewest DEF Rows
    <3>4. attempts'[Prior(r)].req = r
      BY <1>1, <3>3 DEF RowAdded, Rows
    <3>5. Prior(r) = i
      BY <1>1, <1>3, <1>4, <2>2, <3>1, <3>3, <3>4
    <3>6. ~Pending(r) /\ Prior(r) # 0
      BY <1>3, <3>1, <3>3
    <3>7. QED
      BY <3>5, <3>6 DEF Pending, PriorState
  <2>3. QED
    BY <1>1, <2>1, <2>2
<1>6. QED
  BY <1>1, <1>4, <1>5 DEF RowAdded, Unsettled

LEMMA AddedMeter ==
    ASSUME LookupsInv, NEW w \in Worker, ReserveCall(w)
    PROVE  /\ MeterInv' /\ call_limit' \in [Month -> Nat]
           /\ reserved' \in [Month -> Nat]
<1> DEFINE n == Len(attempts)
<1>1. BooksOK /\ MeterInv /\ RowAdded(w, n) /\ n \in Nat
  BY CallAdds DEF LookupsInv, LookupsTypeOK
<1>2. DOMAIN attempts = 1..n /\ DOMAIN attempts' = 1..(n + 1)
  BY <1>1 DEF BooksOK, RowAdded
<1>3. attempts'[n + 1].month = month
  BY <1>1, NewRowIsRow DEF RowAdded, ReserveCall, Posting
<1>4. /\ call_limit' = [call_limit EXCEPT ![month] = NewLimit]
      /\ reserved' = [reserved EXCEPT ![month] = reserved[month] + 1]
      /\ ~(reserved[month] >= NewLimit)
  BY DEF ReserveCall, Exhausted
<1>5. call_limit' \in [Month -> Nat] /\ reserved' \in [Month -> Nat]
  BY <1>1, <1>4, LimitHolds DEF BooksOK
<1>6. ASSUME NEW m \in Month
      PROVE  /\ reserved'[m] = Cardinality(Booked(m)')
             /\ reserved'[m] <= call_limit'[m] /\ call_limit'[m] <= MonthLimit
  <2>1. IsFiniteSet(Booked(m))
    <3>1. Booked(m) \subseteq 1..n /\ IsFiniteSet(1..n)
      BY <1>1, <1>2, FS_Interval DEF Booked
    <3>2. QED
      BY <3>1, FS_Subset
  <2>2. CASE m = month
    <3>1. Booked(m)' = Booked(m) \cup {n + 1} /\ n + 1 \notin Booked(m)
      BY <1>1, <1>2, <1>3, <2>2 DEF Booked, RowAdded
    <3>2. Cardinality(Booked(m)') = Cardinality(Booked(m)) + 1
      BY <2>1, <3>1, FS_AddElement
    <3>3. QED
      BY <1>1, <1>4, <2>2, <3>2, LimitHolds DEF MeterInv, BooksOK
  <2>3. CASE m # month
    <3>1. Booked(m)' = Booked(m)
      BY <1>1, <1>2, <1>3, <2>3 DEF Booked, RowAdded
    <3>2. QED
      BY <1>1, <1>4, <2>3, <3>1 DEF MeterInv, BooksOK
  <2>4. QED
    BY <2>2, <2>3
<1>7. MeterInv'
  BY <1>6 DEF MeterInv, Month
<1>8. QED
  BY <1>5, <1>7

LEMMA ReserveKeeps ==
    ASSUME LookupsInv, NEW w \in Worker, ReserveCall(w)
    PROVE  LookupsInv'
<1> DEFINE n == Len(attempts)
<1>1. BooksOK /\ LocalOK /\ FoundOK /\ BatchOK /\ PlaceInv /\ GateInv /\ CallInv
      /\ ProgressInv /\ AbsenceInv /\ BatchStaysInBudget
  BY DEF LookupsInv, LookupsTypeOK
<1>2. /\ at[w] = "open" /\ GoTo(w, "slot") /\ call' = Set(call, w, n + 1)
      /\ UNCHANGED <<mode, target, key, before, mine, want, person, down, word,
                      end>>
      /\ UNCHANGED <<used, rung, batched>>
      /\ UNCHANGED <<day, configured, blocked, paid, asked, contact, profile,
                      fresh, lookups, crashes>>
  BY DEF ReserveCall, batch, Metered, found
<1>3. RowAdded(w, n) /\ n \in Nat /\ Shown \subseteq Shown' /\ CallsOnce'
  BY <1>1, CallAdds, AddedShows, AddedOnce
<1>4. at[w] \in Posting /\ "slot" \in Posting
  BY <1>2 DEF Posting
<1>5. call' \in [Worker -> Nat] /\ call'[w] = n + 1
      /\ \A v \in Worker \ {w} : call'[v] = call[v]
  BY <1>1, <1>2, <1>3 DEF LocalOK, Set
<1>6. /\ Moves(w) /\ at'[w] = "slot" /\ PlaceOf(w)' /\ Holding(w)'
      /\ Inside(w)' => Inside(w) /\ key'[w] = key[w] /\ mine'[w] = mine[w]
  BY <1>2, <1>4, <1>5, PostMoves
<1>7. PlaceInv' /\ GateInv'
  BY <1>1, <1>2, <1>6, MovesPlace, MovesGate
<1>8. ProgressInv'
  <2>1. Progress(w)'
    BY <1>2, <1>3, <1>4, <1>6, PostProgress
  <2>2. QED
    BY <1>1, <1>2, <1>3, <1>6, <2>1, MovesProgress
<1>9. CallInv'
  <2>1. DOMAIN attempts = 1..n /\ DOMAIN attempts' = 1..(n + 1)
    BY <1>1, <1>3 DEF BooksOK, RowAdded
  <2>2. Flying(w)'
    <3>1. attempts'[n + 1] = NewRow(w) /\ NewRow(w).req = RequestOf(w)
          /\ NewRow(w).state = "in_flight"
      BY <1>3, <1>4, NewRowIsRow DEF RowAdded
    <3>2. RequestOf(w)' = RequestOf(w)
      BY <1>2 DEF RequestOf
    <3>3. QED
      BY <1>3, <1>5, <1>6, <2>1, <3>1, <3>2 DEF Flying, Unsettled
  <2>3. ASSUME NEW v \in Worker \ {w}, at'[v] \in Flight
        PROVE  /\ at[v] \in Flight /\ at'[v] = at[v] /\ call'[v] = call[v]
               /\ RequestOf(v)' = RequestOf(v) /\ call[v] \in 1..n
               /\ attempts[call[v]].req = RequestOf(v)
               /\ attempts[call[v]].state \in Unsettled
               /\ at[v] = "answer" => attempts[call[v]].sent
    <3>1. /\ at[v] \in Flight /\ at'[v] = at[v] /\ call'[v] = call[v]
          /\ RequestOf(v)' = RequestOf(v)
      BY <1>6, <2>3 DEF Moves, OthersStay, RequestOf
    <3>2. QED
      BY <1>1, <2>1, <3>1 DEF CallInv, Flying
  <2>4. ASSUME NEW v \in Worker \ {w}
        PROVE  Flying(v)'
    <3>1. CASE at'[v] \in Flight
      BY <1>3, <2>1, <2>3, <3>1 DEF Flying, RowAdded, Unsettled
    <3>2. QED
      BY <3>1 DEF Flying
  <2>5. OwnCall'
    <3>1. SUFFICES ASSUME NEW u \in Worker, NEW v \in Worker, u # v,
                          at'[u] \in Flight, at'[v] \in Flight
                   PROVE  call'[u] # call'[v]
      BY DEF OwnCall
    <3>2. CASE u = w
      BY <1>3, <1>5, <2>3, <3>1, <3>2
    <3>3. CASE v = w
      BY <1>3, <1>5, <2>3, <3>1, <3>3
    <3>4. CASE u # w /\ v # w
      BY <1>1, <2>3, <3>1, <3>4 DEF CallInv, OwnCall
    <3>5. QED
      BY <3>2, <3>3, <3>4
  <2>6. QED
    BY <2>2, <2>4, <2>5 DEF CallInv
<1>10. MeterInv' /\ BooksOK'
  BY <1>1, <1>2, <1>3, AddedMeter DEF BooksOK, RowAdded
<1>11. BatchOK' /\ BatchStaysInBudget'
  <2>1. w \in Open' => w \in Open
    BY <1>2 DEF Open
  <2>2. QED
    BY <1>1, <1>2, <1>6, <2>1, BudgetSame DEF BatchOK, Moves
<1>12. AbsenceInv' /\ FoundOK'
  BY <1>1, <1>2, <1>3, AbsenceKept DEF FoundOK
<1>13. LookupsTypeOK'
  BY <1>2, <1>6, <1>10, <1>11, <1>12 DEF LookupsInv, LookupsTypeOK, Moves
<1>14. QED
  BY <1>3, <1>7, <1>8, <1>9, <1>10, <1>11, <1>12, <1>13 DEF LookupsInv

---------------------------------------------------------------------------
(***************************************************************************)
(* Where a lookup begins.                                                  *)
(***************************************************************************)
\* A step of the lookup that leaves the account ledger and the batch's
\* counters alone.
LEMMA QuietKeeps ==
    ASSUME LookupsInv, NEW w \in Worker, Moves(w), PlaceOf(w)', GateInv',
           at'[w] \notin {"open"} \cup Flight, Progress(w)',
           UNCHANGED <<day, account, found, used, batched, crashes>>,
           paid' \in [Key -> Seq(PaidState)], asked' \subseteq Key \X Nat,
           rung' \subseteq Target, lookups' \in 0..MaxLookups
    PROVE  LookupsInv'
<1>1. BooksOK /\ FoundOK /\ BatchOK /\ MeterInv /\ AbsenceInv /\ CallInv
      /\ BatchStaysInBudget
  BY DEF LookupsInv, LookupsTypeOK
<1>2. UNCHANGED <<configured, call_limit, reserved, attempts, blocked, contact,
                  profile, fresh>>
  BY DEF account, found
<1>3. RowsMoved(w) /\ Shown' = Shown /\ MeterInv'
  BY <1>1, <1>2, UnmovedMoves, MovedMeter DEF Shown
<1>4. BooksOK' /\ FoundOK' /\ BatchOK' /\ ProfilesStay /\ AbsenceInv'
  BY <1>1, <1>2, <1>3, AbsenceKept DEF BooksOK, FoundOK, BatchOK, ProfilesStay
<1>5. Flying(w)' /\ w \notin Open'
  BY DEF Flying, Open, Flight
<1>6. BatchStaysInBudget'
  BY <1>1, <1>5, BudgetSame DEF Moves
<1>7. crashes' \in 0..MaxCrashes
  BY DEF LookupsInv, LookupsTypeOK
<1>8. QED
  BY <1>3, <1>4, <1>5, <1>6, <1>7, WalkKeeps

LEMMA BeginKeeps ==
    ASSUME LookupsInv, NEW w \in Worker, NEW m \in {"batch", "single", "prep"},
           NEW l \in Target, NEW k \in Key, NEW retry \in BOOLEAN,
           Begin(w, m, l, k, retry), rung' \subseteq Target,
           m # "prep" => k = LegacyKey(l) /\ ~retry,
           m = "prep" => k[2] # 0
    PROVE  LookupsInv'
<1>1. LocalOK /\ PlaceInv /\ GateInv /\ BooksOK
  BY DEF LookupsInv, LookupsTypeOK
<1>2. /\ GoTo(w, "prior") /\ mode' = Set(mode, w, m) /\ target' = Set(target, w, l)
      /\ key' = Set(key, w, k) /\ word' = Set(word, w, retry)
      /\ lookups < MaxLookups /\ lookups' = lookups + 1
      /\ UNCHANGED <<day, account, paid, asked, found, before, mine, want, call,
                     person, down, end, used, batched, crashes>>
  BY DEF Begin
<1>3. Moves(w) /\ at'[w] = "prior" /\ mode'[w] = m /\ target'[w] = l
      /\ key'[w] = k /\ word'[w] = retry
  BY <1>1, <1>2 DEF Moves, LocalOK, PlaceInv, OthersStay, GoTo, Set, Place, Gate
<1>4. PlaceOf(w)'
  <2>1. LegacyKey(target[w])' = LegacyKey(l)
    BY <1>3 DEF LegacyKey
  <2>2. QED
    BY <1>3, <2>1 DEF PlaceOf, Posting, Gate
<1>5. ~Inside(w)' /\ Holding(w)'
  BY <1>3 DEF Inside, Gate, Holding
<1>6. GateInv'
  BY <1>1, <1>2, <1>3, <1>5, MovesGate
<1>7. Progress(w)'
  BY <1>3 DEF Progress, Asks, Ready, AtSite, SitePlaces, Posting
<1>8. lookups' \in 0..MaxLookups
  BY <1>2, LookupAssumption DEF LookupsInv, LookupsTypeOK
<1>9. paid' \in [Key -> Seq(PaidState)] /\ asked' \subseteq Key \X Nat
  BY <1>1, <1>2 DEF BooksOK
<1>10. at'[w] \notin {"open"} \cup Flight
  BY <1>3 DEF Flight
<1>11. QED
  BY <1>2, <1>3, <1>4, <1>6, <1>7, <1>8, <1>9, <1>10, QuietKeeps

LEMMA EnrichKeeps ==
    ASSUME LookupsInv, NEW w \in Worker,
           EnrichOne(w) \/ EnrichLead(w) \/ RefreshContact(w)
    PROVE  LookupsInv'
<1>1. rung \subseteq Target /\ day \in 1..MaxDay /\ MaxDay \in Nat
  BY LookupAssumption DEF LookupsInv, LookupsTypeOK, BatchOK, BooksOK, Day
<1>2. \A l \in Target : /\ LegacyKey(l) \in Key /\ RichKey(l, day) \in Key
                        /\ RichKey(l, day)[2] # 0
  BY <1>1 DEF LegacyKey, RichKey, Key
<1>3. CASE EnrichOne(w)
  BY <1>1, <1>2, <1>3, BeginKeeps DEF EnrichOne
<1>4. CASE EnrichLead(w)
  BY <1>1, <1>2, <1>4, BeginKeeps DEF EnrichLead
<1>5. CASE RefreshContact(w)
  BY <1>1, <1>2, <1>5, BeginKeeps DEF RefreshContact
<1>6. QED
  BY <1>3, <1>4, <1>5

LEMMA WebsiteKeeps ==
    ASSUME LookupsInv, NEW w \in Worker, RefreshWebsite(w)
    PROVE  LookupsInv'
<1>1. LocalOK /\ PlaceInv /\ GateInv /\ BooksOK /\ rung \subseteq Target
  BY DEF LookupsInv, LookupsTypeOK, BatchOK
<1>2. PICK l \in Target, retry \in BOOLEAN :
         /\ target' = Set(target, w, l) /\ word' = Set(word, w, retry)
         /\ key' = Set(key, w, LegacyKey(l))
  BY DEF RefreshWebsite
<1>3. /\ GoTo(w, "profile") /\ mode' = Set(mode, w, "site")
      /\ lookups < MaxLookups /\ lookups' = lookups + 1
      /\ UNCHANGED <<day, account, paid, asked, found, used, rung, batched,
                     before, mine, want, call, person, down, end, crashes>>
  BY DEF RefreshWebsite, batch
<1>4. LegacyKey(l) \in Key
  BY LookupAssumption DEF LegacyKey, Key
<1>5. Moves(w) /\ at'[w] = "profile" /\ mode'[w] = "site"
  BY <1>1, <1>2, <1>3, <1>4
     DEF Moves, LocalOK, PlaceInv, OthersStay, GoTo, Set, Place, Saves
<1>6. PlaceOf(w)' /\ Progress(w)'
  BY <1>5 DEF PlaceOf, Progress, Posting, Gate
<1>7. ~Inside(w)' /\ Holding(w)'
  BY <1>5 DEF Inside, Holding
<1>8. GateInv'
  BY <1>1, <1>3, <1>5, <1>7, MovesGate
<1>9. lookups' \in 0..MaxLookups
  BY <1>3, LookupAssumption DEF LookupsInv, LookupsTypeOK
<1>10. paid' \in [Key -> Seq(PaidState)] /\ asked' \subseteq Key \X Nat
       /\ rung' \subseteq Target
  BY <1>1, <1>3 DEF BooksOK
<1>11. at'[w] \notin {"open"} \cup Flight
  BY <1>5 DEF Flight
<1>12. QED
  BY <1>3, <1>5, <1>6, <1>8, <1>9, <1>10, <1>11, QuietKeeps

---------------------------------------------------------------------------
(***************************************************************************)
(* The gate.                                                               *)
(***************************************************************************)
\* Where nothing is known yet.
LEMMA GateProgress ==
    ASSUME NEW w \in Worker, at'[w] \in Gate \cup {"idle"}
    PROVE  Progress(w)' /\ at'[w] \notin {"open"} \cup Flight
BY DEF Progress, Asks, Ready, AtSite, SitePlaces, Posting, Gate, Flight

LEMMA ReturnKeeps ==
    ASSUME LookupsInv, NEW w \in Worker, Return(w), mode[w] # "none",
           UNCHANGED <<day, account, found, batch, lookups, crashes>>, GateInv',
           paid' \in [Key -> Seq(PaidState)], asked' \subseteq Key \X Nat
    PROVE  LookupsInv'
<1>1. LocalOK /\ PlaceInv /\ rung \subseteq Target /\ lookups \in 0..MaxLookups
  BY DEF LookupsInv, LookupsTypeOK, BatchOK
<1>2. Landed(w) /\ at'[w] = "idle"
  BY <1>1, ReturnLands DEF PlaceInv
<1>3. PlaceOf(w)' /\ Moves(w)
  BY <1>1, <1>2, LandedPlace DEF Landed
<1>4. Progress(w)' /\ at'[w] \notin {"open"} \cup Flight
  BY <1>2, GateProgress
<1>5. UNCHANGED <<used, rung, batched>>
  BY DEF batch
<1>6. QED
  BY <1>1, <1>3, <1>4, <1>5, QuietKeeps

LEMMA ReturnGate ==
    ASSUME LookupsInv, NEW w \in Worker, Return(w), UNCHANGED <<paid, asked>>
    PROVE  GateInv'
<1>1. LocalOK /\ PlaceInv /\ GateInv
  BY DEF LookupsInv, LookupsTypeOK
<1>2. Landed(w) /\ at'[w] = "idle" /\ mode'[w] = "none"
  BY <1>1, ReturnLands DEF PlaceInv
<1>3. ~Inside(w)' /\ Holding(w)' /\ Moves(w)
  BY <1>2 DEF Inside, Holding, Landed
<1>4. QED
  BY <1>1, <1>3, MovesGate

LEMMA PriorKeeps ==
    ASSUME LookupsInv, NEW w \in Worker, ReadPrior(w)
    PROVE  LookupsInv'
<1>1. /\ LocalOK /\ PlaceInv /\ GateInv /\ BooksOK /\ rung \subseteq Target
      /\ lookups \in 0..MaxLookups /\ at[w] = "prior" /\ PlaceOf(w)
  BY DEF LookupsInv, LookupsTypeOK, BatchOK, ReadPrior, PlaceInv
<1>2. UNCHANGED <<day, account, paid, asked, found, batch, lookups, crashes>>
  BY DEF ReadPrior
<1>3. paid \in [Key -> Seq(PaidState)] /\ asked \subseteq Key \X Nat
      /\ mode[w] # "none" /\ key[w] \in Key
  BY <1>1 DEF BooksOK, PlaceOf, LocalOK
<1>4. CASE Return(w)
  BY <1>2, <1>3, <1>4, ReturnGate, ReturnKeeps
<1>5. CASE /\ ~Refused(w)
           /\ before' = Set(before, w, Len(paid[key[w]]))
           /\ GoTo(w, IF Former(key[w]) = "in_flight" THEN "declare"
                       ELSE "insert")
           /\ UNCHANGED <<mode, target, key, mine, want, call, person, down,
                           word, end>>
  <2> DEFINE k == key[w]
  <2>1. paid[k] \in Seq(PaidState) /\ Len(paid[k]) \in Nat
        /\ DOMAIN paid[k] = 1..Len(paid[k])
    BY <1>3
  <2>2. Moves(w) /\ at'[w] = (IF Former(k) = "in_flight" THEN "declare" ELSE "insert")
        /\ before'[w] = Len(paid[k])
    BY <1>1, <1>5, <2>1 DEF Moves, LocalOK, PlaceInv, OthersStay, GoTo, Set,
       Place, Gate
  <2>3. PlaceOf(w)'
    <3>1. at'[w] \in Gate /\ at[w] \in Gate
      BY <1>1, <2>2 DEF Gate
    <3>2. UNCHANGED <<mode, target, key, word>>
      BY <1>5
    <3>3. QED
      BY <1>1, <3>1, <3>2 DEF PlaceOf, Gate, Posting
  <2>4. paid[k] # <<>> => Len(paid[k]) \in DOMAIN paid[k]
                          /\ Former(k) = paid[k][Len(paid[k])]
                          /\ Former(k) \in PaidState
    BY <2>1 DEF Former
  <2>5. ~Inside(w)' /\ Holding(w)'
    <3>1. ~Inside(w)'
      BY <2>2 DEF Inside, Gate
    <3>2. UNCHANGED <<key, word, paid>>
      BY <1>2, <1>5
    <3>3. ASSUME at'[w] = "declare"
          PROVE  word[w] /\ Len(paid[k]) \in DOMAIN paid[k]
      BY <1>5, <2>2, <2>4, <3>3 DEF Former, Refused, Unsettled
    <3>4. ASSUME at'[w] = "insert", Len(paid[k]) > 0, ~word[w]
          PROVE  paid[k][Len(paid[k])] = "failed"
      <4>1. paid[k] # <<>>
        BY <3>4
      <4>2. QED
        BY <1>5, <2>4, <3>4, <4>1 DEF Refused, Unsettled, PaidState
    <3>5. QED
      BY <2>1, <2>2, <3>1, <3>2, <3>3, <3>4 DEF Holding
  <2>6. GateInv'
    BY <1>1, <1>2, <2>2, <2>5, MovesGate
  <2>7. Progress(w)' /\ at'[w] \notin {"open"} \cup Flight
    BY <2>2, GateProgress DEF Gate
  <2>8. UNCHANGED <<used, rung, batched>>
    BY <1>2 DEF batch
  <2>9. QED
    BY <1>1, <1>2, <1>3, <2>2, <2>3, <2>6, <2>7, <2>8, QuietKeeps
<1>6. QED
  BY <1>4, <1>5 DEF ReadPrior

LEMMA PaidEdit ==
    ASSUME NEW f \in [Key -> Seq(PaidState)], NEW k \in Key,
           NEW n \in DOMAIN f[k], NEW v \in PaidState,
           NEW g, g = [f EXCEPT ![k][n] = v]
    PROVE  /\ g \in [Key -> Seq(PaidState)]
           /\ \A q \in Key : /\ Len(g[q]) = Len(f[q]) /\ DOMAIN g[q] = DOMAIN f[q]
                            /\ \A i \in DOMAIN f[q] :
                                 g[q][i] = IF q = k /\ i = n THEN v ELSE f[q][i]
<1>1. f[k] \in Seq(PaidState) /\ n \in 1..Len(f[k])
  OBVIOUS
<1>2. [f[k] EXCEPT ![n] = v] \in Seq(PaidState)
      /\ Len([f[k] EXCEPT ![n] = v]) = Len(f[k])
  BY <1>1
<1>3. g[k] = [f[k] EXCEPT ![n] = v] /\ \A q \in Key \ {k} : g[q] = f[q]
  OBVIOUS
<1>4. g \in [Key -> Seq(PaidState)]
  BY <1>2
<1>5. QED
  BY <1>1, <1>2, <1>3, <1>4

\* Only the refresh of the preparation run has an operator's word, and its
\* attempts never end as provably unspent.
LEMMA DeclareKeeps ==
    ASSUME LookupsInv, NEW w \in Worker, Declare(w)
    PROVE  LookupsInv'
<1> DEFINE k == key[w]
           b == before[w]
<1>1. /\ LocalOK /\ PlaceInv /\ GateInv /\ BooksOK /\ rung \subseteq Target
      /\ lookups \in 0..MaxLookups /\ at[w] = "declare" /\ PlaceOf(w)
      /\ Holding(w)
  BY DEF LookupsInv, LookupsTypeOK, BatchOK, Declare, PlaceInv, GateInv
<1>2. /\ UNCHANGED <<day, account, asked, found, batch, local, lookups, crashes>>
      /\ paid' = [paid EXCEPT ![k][b] = "indeterminate"] /\ GoTo(w, "insert")
  BY DEF Declare
<1>3. word[w] /\ b \in DOMAIN paid[k] /\ k \in Key /\ k[2] # 0
      /\ paid \in [Key -> Seq(PaidState)]
  BY <1>1 DEF Holding, PlaceOf, Gate, LocalOK, BooksOK
<1>4. /\ paid' \in [Key -> Seq(PaidState)]
      /\ \A q \in Key : /\ Len(paid'[q]) = Len(paid[q])
                       /\ DOMAIN paid'[q] = DOMAIN paid[q]
                       /\ \A i \in DOMAIN paid[q] :
                            paid'[q][i] = IF q = k /\ i = b THEN "indeterminate"
                                          ELSE paid[q][i]
  BY <1>2, <1>3, PaidEdit DEF PaidState
<1>5. Moves(w) /\ at'[w] = "insert"
      /\ UNCHANGED <<mode, target, key, before, mine, want, call, down, word>>
  BY <1>1, <1>2 DEF Moves, LocalOK, PlaceInv, OthersStay, GoTo, Set, Place, Gate,
     local
<1>6. \A v \in Worker : Inside(v)' <=> Inside(v)
  <2>1. \A v \in Worker \ {w} : at'[v] = at[v]
    BY <1>5 DEF Moves, OthersStay
  <2>2. QED
    BY <1>1, <1>5, <2>1 DEF Inside, Gate
<1>7. ASSUME NEW v \in Worker
      PROVE  Holding(v)'
  <2>1. key[v] \in Key /\ Holding(v) /\ (v # w => at'[v] = at[v])
    BY <1>1, <1>5 DEF LocalOK, GateInv, Moves, OthersStay
  <2>2. CASE v = w
    BY <1>1, <1>3, <1>4, <1>5, <1>6, <2>1, <2>2 DEF Holding, Inside, Gate
  <2>3. CASE v # w
    <3>1. ASSUME at[v] = "insert", before[v] > 0, ~word[v]
          PROVE  paid'[key[v]][before[v]] = "failed"
      <4>1. paid[key[v]][before[v]] = "failed" /\ before[v] \in DOMAIN paid[key[v]]
        BY <1>1, <1>3, <2>1, <3>1 DEF Holding, LocalOK
      <4>2. key[v] # k
        BY <1>1, <1>3, <4>1 DEF GateInv, RichRows
      <4>3. QED
        BY <1>4, <2>1, <4>1, <4>2
    <3>2. ASSUME Inside(v)
          PROVE  /\ mine[v] \in DOMAIN paid'[key[v]]
                 /\ paid'[key[v]][mine[v]] \in Unsettled
                 /\ key[v][2] = 0 => paid'[key[v]][mine[v]] = "in_flight"
      BY <1>3, <1>4, <2>1, <3>2 DEF Holding, Unsettled
    <3>3. QED
      BY <1>4, <1>5, <1>6, <2>1, <2>3, <3>1, <3>2 DEF Holding
  <2>4. QED
    BY <2>2, <2>3
<1>8. OwnRow'
  BY <1>1, <1>5, <1>6 DEF GateInv, OwnRow
<1>9. RichRows'
  <2>1. asked' = asked
    BY <1>2
  <2>2. QED
    BY <1>1, <1>4, <2>1 DEF GateInv, RichRows
<1>10. LookupsOnce'
  <2>1. SUFFICES ASSUME NEW q \in Key, NEW n \in DOMAIN paid'[q], n > 1,
                        <<q, n>> \notin asked
                 PROVE  paid'[q][n - 1] = "failed"
    BY <1>2 DEF LookupsOnce
  <2>2. n \in DOMAIN paid[q] /\ paid[q] \in Seq(PaidState)
    BY <1>3, <1>4
  <2>3. q # k
    BY <1>1, <1>3, <2>1, <2>2 DEF GateInv, RichRows
  <2>4. paid[q][n - 1] = "failed" /\ n - 1 \in DOMAIN paid[q]
    BY <1>1, <2>1, <2>2 DEF GateInv, LookupsOnce
  <2>5. QED
    BY <1>4, <2>3, <2>4
<1>11. GateInv'
  BY <1>7, <1>8, <1>9, <1>10 DEF GateInv
<1>12. PlaceOf(w)'
  BY <1>1, <1>5 DEF PlaceOf, Gate, Posting, LegacyKey
<1>13. Progress(w)' /\ at'[w] \notin {"open"} \cup Flight
  BY <1>5, GateProgress DEF Gate
<1>14. UNCHANGED <<used, rung, batched>> /\ asked' \subseteq Key \X Nat
  BY <1>1, <1>2 DEF batch, BooksOK
<1>15. QED
  BY <1>1, <1>2, <1>4, <1>5, <1>11, <1>12, <1>13, <1>14, QuietKeeps

\* The unique insert: whoever gets it in saw the last row as it still is.
LEMMA InsertKeeps ==
    ASSUME LookupsInv, NEW w \in Worker, InsertAttempt(w)
    PROVE  LookupsInv'
<1> DEFINE k == key[w]
           n == Len(paid[k]) + 1
<1>1. /\ LocalOK /\ PlaceInv /\ GateInv /\ BooksOK /\ rung \subseteq Target
      /\ lookups \in 0..MaxLookups /\ at[w] = "insert" /\ PlaceOf(w)
      /\ Holding(w)
  BY DEF LookupsInv, LookupsTypeOK, BatchOK, InsertAttempt, PlaceInv, GateInv
<1>2. UNCHANGED <<day, account, found, batch, lookups, crashes>>
  BY DEF InsertAttempt
<1>3. /\ paid \in [Key -> Seq(PaidState)] /\ asked \subseteq Key \X Nat
      /\ mode[w] # "none" /\ mode[w] # "site" /\ k \in Key
      /\ paid[k] \in Seq(PaidState) /\ n \in Nat /\ n > 0
      /\ before[w] \in Nat
  BY <1>1 DEF BooksOK, PlaceOf, LocalOK, Gate
<1>4. CASE Return(w) /\ UNCHANGED <<paid, asked>>
  BY <1>2, <1>3, <1>4, ReturnGate, ReturnKeeps
<1>5. CASE /\ ~Taken(w)
           /\ paid' = [paid EXCEPT ![k] = Append(@, "in_flight")]
           /\ mine' = Set(mine, w, n)
           /\ asked' = IF word[w] /\ before[w] > 0 /\ Former(k) # "failed"
                       THEN asked \cup {<<k, mine'[w]>>} ELSE asked
           /\ before' = Set(before, w, 0)
           /\ GoTo(w, "claim") /\ want' = Set(want, w, FirstRung(w))
           /\ UNCHANGED <<mode, target, key, call, person, down, word, end>>
  <2>1. Len(paid[k]) = before[w]
    BY <1>5 DEF Taken
  <2>2. /\ paid'[k] = Append(paid[k], "in_flight")
        /\ \A q \in Key \ {k} : paid'[q] = paid[q]
        /\ paid' \in [Key -> Seq(PaidState)]
        /\ Len(paid'[k]) = n /\ DOMAIN paid'[k] = 1..n
        /\ DOMAIN paid[k] = 1..(n - 1)
        /\ paid'[k][n] = "in_flight"
        /\ \A i \in 1..(n - 1) : paid'[k][i] = paid[k][i]
    <3>1. Append(paid[k], "in_flight") \in Seq(PaidState)
      BY <1>3 DEF PaidState
    <3>2. QED
      BY <1>3, <1>5, <3>1
  <2>3. /\ Moves(w) /\ at'[w] = "claim" /\ mine'[w] = n
        /\ want'[w] \in {"angle", "mailpage"}
        /\ UNCHANGED <<mode, target, key, call, person, down, word, end>>
    BY <1>1, <1>3, <1>5 DEF Moves, LocalOK, PlaceInv, OthersStay, GoTo, Set, Place,
       Posting, FirstRung, Kind
  <2>4. asked' \subseteq Key \X Nat /\ asked \subseteq asked'
    BY <1>3, <1>5, <2>3
  <2>5. n > 1 /\ <<k, n>> \notin asked' => paid[k][n - 1] = "failed"
    <3>1. SUFFICES ASSUME n > 1, <<k, n>> \notin asked'
                   PROVE  paid[k][n - 1] = "failed"
      OBVIOUS
    <3>2. Former(k) = paid[k][n - 1] /\ n - 1 = before[w]
      BY <1>3, <2>1, <3>1 DEF Former
    <3>3. CASE word[w]
      BY <1>5, <2>1, <2>3, <3>1, <3>2, <3>3
    <3>4. CASE ~word[w]
      BY <1>1, <2>1, <3>1, <3>2, <3>4 DEF Holding
    <3>5. QED
      BY <3>3, <3>4
  <2>6. ASSUME NEW v \in Worker \ {w}
        PROVE  /\ Inside(v)' <=> Inside(v)
               /\ key'[v] = key[v] /\ mine'[v] = mine[v]
               /\ key[v] \in Key /\ Holding(v) /\ at'[v] = at[v]
               /\ before'[v] = before[v] /\ word'[v] = word[v]
               /\ before[v] \in Nat
    BY <1>1, <2>3 DEF Moves, OthersStay, Inside, GateInv, LocalOK
  <2>7. ASSUME NEW v \in Worker \ {w}
        PROVE  Holding(v)'
    <3>1. /\ DOMAIN paid[key[v]] \subseteq DOMAIN paid'[key[v]]
          /\ Len(paid[key[v]]) <= Len(paid'[key[v]])
          /\ Len(paid[key[v]]) \in Nat /\ Len(paid'[key[v]]) \in Nat
          /\ DOMAIN paid[key[v]] = 1..Len(paid[key[v]])
          /\ \A i \in DOMAIN paid[key[v]] : paid'[key[v]][i] = paid[key[v]][i]
      <4>1. CASE key[v] = k
        <5>1. /\ paid[k] \in Seq(PaidState) /\ paid'[k] \in Seq(PaidState)
              /\ n \in Nat \ {0} /\ Len(paid[k]) = n - 1
          BY <1>3, <2>2
        <5>2. DOMAIN paid[k] \subseteq DOMAIN paid'[k]
          BY <2>2, <5>1
        <5>3. \A i \in DOMAIN paid[k] : paid'[k][i] = paid[k][i]
          BY <2>2
        <5>4. Len(paid'[k]) = n /\ DOMAIN paid[k] = 1..(n - 1)
          BY <2>2
        <5>5. QED
          BY <4>1, <5>1, <5>2, <5>3, <5>4
      <4>2. CASE key[v] # k
        <5>1. paid'[key[v]] = paid[key[v]] /\ paid[key[v]] \in Seq(PaidState)
          BY <1>3, <2>2, <2>6, <4>2
        <5>2. QED
          BY <5>1
      <4>3. QED
        BY <4>1, <4>2
    <3>2. Holding(v) /\ at'[v] = at[v] /\ before'[v] = before[v]
          /\ word'[v] = word[v] /\ key'[v] = key[v] /\ mine'[v] = mine[v]
          /\ Inside(v)' = Inside(v) /\ before[v] \in Nat
      BY <2>6 DEF Inside
    <3>3. at'[v] = "declare" =>
              word'[v] /\ before'[v] \in DOMAIN paid'[key'[v]]
      BY <3>1, <3>2 DEF Holding
    <3>4. at'[v] = "insert" =>
              /\ before'[v] <= Len(paid'[key'[v]])
              /\ before'[v] > 0 /\ ~word'[v] =>
                    paid'[key'[v]][before'[v]] = "failed"
      BY <3>1, <3>2 DEF Holding
    <3>5. Inside(v)' =>
              /\ mine'[v] \in DOMAIN paid'[key'[v]]
              /\ paid'[key'[v]][mine'[v]] \in Unsettled
              /\ key'[v][2] = 0 => paid'[key'[v]][mine'[v]] = "in_flight"
      BY <3>1, <3>2 DEF Holding
    <3>6. QED
      BY <3>3, <3>4, <3>5 DEF Holding
  <2>8. Holding(w)'
    BY <2>2, <2>3 DEF Holding, Unsettled
  <2>9. OwnRow'
    <3>1. \A v \in Worker \ {w} : Inside(v) /\ key[v] = k => mine[v] \in 1..(n - 1)
      BY <2>2, <2>6 DEF Holding
    <3>2. \A v \in Worker \ {w} : Inside(v) /\ key[v] = k => mine[v] # n
      BY <1>3, <3>1
    <3>3. SUFFICES ASSUME NEW u \in Worker, NEW v \in Worker, u # v, Inside(u)',
                          Inside(v)', key'[u] = key'[v]
                   PROVE  mine'[u] # mine'[v]
      BY DEF OwnRow
    <3>4. CASE u # w /\ v # w
      BY <1>1, <2>6, <3>3, <3>4 DEF GateInv, OwnRow
    <3>5. CASE u = w
      BY <2>3, <2>6, <3>2, <3>3, <3>5
    <3>6. CASE v = w
      BY <2>3, <2>6, <3>2, <3>3, <3>6
    <3>7. QED
      BY <3>4, <3>5, <3>6
  <2>10. RichRows'
    <3>1. SUFFICES ASSUME NEW q \in Key, q[2] # 0, NEW i \in DOMAIN paid'[q]
                   PROVE  paid'[q][i] # "failed" /\ (i > 1 => <<q, i>> \in asked')
      BY DEF RichRows
    <3>2. CASE i \in DOMAIN paid[q]
      <4>1. paid'[q][i] = paid[q][i]
        BY <2>2, <3>1, <3>2
      <4>2. QED
        BY <1>1, <2>4, <3>1, <3>2, <4>1 DEF GateInv, RichRows
    <3>3. CASE i \notin DOMAIN paid[q]
      <4>1. q = k /\ i = n
        BY <1>3, <2>2, <3>1, <3>3
      <4>2. n > 1 => n - 1 \in DOMAIN paid[k]
        BY <1>3, <2>2
      <4>3. n > 1 => paid[k][n - 1] # "failed"
        BY <1>1, <1>3, <3>1, <4>1, <4>2 DEF GateInv, RichRows
      <4>4. QED
        BY <2>2, <2>5, <4>1, <4>3
    <3>4. QED
      BY <3>2, <3>3
  <2>11. LookupsOnce'
    <3>1. SUFFICES ASSUME NEW q \in Key, NEW i \in DOMAIN paid'[q], i > 1,
                          <<q, i>> \notin asked'
                   PROVE  paid'[q][i - 1] = "failed"
      BY DEF LookupsOnce
    <3>2. CASE i \in DOMAIN paid[q]
      <4>1. paid[q][i - 1] = "failed" /\ i - 1 \in DOMAIN paid[q]
        BY <1>1, <1>3, <2>4, <3>1, <3>2 DEF GateInv, LookupsOnce
      <4>2. QED
        BY <2>2, <4>1
    <3>3. CASE i \notin DOMAIN paid[q]
      <4>1. q = k /\ i = n
        BY <1>3, <2>2, <3>1, <3>3
      <4>2. i - 1 \in 1..(n - 1)
        BY <1>3, <3>1, <4>1
      <4>3. QED
        BY <2>2, <2>5, <3>1, <4>1, <4>2
    <3>4. QED
      BY <3>2, <3>3
  <2>12. GateInv'
    BY <2>7, <2>8, <2>9, <2>10, <2>11 DEF GateInv
  <2>13. PlaceOf(w)'
    BY <1>1, <1>3, <2>3 DEF PlaceOf, Gate, Posting, LegacyKey
  <2>14. Progress(w)' /\ at'[w] \notin {"open"} \cup Flight
    BY <2>3 DEF Progress, Asks, Ready, AtSite, SitePlaces, Flight
  <2>15. UNCHANGED <<used, rung, batched>>
    BY <1>2 DEF batch
  <2>16. QED
    BY <1>1, <1>2, <2>2, <2>3, <2>4, <2>12, <2>13, <2>14, <2>15, QuietKeeps
<1>6. QED
  BY <1>4, <1>5 DEF InsertAttempt

\* The row that is settled is nobody else's, and it is not one that another
\* attempt followed.
LEMMA SettleKeeps ==
    ASSUME LookupsInv, NEW w \in Worker, SettleAttempt(w)
    PROVE  LookupsInv'
<1> DEFINE k == key[w]
           b == mine[w]
<1>1. /\ LocalOK /\ PlaceInv /\ GateInv /\ BooksOK
      /\ at[w] = "settle" /\ PlaceOf(w) /\ Holding(w)
  BY DEF LookupsInv, LookupsTypeOK, SettleAttempt, PlaceInv, GateInv
<1>2. /\ UNCHANGED <<day, account, asked, found, batch, lookups, crashes>>
      /\ paid' = [paid EXCEPT ![k][b] = Verdict(w)] /\ Return(w)
  BY DEF SettleAttempt
<1>3. mode[w] \in {"batch", "single", "prep"} /\ Inside(w)
  BY <1>1 DEF PlaceOf, LocalOK, Inside, Gate
<1>4. /\ b \in DOMAIN paid[k] /\ k \in Key
      /\ paid[k][b] \in Unsettled /\ (k[2] = 0 => paid[k][b] = "in_flight")
      /\ paid \in [Key -> Seq(PaidState)]
  BY <1>1, <1>3 DEF Holding, LocalOK, BooksOK
<1>5. Verdict(w) \in PaidState /\ (k[2] # 0 => Verdict(w) # "failed")
  <2>1. k[2] # 0 => mode[w] = "prep"
    BY <1>1, <1>3 DEF PlaceOf, LegacyKey
  <2>2. QED
    BY <2>1 DEF Verdict, PaidState
<1>6. /\ paid' \in [Key -> Seq(PaidState)]
      /\ \A q \in Key : /\ Len(paid'[q]) = Len(paid[q])
                       /\ DOMAIN paid'[q] = DOMAIN paid[q]
                       /\ \A i \in DOMAIN paid[q] :
                            paid'[q][i] = IF q = k /\ i = b THEN Verdict(w)
                                          ELSE paid[q][i]
  BY <1>2, <1>4, <1>5, PaidEdit
<1>7. Moves(w) /\ at'[w] = "idle" /\ mode'[w] = "none"
  BY <1>1, <1>2, ReturnLands DEF PlaceInv, Landed
<1>8. ASSUME NEW v \in Worker \ {w}
      PROVE  /\ Inside(v)' <=> Inside(v)
             /\ key'[v] = key[v] /\ mine'[v] = mine[v]
             /\ key[v] \in Key /\ Holding(v) /\ at'[v] = at[v]
             /\ before'[v] = before[v] /\ word'[v] = word[v]
             /\ before[v] \in Nat
  BY <1>1, <1>7 DEF Moves, OthersStay, Inside, GateInv, LocalOK
<1>9. ~Inside(w)' /\ Holding(w)'
  BY <1>7 DEF Inside, Holding
<1>10. ASSUME NEW v \in Worker \ {w}
       PROVE  Holding(v)'
  <2>1. ASSUME at[v] = "insert", before[v] > 0, ~word[v]
        PROVE  paid'[key[v]][before[v]] = "failed"
    <3>1. paid[key[v]][before[v]] = "failed" /\ before[v] \in DOMAIN paid[key[v]]
      BY <1>4, <1>8, <2>1 DEF Holding
    <3>2. ~(key[v] = k /\ before[v] = b)
      BY <1>4, <3>1 DEF Unsettled
    <3>3. QED
      BY <1>6, <1>8, <3>1, <3>2
  <2>2. ASSUME Inside(v)
        PROVE  /\ mine[v] \in DOMAIN paid'[key[v]]
               /\ paid'[key[v]][mine[v]] \in Unsettled
               /\ key[v][2] = 0 => paid'[key[v]][mine[v]] = "in_flight"
    <3>1. ~(key[v] = k /\ mine[v] = b)
      BY <1>1, <1>3, <2>2 DEF GateInv, OwnRow
    <3>2. QED
      BY <1>6, <1>8, <2>2, <3>1 DEF Holding
  <2>3. QED
    BY <1>6, <1>8, <2>1, <2>2 DEF Holding
<1>11. OwnRow'
  BY <1>1, <1>8, <1>9 DEF GateInv, OwnRow
<1>12. RichRows'
  BY <1>1, <1>2, <1>5, <1>6 DEF GateInv, RichRows
<1>13. LookupsOnce'
  <2>1. SUFFICES ASSUME NEW q \in Key, NEW n \in DOMAIN paid'[q], n > 1,
                        <<q, n>> \notin asked
                 PROVE  paid'[q][n - 1] = "failed"
    BY <1>2 DEF LookupsOnce
  <2>2. n \in DOMAIN paid[q] /\ paid[q] \in Seq(PaidState)
    BY <1>4, <1>6
  <2>3. paid[q][n - 1] = "failed" /\ n - 1 \in DOMAIN paid[q]
    BY <1>1, <2>1, <2>2 DEF GateInv, LookupsOnce
  <2>4. ~(q = k /\ n - 1 = b)
    BY <1>4, <2>3 DEF Unsettled
  <2>5. QED
    BY <1>6, <2>3, <2>4
<1>14. GateInv'
  BY <1>9, <1>10, <1>11, <1>12, <1>13 DEF GateInv
<1>15. asked' \subseteq Key \X Nat /\ mode[w] # "none"
  BY <1>1, <1>2, <1>3 DEF BooksOK
<1>16. QED
  BY <1>2, <1>6, <1>14, <1>15, ReturnKeeps

---------------------------------------------------------------------------
(***************************************************************************)
(* Crashes, and the world.                                                 *)
(***************************************************************************)
\* Workers that die together forget where they were; the ledgers do not.
LEMMA CrashKeeps ==
    ASSUME LookupsInv, NEW w \in Worker, WorkerDies(w)
    PROVE  LookupsInv'
<1> DEFINE dead == IF mode[w] = "batch" THEN {v \in Worker : mode[v] = "batch"}
                   ELSE {w}
<1>1. /\ BooksOK /\ LocalOK /\ FoundOK /\ BatchOK /\ PlaceInv /\ GateInv
      /\ CallInv /\ ProgressInv /\ CallsOnce /\ MeterInv /\ AbsenceInv
      /\ BatchStaysInBudget
  BY DEF LookupsInv, LookupsTypeOK
<1>2. /\ UNCHANGED <<day, account, paid, asked, found, target, lookups>>
      /\ crashes < MaxCrashes /\ crashes' = crashes + 1
      /\ IF mode[w] = "batch" THEN used' = 0 /\ rung' = {} /\ batched' = 0
         ELSE UNCHANGED batch
  BY DEF WorkerDies
<1>3. /\ at' = [x \in Worker |-> IF x \in dead THEN "idle" ELSE at[x]]
      /\ mode' = [x \in Worker |-> IF x \in dead THEN "none" ELSE mode[x]]
      /\ key' = [x \in Worker |-> IF x \in dead THEN LegacyKey(target[x])
                                  ELSE key[x]]
      /\ before' = [x \in Worker |-> IF x \in dead THEN 0 ELSE before[x]]
      /\ mine' = [x \in Worker |-> IF x \in dead THEN 0 ELSE mine[x]]
      /\ want' = [x \in Worker |-> IF x \in dead THEN "none" ELSE want[x]]
      /\ call' = [x \in Worker |-> IF x \in dead THEN 0 ELSE call[x]]
      /\ person' = [x \in Worker |-> IF x \in dead THEN FALSE ELSE person[x]]
      /\ down' = [x \in Worker |-> IF x \in dead THEN FALSE ELSE down[x]]
      /\ word' = [x \in Worker |-> IF x \in dead THEN FALSE ELSE word[x]]
      /\ end' = [x \in Worker |-> IF x \in dead THEN "none" ELSE end[x]]
  BY DEF WorkerDies
<1> HIDE DEF dead
<1>4. \A x \in Worker : LegacyKey(target[x]) \in Key
  BY <1>1, LookupAssumption DEF LocalOK, LegacyKey, Key
<1>5. LocalOK'
  <2>1. key' \in [Worker -> Key]
    BY <1>1, <1>3, <1>4 DEF LocalOK
  <2>2. UNCHANGED target
    BY <1>2
  <2>3. QED
    BY <1>1, <1>3, <2>1, <2>2 DEF LocalOK
<1>6. UNCHANGED <<configured, call_limit, reserved, attempts, blocked, contact,
                  profile, fresh, paid, asked, day>>
  BY <1>2 DEF account, found
<1>7. ASSUME NEW v \in Worker, v \notin dead
      PROVE  /\ at'[v] = at[v] /\ mode'[v] = mode[v] /\ key'[v] = key[v]
             /\ before'[v] = before[v] /\ mine'[v] = mine[v]
             /\ want'[v] = want[v] /\ call'[v] = call[v] /\ down'[v] = down[v]
             /\ word'[v] = word[v] /\ target'[v] = target[v]
  BY <1>2, <1>3, <1>7
<1>8. ASSUME NEW v \in Worker, v \in dead
      PROVE  at'[v] = "idle" /\ mode'[v] = "none"
  BY <1>3, <1>8
<1>9. PlaceInv'
  <2>1. at' \in [Worker -> Place]
    BY <1>1, <1>3 DEF PlaceInv, Place
  <2>2. ASSUME NEW v \in Worker
        PROVE  PlaceOf(v)'
    <3>1. CASE v \in dead
      BY <1>8, <3>1 DEF PlaceOf, Gate, Posting
    <3>2. CASE v \notin dead
      BY <1>1, <1>7, <3>2 DEF PlaceInv, PlaceOf, LegacyKey
    <3>3. QED
      BY <3>1, <3>2
  <2>3. QED
    BY <2>1, <2>2 DEF PlaceInv
<1>10. GateInv'
  <2>1. ASSUME NEW v \in Worker
        PROVE  /\ Holding(v)'
               /\ Inside(v)' => /\ Inside(v) /\ key'[v] = key[v]
                                /\ mine'[v] = mine[v]
    <3>1. CASE v \in dead
      BY <1>8, <3>1 DEF Holding, Inside
    <3>2. CASE v \notin dead
      <4>1. Inside(v)' <=> Inside(v)
        BY <1>7, <3>2 DEF Inside
      <4>2. Holding(v)
        BY <1>1 DEF GateInv
      <4>3. QED
        BY <1>6, <1>7, <3>2, <4>1, <4>2 DEF Holding
    <3>3. QED
      BY <3>1, <3>2
  <2>2. OwnRow'
    BY <1>1, <2>1 DEF GateInv, OwnRow
  <2>3. RichRows' /\ LookupsOnce'
    BY <1>1, <1>6 DEF GateInv, RichRows, LookupsOnce
  <2>4. QED
    BY <2>1, <2>2, <2>3 DEF GateInv
<1>11. CallInv'
  <2>1. ASSUME NEW v \in Worker
        PROVE  /\ Flying(v)'
               /\ at'[v] \in Flight => at[v] \in Flight /\ call'[v] = call[v]
    <3>1. CASE v \in dead
      BY <1>8, <3>1 DEF Flying, Flight
    <3>2. CASE v \notin dead
      <4>1. RequestOf(v)' = RequestOf(v) /\ Flying(v)
        BY <1>1, <1>7, <3>2 DEF RequestOf, CallInv
      <4>2. QED
        BY <1>6, <1>7, <3>2, <4>1 DEF Flying
    <3>3. QED
      BY <3>1, <3>2
  <2>2. OwnCall'
    BY <1>1, <2>1 DEF CallInv, OwnCall
  <2>3. QED
    BY <2>1, <2>2 DEF CallInv
<1>12. ProgressInv'
  <2>1. Shown' = Shown
    BY <1>6 DEF Shown
  <2>2. ASSUME NEW v \in Worker
        PROVE  Progress(v)'
    <3>1. CASE v \in dead
      BY <1>8, <3>1, GateProgress
    <3>2. CASE v \notin dead
      <4>1. Progress(v)
        BY <1>1 DEF ProgressInv
      <4>2. QED
        BY <1>6, <1>7, <2>1, <3>2, <4>1 DEF Progress, Asks, Ready, AtSite
    <3>3. QED
      BY <3>1, <3>2
  <2>3. QED
    BY <2>2 DEF ProgressInv
<1>13. BatchOK' /\ BatchStaysInBudget'
  <2>1. Open' = Open \ dead
    BY <1>7, <1>8 DEF Open
  <2>2. CASE mode[w] = "batch"
    <3>1. used' = 0 /\ rung' = {} /\ batched' = 0
      BY <1>2, <2>2
    <3>2. Open' = {}
      BY <2>1, <2>2 DEF dead, Open
    <3>3. Cardinality(Open') = 0
      BY <3>2, FS_EmptySet
    <3>4. QED
      BY <3>1, <3>3, BudgetNext, LookupAssumption DEF BatchOK
  <2>3. CASE mode[w] # "batch"
    <3>1. UNCHANGED <<used, rung, batched>>
      BY <1>2, <2>3 DEF batch
    <3>2. Open' = Open
      BY <2>1, <2>3 DEF dead, Open
    <3>3. batched + Cardinality(Open) <= used /\ used <= BatchLimit
      BY <1>1, BudgetIs
    <3>4. QED
      BY <1>1, <3>1, <3>2, <3>3, BudgetNext DEF BatchOK
  <2>4. QED
    BY <2>2, <2>3
<1>14. CallsOnce' /\ MeterInv' /\ AbsenceInv'
  BY <1>1, <1>6 DEF CallsOnce, MeterInv, Booked, AbsenceInv, Absent, Shown
<1>15. BooksOK' /\ FoundOK'
  BY <1>1, <1>6 DEF BooksOK, FoundOK
<1>16. crashes' \in 0..MaxCrashes /\ lookups' \in 0..MaxLookups
  BY <1>2, LookupAssumption DEF LookupsInv, LookupsTypeOK
<1>17. QED
  BY <1>5, <1>9, <1>10, <1>11, <1>12, <1>13, <1>14, <1>15, <1>16
     DEF LookupsInv, LookupsTypeOK

\* A step outside the workers.
LEMMA WorldKeeps ==
    ASSUME LookupsInv, NewBatch \/ NextDay \/ WindowEnds \/ LowerTheLimit
    PROVE  LookupsInv'
<1>1. /\ BooksOK /\ LocalOK /\ FoundOK /\ BatchOK /\ PlaceInv /\ GateInv
      /\ CallInv /\ ProgressInv /\ CallsOnce /\ MeterInv /\ AbsenceInv
      /\ BatchStaysInBudget
  BY DEF LookupsInv, LookupsTypeOK
<1>2. /\ UNCHANGED <<call_limit, reserved, attempts, contact, profile, fresh, paid,
                     asked, at, mode, target, key, before, mine, want, call,
                     person, down, word, end, lookups, crashes>>
  BY DEF NewBatch, NextDay, WindowEnds, LowerTheLimit, account, found, local
<1>3. BooksOK'
  <2>1. day' \in Day
    BY <1>1, LookupAssumption DEF NewBatch, NextDay, WindowEnds, LowerTheLimit,
       BooksOK, Day
  <2>2. configured' \in {MonthLimit, LowerLimit}
    BY <1>1 DEF NewBatch, NextDay, WindowEnds, LowerTheLimit, account, BooksOK
  <2>3. blocked' \in {"none", "rate_limited", "credential"}
    BY <1>1 DEF NewBatch, NextDay, WindowEnds, LowerTheLimit, account, BooksOK
  <2>4. QED
    BY <1>1, <1>2, <2>1, <2>2, <2>3 DEF BooksOK
<1>4. LocalOK' /\ FoundOK' /\ PlaceInv'
  BY <1>1, <1>2 DEF LocalOK, FoundOK, PlaceInv, PlaceOf, LegacyKey
<1>5. GateInv'
  <2>1. \A v \in Worker : Holding(v)' /\ (Inside(v)' <=> Inside(v))
    BY <1>1, <1>2 DEF GateInv, Holding, Inside
  <2>2. QED
    BY <1>1, <1>2, <2>1 DEF GateInv, OwnRow, RichRows, LookupsOnce
<1>6. CallInv'
  BY <1>1, <1>2 DEF CallInv, Flying, OwnCall, RequestOf
<1>7. ProgressInv' /\ CallsOnce' /\ MeterInv' /\ AbsenceInv'
  BY <1>1, <1>2 DEF ProgressInv, Progress, Asks, Ready, AtSite, Shown, CallsOnce,
     MeterInv, Booked, AbsenceInv, Absent
<1>8. BatchOK' /\ BatchStaysInBudget'
  <2>1. Open' = Open
    BY <1>2 DEF Open
  <2>2. batched + Cardinality(Open) <= used /\ used <= BatchLimit
    BY <1>1, BudgetIs
  <2>3. CASE NewBatch
    <3>1. used' = 0 /\ rung' = {} /\ batched' = 0 /\ Open = {}
      BY <2>3 DEF NewBatch, Open
    <3>2. Cardinality(Open') = 0
      BY <2>1, <3>1, FS_EmptySet
    <3>3. QED
      BY <3>1, <3>2, BudgetNext, LookupAssumption DEF BatchOK
  <2>4. CASE NextDay \/ WindowEnds \/ LowerTheLimit
    <3>1. UNCHANGED <<used, rung, batched>>
      BY <2>4 DEF NextDay, WindowEnds, LowerTheLimit, batch
    <3>2. QED
      BY <1>1, <2>1, <2>2, <3>1, BudgetNext DEF BatchOK
  <2>5. QED
    BY <2>3, <2>4
<1>9. QED
  BY <1>1, <1>2, <1>3, <1>4, <1>5, <1>6, <1>7, <1>8 DEF LookupsInv, LookupsTypeOK

LEMMA StutterKeeps ==
    ASSUME LookupsInv, UNCHANGED lookupsVars
    PROVE  LookupsInv'
<1>1. UNCHANGED <<day, configured, call_limit, reserved, attempts, blocked,
                  contact, profile, fresh, paid, asked, used, rung, batched, at,
                  mode, target, key, before, mine, want, call, person, down,
                  word, end, lookups, crashes>>
  BY DEF lookupsVars, account, found, batch, local
<1>2. LookupsTypeOK' /\ PlaceInv' /\ CallsOnce' /\ MeterInv' /\ AbsenceInv'
  <2>1. LookupsTypeOK'
    BY <1>1 DEF LookupsInv, LookupsTypeOK, BooksOK, FoundOK, BatchOK, LocalOK
  <2>2. PlaceInv'
    BY <1>1 DEF LookupsInv, PlaceInv, PlaceOf, LegacyKey
  <2>3. CallsOnce'
    BY <1>1 DEF LookupsInv, CallsOnce
  <2>4. MeterInv'
    BY <1>1 DEF LookupsInv, MeterInv, Booked
  <2>5. AbsenceInv'
    BY <1>1 DEF LookupsInv, AbsenceInv, Absent, Shown
  <2>6. QED
    BY <2>1, <2>2, <2>3, <2>4, <2>5
<1>3. GateInv' /\ CallInv' /\ ProgressInv'
  BY <1>1 DEF LookupsInv, GateInv, Holding, Inside, OwnRow, RichRows, LookupsOnce,
     CallInv, Flying, OwnCall, RequestOf, ProgressInv, Progress, Asks, Ready,
     AtSite, Shown
<1>4. BatchStaysInBudget'
  BY <1>1 DEF LookupsInv, BatchStaysInBudget
<1>5. QED
  BY <1>2, <1>3, <1>4 DEF LookupsInv

LEMMA LookupsStart == LookupsInit => LookupsInv
<1> SUFFICES ASSUME LookupsInit PROVE LookupsInv
  OBVIOUS
<1>1. /\ target \in [Worker -> Target]
      /\ \A l \in Target : LegacyKey(l) \in Key
  BY LookupAssumption DEF LookupsInit, LegacyKey, Key
<1>2. BooksOK
  BY LookupAssumption DEF LookupsInit, BooksOK, Day
<1>3. FoundOK /\ BatchOK
  BY LookupAssumption DEF LookupsInit, FoundOK, BatchOK, ContactRow, Profile
<1>4. LocalOK
  BY <1>1 DEF LookupsInit, LocalOK
<1>5. PlaceInv
  BY DEF LookupsInit, PlaceInv, PlaceOf, Place, Gate, Posting
<1>6. GateInv
  <2>1. \A k \in Key : paid[k] = <<>> /\ DOMAIN paid[k] = {}
    BY DEF LookupsInit
  <2>2. QED
    BY <2>1 DEF LookupsInit, GateInv, Holding, Inside, OwnRow, RichRows, LookupsOnce
<1>7. attempts = <<>> /\ DOMAIN attempts = {}
  BY DEF LookupsInit
<1>8. CallInv /\ CallsOnce /\ ProgressInv /\ AbsenceInv
  BY <1>7 DEF LookupsInit, CallInv, Flying, OwnCall, Flight, CallsOnce, ProgressInv,
     Progress, AbsenceInv, Absent, Asks, Ready, AtSite, SitePlaces, Posting
<1>9. MeterInv
  <2>1. \A m \in Month : Booked(m) = {}
    BY <1>7 DEF Booked
  <2>2. Cardinality({}) = 0
    BY FS_EmptySet
  <2>3. MonthLimit \in Nat
    BY LookupAssumption
  <2>4. ASSUME NEW m \in Month
        PROVE  /\ reserved[m] = Cardinality(Booked(m))
               /\ reserved[m] <= call_limit[m] /\ call_limit[m] <= MonthLimit
    <3>1. reserved[m] = 0 /\ call_limit[m] = 0
      BY DEF LookupsInit
    <3>2. QED
      BY <2>1, <2>2, <2>3, <3>1
  <2>5. QED
    BY <2>4 DEF MeterInv
<1>10. BatchStaysInBudget
  <2>1. Open = {}
    BY DEF LookupsInit, Open
  <2>2. QED
    BY <2>1, FS_EmptySet, BudgetIs, LookupAssumption DEF LookupsInit
<1>11. QED
  BY <1>2, <1>3, <1>4, <1>5, <1>6, <1>8, <1>9, <1>10, LookupAssumption
     DEF LookupsInv, LookupsTypeOK, LookupsInit

LEMMA LookupsStep == LookupsInv /\ [LookupsNext]_lookupsVars => LookupsInv'
<1> SUFFICES ASSUME LookupsInv, [LookupsNext]_lookupsVars
             PROVE  LookupsInv'
  OBVIOUS
<1>1. ASSUME NEW w \in Worker, Lookup(w)
      PROVE  LookupsInv'
  BY <1>1, EnrichKeeps, WebsiteKeeps, PriorKeeps, DeclareKeeps, InsertKeeps,
     SettleKeeps, FactKeeps, LinkedinKeeps, ProfileReadKeeps, ProfileKeeps,
     NotFoundKeeps DEF Lookup
<1>2. ASSUME NEW w \in Worker, Post(w)
      PROVE  LookupsInv'
  BY <1>2, ClaimKeeps, RefusedKeeps, WithheldKeeps, ExhaustedKeeps, ReserveKeeps,
     SlotKeeps, NoSlotKeeps, SendKeeps, AnswerKeeps DEF Post
<1>3. QED
  BY <1>1, <1>2, CrashKeeps, WorldKeeps, StutterKeeps DEF LookupsNext

(***************************************************************************)
(* The inductive invariant: who is past the gate of paid_calls.execute or  *)
(* has a call in flight has a row of its own, and a lookup on its way to   *)
(* an absence has the answers that make it one.                            *)
(***************************************************************************)
THEOREM LookupsCorrect == LookupsSpec => []LookupsInv
BY LookupsStart, LookupsStep, PTL DEF LookupsSpec

(***************************************************************************)
(* Whatever the limits, threads and crashes, every call that is booked is  *)
(* counted in its month, the counter never passes the limit, and a batch   *)
(* keeps to its ceiling.                                                   *)
(***************************************************************************)
THEOREM CallsAreMetered == LookupsSpec => []EveryCallIsMetered
<1>1. LookupsInv => EveryCallIsMetered
  BY DEF LookupsInv, EveryCallIsMetered, MeterInv, Booked
<1>2. QED
  BY <1>1, LookupsCorrect, PTL

(***************************************************************************)
(* No request that may have been executed, and no lookup that may have     *)
(* spent, is repeated unless an operator asked.                            *)
(***************************************************************************)
THEOREM RepeatedOnlyIfAsked == LookupsSpec => []NothingRepeatedUnasked
<1>1. LookupsInv => NothingRepeatedUnasked
  BY DEF LookupsInv, NothingRepeatedUnasked, CallsOnce, GateInv, LookupsOnce
<1>2. QED
  BY <1>1, LookupsCorrect, PTL

(***************************************************************************)
(* A lead is filed as having no contact only on answers, never on outages. *)
(***************************************************************************)
THEOREM AbsencesAreEarned == LookupsSpec => []AbsenceIsEarned
<1>1. LookupsInv => AbsenceIsEarned
  BY AbsenceIs DEF LookupsInv
<1>2. QED
  BY <1>1, LookupsCorrect, PTL
===============================================================================
