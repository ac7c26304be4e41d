------------------------------- MODULE Desk_proofs ------------------------------
(***************************************************************************)
(* Theorems about the components around one rep's words: claims of an      *)
(* organization, memories and their corrections, the leads behind          *)
(* published records, the turns of a thread, and the outreach a card's     *)
(* button starts; for any number of requests, captures, records, releases, *)
(* messages, listeners, clicks and retry workers.                          *)
(***************************************************************************)
EXTENDS Turns, Claims, Memory, LeadIngest, Outreach, FiniteSetTheorems,
        SequenceTheorems, TLAPS

---------------------------------------------------------------------------
(***************************************************************************)
(* Claims.                                                                 *)
(***************************************************************************)
ClaimTypes ==
    /\ claim \in [Row -> [by : Seller \cup {Nobody}, seen : SUBSET Row,
                          cut : BOOLEAN]]
    /\ at \in [Asker -> {"idle", "look", "take", "holder", "return"}]
    /\ who \in [Asker -> Seller \cup {Nobody}]
    /\ sees \in [Asker -> SUBSET Row]
    /\ held \in [Asker -> SUBSET Row]
    /\ \A a \in Asker : at[a] = "idle" \/ who[a] \in Seller
    /\ \A l \in Row : claim[l] = Free \/ claim[l].by \in Seller

\* Between its look and its write a request counts on the rows its rep held.
CountsOn ==
    \A a \in Asker : at[a] = "take" /\ a \notin undercut =>
        \A k \in held[a] : claim[k] # Free /\ claim[k].by = who[a]

ClaimsInv == ClaimTypes /\ CountsOn /\ NeverHalved

LEMMA FreeRecord ==
    Free \in [by : Seller \cup {Nobody}, seen : SUBSET Row, cut : BOOLEAN]
BY DEF Free

\* What an answer leaves of a request.
LEMMA AnsweredIdle ==
    ASSUME ClaimTypes, NEW a \in Asker, Answered(a)
    PROVE  /\ at' \in [Asker -> {"idle", "look", "take", "holder", "return"}]
           /\ who' \in [Asker -> Seller \cup {Nobody}]
           /\ sees' \in [Asker -> SUBSET Row]
           /\ held' \in [Asker -> SUBSET Row]
           /\ at'[a] = "idle"
           /\ \A b \in Asker : b # a =>
                 /\ at'[b] = at[b] /\ who'[b] = who[b] /\ held'[b] = held[b]
                 /\ sees'[b] = sees[b]
           /\ \A b \in Asker : at'[b] = "idle" \/ who'[b] \in Seller
BY DEF ClaimTypes, Answered

\* A request that leaves the claims alone.
LEMMA QuietRequest ==
    ASSUME ClaimsInv, NEW a \in Asker, UNCHANGED <<claim, undercut>>, Answered(a)
    PROVE  ClaimsInv'
<1>1. ClaimTypes'
  BY AnsweredIdle DEF ClaimsInv, ClaimTypes
<1>2. CountsOn'
  BY AnsweredIdle DEF ClaimsInv, CountsOn
<1>3. NeverHalved'
  BY DEF ClaimsInv, NeverHalved
<1>4. QED
  BY <1>1, <1>2, <1>3 DEF ClaimsInv

LEMMA ResolveInv ==
    ASSUME ClaimsInv, NEW a \in Asker, NEW r \in Seller, NEW w,
           NEW s \in {"look", "holder"}, Resolve(a, r, w, s)
    PROVE  ClaimsInv'
<1>1. sees' \in [Asker -> SUBSET Row]
  BY DEF ClaimsInv, ClaimTypes, Resolve
<1>2. ClaimTypes'
  BY <1>1 DEF ClaimsInv, ClaimTypes, Resolve
<1>3. CountsOn'
  BY DEF ClaimsInv, ClaimTypes, CountsOn, Resolve
<1>4. NeverHalved'
  BY DEF ClaimsInv, NeverHalved, Resolve
<1>5. QED
  BY <1>2, <1>3, <1>4 DEF ClaimsInv

LEMMA LookInv ==
    ASSUME ClaimsInv, NEW a \in Asker, LookForClaims(a)
    PROVE  ClaimsInv'
<1>1. CASE Answered(a)
  BY <1>1, QuietRequest DEF LookForClaims
<1>2. CASE /\ Foreign(a) = {}
           /\ held' = [held EXCEPT ![a] = Live(sees[a])]
           /\ at' = [at EXCEPT ![a] = "take"]
           /\ UNCHANGED <<who, sees>>
  <2>1. UNCHANGED <<claim, undercut>> /\ at[a] = "look"
    BY DEF LookForClaims
  <2>2. Live(sees[a]) \in SUBSET Row
    BY DEF ClaimsInv, ClaimTypes, Live
  <2>3. ClaimTypes'
    BY <1>2, <2>1, <2>2 DEF ClaimsInv, ClaimTypes
  <2>4. \A k \in Live(sees[a]) : claim[k] # Free /\ claim[k].by = who[a]
    BY <1>2 DEF Foreign, Live
  <2>5. CountsOn'
    BY <1>2, <2>1, <2>4 DEF ClaimsInv, ClaimTypes, CountsOn
  <2>6. NeverHalved'
    BY <2>1 DEF ClaimsInv, NeverHalved
  <2>7. QED
    BY <2>3, <2>5, <2>6 DEF ClaimsInv
<1>3. QED
  BY <1>1, <1>2 DEF LookForClaims

\* The insert: all rows not held, or none of them.
LEMMA TakeInv ==
    ASSUME ClaimsInv, NEW a \in Asker, Take(a)
    PROVE  ClaimsInv'
<1> DEFINE fresh == sees[a] \ held[a]
           mine == [by |-> who[a], seen |-> sees[a], cut |-> a \in undercut]
<1>1. /\ at[a] = "take" /\ Answered(a) /\ undercut' = undercut \ {a}
      /\ claim' = IF Live(fresh) # {} THEN claim
                  ELSE [l \in Row |-> IF l \in fresh THEN mine ELSE claim[l]]
  BY DEF Take
<1>2. CASE Live(fresh) # {}
  <2>1. claim' = claim
    BY <1>1, <1>2
  <2>2. ClaimTypes'
    BY <1>1, <2>1, AnsweredIdle DEF ClaimsInv, ClaimTypes
  <2>3. CountsOn'
    <3>1. ASSUME NEW b \in Asker, at'[b] = "take", b \notin undercut'
          PROVE  /\ at[b] = "take" /\ b \notin undercut
                 /\ held'[b] = held[b] /\ who'[b] = who[b]
      BY <1>1, <3>1, AnsweredIdle DEF ClaimsInv
    <3>2. QED
      BY <2>1, <3>1 DEF ClaimsInv, CountsOn, Free
  <2>4. NeverHalved'
    BY <2>1 DEF ClaimsInv, NeverHalved
  <2>5. QED
    BY <2>2, <2>3, <2>4 DEF ClaimsInv
<1>3. CASE Live(fresh) = {}
  <2>1. /\ who[a] \in Seller /\ sees[a] \subseteq Row
        /\ mine \in [by : Seller \cup {Nobody}, seen : SUBSET Row, cut : BOOLEAN]
        /\ mine.by = who[a] /\ mine.seen = sees[a] /\ mine.cut = (a \in undercut)
    BY <1>1 DEF ClaimsInv, ClaimTypes
  <2>2. mine # Free
    BY <2>1, ClaimsAssumption DEF Free
  <2>3. \A l \in Row : claim'[l] = IF l \in fresh THEN mine ELSE claim[l]
    BY <1>1, <1>3
  <2>4. claim' \in [Row -> [by : Seller \cup {Nobody}, seen : SUBSET Row,
                            cut : BOOLEAN]]
    BY <1>1, <1>3, <2>1 DEF ClaimsInv, ClaimTypes
  <2>5. ClaimTypes'
    BY <1>1, <2>1, <2>3, <2>4, AnsweredIdle DEF ClaimsInv, ClaimTypes
  <2>6. \A l \in fresh : l \in Row /\ claim[l] = Free
    BY <1>3, <2>1 DEF Live
  <2>7. CountsOn'
    <3>1. ASSUME NEW b \in Asker, at'[b] = "take", b \notin undercut',
                 NEW k \in held'[b]
          PROVE  claim'[k] # Free /\ claim'[k].by = who'[b]
      <4>1. b # a /\ b \notin undercut /\ at[b] = "take" /\ k \in held[b]
            /\ who'[b] = who[b] /\ k \in Row
        BY <1>1, <3>1, AnsweredIdle DEF ClaimsInv, ClaimTypes
      <4>2. claim[k] # Free /\ claim[k].by = who[b]
        BY <4>1 DEF ClaimsInv, CountsOn
      <4>3. QED
        BY <2>3, <2>6, <4>1, <4>2
    <3>2. QED
      BY <3>1 DEF CountsOn, Free
  <2>8. NeverHalved'
    <3>1. ASSUME NEW l \in Row, claim'[l] # Free, ~claim'[l].cut,
                 NEW k \in claim'[l].seen
          PROVE  claim'[k] # Free /\ claim'[k].by = claim'[l].by
      <4>1. CASE l \in fresh
        <5>1. k \in sees[a] /\ k \in Row /\ a \notin undercut
              /\ claim'[l].by = who[a]
          BY <2>1, <2>3, <3>1, <4>1
        <5>2. CASE k \in fresh
          BY <2>1, <2>2, <2>3, <5>1, <5>2
        <5>3. CASE k \notin fresh
          <6>1. k \in held[a]
            BY <5>1, <5>3
          <6>2. claim[k] # Free /\ claim[k].by = who[a]
            BY <1>1, <5>1, <6>1 DEF ClaimsInv, CountsOn
          <6>3. QED
            BY <2>3, <5>1, <5>3, <6>2
        <5>4. QED
          BY <5>2, <5>3
      <4>2. CASE l \notin fresh
        <5>1. claim'[l] = claim[l] /\ k \in Row
          BY <2>3, <3>1, <4>2 DEF ClaimsInv, ClaimTypes
        <5>2. claim[k] # Free /\ claim[k].by = claim[l].by
          BY <3>1, <5>1 DEF ClaimsInv, NeverHalved
        <5>3. QED
          BY <2>3, <2>6, <5>1, <5>2
      <4>3. QED
        BY <4>1, <4>2
    <3>2. QED
      BY <3>1 DEF NeverHalved, Free
  <2>9. QED
    BY <2>5, <2>7, <2>8 DEF ClaimsInv
<1>4. QED
  BY <1>2, <1>3

\* A release cuts up what was claimed in sight of its rows, and undercuts
\* the requests that count on them.
LEMMA HandBackInv ==
    ASSUME ClaimsInv, NEW a \in Asker, HandBack(a)
    PROVE  ClaimsInv'
<1> DEFINE rows == sees[a]
           ended(l) == [claim[l] EXCEPT
                           !.cut = claim[l].cut \/ claim[l].seen \cap rows # {}]
<1>1. /\ Answered(a) /\ rows \subseteq Row
      /\ undercut' = undercut \cup {b \in Asker : held[b] \cap rows # {}}
      /\ claim' = [l \in Row |-> IF l \in rows THEN Free ELSE ended(l)]
  BY DEF HandBack, ClaimsInv, ClaimTypes
<1>2. \A l \in Row :
         /\ ended(l) \in [by : Seller \cup {Nobody}, seen : SUBSET Row,
                          cut : BOOLEAN]
         /\ ended(l).by = claim[l].by /\ ended(l).seen = claim[l].seen
         /\ ended(l).cut = (claim[l].cut \/ claim[l].seen \cap rows # {})
  <2>1. ASSUME NEW c \in [by : Seller \cup {Nobody}, seen : SUBSET Row, cut : BOOLEAN],
               NEW x \in BOOLEAN
        PROVE  LET d == [c EXCEPT !.cut = x]
               IN /\ d \in [by : Seller \cup {Nobody}, seen : SUBSET Row,
                             cut : BOOLEAN]
                  /\ d.by = c.by /\ d.seen = c.seen /\ d.cut = x
    OBVIOUS
  <2>2. \A l \in Row :
           /\ claim[l] \in [by : Seller \cup {Nobody}, seen : SUBSET Row, cut : BOOLEAN]
           /\ (claim[l].cut \/ claim[l].seen \cap rows # {}) \in BOOLEAN
    BY DEF ClaimsInv, ClaimTypes
  <2>3. QED
    BY <2>1, <2>2
<1>3. \A l \in Row : claim'[l] = IF l \in rows THEN Free ELSE ended(l)
  BY <1>1
<1>4. \A l \in Row : claim[l] # Free => claim[l].by \in Seller
  BY DEF ClaimsInv, ClaimTypes
<1>5. \A l \in Row : claim[l] = Free => ended(l) = Free
  <2>1. \A c, d \in [by : Seller \cup {Nobody}, seen : SUBSET Row, cut : BOOLEAN] :
           c.by = d.by /\ c.seen = d.seen /\ c.cut = d.cut => c = d
    OBVIOUS
  <2>2. Free.cut = FALSE /\ Free.seen = {}
    BY DEF Free
  <2>3. ASSUME NEW l \in Row, claim[l] = Free
        PROVE  /\ ended(l).by = Free.by /\ ended(l).seen = Free.seen
               /\ ended(l).cut = Free.cut
    BY <1>2, <2>2, <2>3
  <2>4. QED
    BY <1>2, <2>1, <2>3, FreeRecord
<1>6. \A l \in Row : claim[l] # Free => ended(l) # Free
  BY <1>2, <1>4, ClaimsAssumption DEF Free
<1> HIDE DEF ended
<1>7. claim' \in [Row -> [by : Seller \cup {Nobody}, seen : SUBSET Row,
                          cut : BOOLEAN]]
  BY <1>1, <1>2, FreeRecord
<1>8. ClaimTypes'
  BY <1>1, <1>2, <1>3, <1>4, <1>5, <1>7, AnsweredIdle DEF ClaimsInv, ClaimTypes, Free
<1>9. CountsOn'
  <2>1. ASSUME NEW b \in Asker, at'[b] = "take", b \notin undercut',
               NEW k \in held'[b]
        PROVE  claim'[k] # Free /\ claim'[k].by = who'[b]
    <3>1. b # a /\ b \notin undercut /\ at[b] = "take" /\ k \in held[b]
          /\ who'[b] = who[b] /\ k \in Row /\ k \notin rows
      BY <1>1, <2>1, AnsweredIdle DEF ClaimsInv, ClaimTypes
    <3>2. claim[k] # Free /\ claim[k].by = who[b]
      BY <3>1 DEF ClaimsInv, CountsOn
    <3>3. QED
      BY <1>2, <1>3, <1>6, <3>1, <3>2
  <2>2. QED
    BY <2>1 DEF CountsOn, Free
<1>10. NeverHalved'
  <2>1. ASSUME NEW l \in Row, claim'[l] # Free, ~claim'[l].cut,
               NEW k \in claim'[l].seen
        PROVE  claim'[k] # Free /\ claim'[k].by = claim'[l].by
    <3>1. l \notin rows /\ claim'[l] = ended(l) /\ claim[l] # Free
      BY <1>3, <1>5, <2>1
    <3>2. /\ ~claim[l].cut /\ claim[l].seen \cap rows = {}
          /\ k \in claim[l].seen /\ k \in Row /\ k \notin rows
      BY <1>2, <2>1, <3>1 DEF ClaimsInv, ClaimTypes
    <3>3. claim[k] # Free /\ claim[k].by = claim[l].by
      BY <3>1, <3>2 DEF ClaimsInv, NeverHalved
    <3>4. QED
      BY <1>2, <1>3, <1>6, <3>1, <3>2, <3>3
  <2>2. QED
    BY <2>1 DEF NeverHalved, Free
<1>11. QED
  BY <1>8, <1>9, <1>10 DEF ClaimsInv

(***************************************************************************)
(* However many claims, releases and polls overlap, nobody holds a part of *)
(* an organization as their request saw it, unless a release took rows     *)
(* away between the look and the write of that request, or of the          *)
(* organization afterwards (claim, release).                               *)
(***************************************************************************)
THEOREM WholeOrganizations == ClaimsSpec => []NeverHalved
<1>1. ClaimsInit => ClaimsInv
  BY FreeRecord DEF ClaimsInit, ClaimsInv, ClaimTypes, CountsOn, NeverHalved
<1>2. ClaimsInv /\ [ClaimsNext]_claimsVars => ClaimsInv'
  <2> SUFFICES ASSUME ClaimsInv, [ClaimsNext]_claimsVars
               PROVE  ClaimsInv'
    OBVIOUS
  <2>1. ASSUME NEW l \in Row, NEW b \in Buyer, StoreRow(l, b)
        PROVE  ClaimsInv'
    BY <2>1 DEF StoreRow, ClaimsInv, ClaimTypes, CountsOn, NeverHalved, Free
  <2>2. ASSUME NEW a \in Asker, LookForHolder(a)
        PROVE  ClaimsInv'
    <3>1. CASE Answered(a)
      BY <2>2, <3>1, QuietRequest DEF LookForHolder
    <3>2. CASE at' = [at EXCEPT ![a] = "return"] /\ UNCHANGED <<who, sees, held>>
      <4>1. UNCHANGED <<claim, undercut>>
        BY <2>2 DEF LookForHolder
      <4>2. at[a] = "holder"
        BY <2>2 DEF LookForHolder
      <4>3. QED
        BY <3>2, <4>1, <4>2 DEF ClaimsInv, ClaimTypes, CountsOn, NeverHalved, Free
    <3>3. QED
      BY <2>2, <3>1, <3>2 DEF LookForHolder
  <2>3. CASE UNCHANGED claimsVars
    BY <2>3 DEF claimsVars, ClaimsInv, ClaimTypes, CountsOn, NeverHalved, Free
  <2>4. QED
    BY <2>1, <2>2, <2>3, ResolveInv, LookInv, TakeInv, HandBackInv DEF ClaimsNext
<1>3. ClaimsInv => NeverHalved
  BY DEF ClaimsInv
<1>4. QED
  BY <1>1, <1>2, <1>3, PTL DEF ClaimsSpec

---------------------------------------------------------------------------
(***************************************************************************)
(* The least and the greatest of a set of numbers.                         *)
(***************************************************************************)
LEMMA LeastNat ==
    ASSUME NEW S \in SUBSET Nat, S # {}
    PROVE  \E n \in S : \A m \in S : n <= m
<1>1. PICK n \in S : \A m \in S : <<m, n>> \notin OpToRel(<, Nat)
  BY NatLessThanWellFounded, WFMin, Zenon
<1>2. \A m \in S : ~(m < n)
  BY <1>1, Zenon DEF OpToRel
<1>3. QED
  BY <1>2

LEMMA MinIsLeast ==
    ASSUME NEW S \in SUBSET Nat, S # {}
    PROVE  Min(S) \in S /\ \A m \in S : Min(S) <= m
BY LeastNat DEF Min

LEMMA MaxIsGreatest ==
    ASSUME NEW S \in SUBSET Nat, S # {}, NEW b \in Nat, \A n \in S : n <= b
    PROVE  Max(S) \in S /\ \A m \in S : m <= Max(S)
<1> DEFINE Above == {n \in Nat : \A m \in S : m <= n}
<1>1. Above # {} /\ Above \in SUBSET Nat
  OBVIOUS
<1>2. PICK n \in Above : \A m \in Above : n <= m
  BY <1>1, LeastNat
<1>3. n \in S
  <2>1. SUFFICES ASSUME n \notin S
                 PROVE  FALSE
    OBVIOUS
  <2>2. \A m \in S : m <= n - 1
    BY <1>2, <2>1
  <2>3. PICK m \in S : m <= n /\ m # n
    BY <1>2, <2>1
  <2>4. n - 1 \in Above
    BY <1>2, <2>2, <2>3
  <2>5. QED
    BY <1>2, <2>4
<1>4. \E x \in S : \A y \in S : x >= y
  BY <1>2, <1>3
<1>5. QED
  BY <1>4 DEF Max

---------------------------------------------------------------------------
(***************************************************************************)
(* Memory.                                                                 *)
(***************************************************************************)
MemoryRow == [fact : Fact, at : Nat, by : Nat]

RowsSound(rows) ==
    /\ DOMAIN rows \subseteq 1..MaxId
    /\ \A i \in DOMAIN rows :
          /\ rows[i] \in MemoryRow
          /\ rows[i].by # 0 =>
                /\ rows[i].by \in DOMAIN rows
                /\ <<rows[rows[i].by].fact, rows[i].fact>> \in Corrects
                /\ rows[rows[i].by].at >= rows[i].at

MemoryInv == RowsSound(memory) /\ clock \in Nat /\ moment \in [Ear -> Nat]

\* A new id is nobody's: the highest one is behind it.
LEMMA NewId ==
    ASSUME RowsSound(memory)
    PROVE  Max(DOMAIN memory \cup {0}) + 1 \in Nat \ (DOMAIN memory \cup {0})
<1> DEFINE Ids == DOMAIN memory \cup {0}
<1>1. Ids \in SUBSET Nat /\ Ids # {} /\ \A n \in Ids : n <= MaxId
  BY MemoryAssumption DEF RowsSound
<1>2. Max(Ids) \in Ids /\ \A m \in Ids : m <= Max(Ids)
  BY <1>1, MaxIsGreatest, MemoryAssumption
<1> HIDE DEF Ids
<1>3. ASSUME NEW m \in Nat, \A n \in Ids : n <= m
      PROVE  m + 1 \in Nat \ Ids
  BY <1>1, <1>3
<1>4. Max(Ids) + 1 \in Nat \ Ids
  BY <1>1, <1>2, <1>3
<1>5. QED
  BY <1>4 DEF Ids

\* Storing a fact, in a new row or over its lapsed one, disturbs no correction.
LEMMA StoredSound ==
    ASSUME RowsSound(memory), NEW f \in Fact, NEW t \in Nat,
           NEW i \in StoredIn(f, t), i <= MaxId
    PROVE  /\ RowsSound(Stored(f, i, t))
           /\ i \in DOMAIN Stored(f, i, t)
<1> DEFINE rows == Stored(f, i, t)
           stored == [fact |-> f, at |-> t, by |-> 0]
<1>1. /\ DOMAIN rows = DOMAIN memory \cup {i}
      /\ \A j \in DOMAIN rows : rows[j] = IF j = i THEN stored ELSE memory[j]
  BY DEF Stored
<1>2. stored \in MemoryRow /\ stored.fact = f /\ stored.at = t /\ stored.by = 0
  BY DEF MemoryRow
<1>3. \/ i \in Nat \ (DOMAIN memory \cup {0})
      \/ i \in DOMAIN memory /\ memory[i].fact = f /\ memory[i].at <= t
  <2>1. CASE Holding(f) = {}
    BY <2>1, NewId DEF StoredIn
  <2>2. CASE Holding(f) # {}
    <3>1. i \in DOMAIN memory /\ memory[i].fact = f /\ ~Lives(memory[i], t)
      BY <2>2 DEF StoredIn, Holding
    <3>2. memory[i].at \in Nat
      BY <3>1 DEF RowsSound, MemoryRow
    <3>3. QED
      BY <3>1, <3>2, MemoryAssumption DEF Lives
  <2>3. QED
    BY <2>1, <2>2
<1>4. i \in 1..MaxId
  BY <1>3, MemoryAssumption DEF RowsSound
<1> HIDE DEF rows, stored
<1>5. ASSUME NEW k \in DOMAIN rows
      PROVE  /\ rows[k] \in MemoryRow
             /\ rows[k].by # 0 =>
                   /\ rows[k].by \in DOMAIN rows
                   /\ <<rows[rows[k].by].fact, rows[k].fact>> \in Corrects
                   /\ rows[rows[k].by].at >= rows[k].at
  <2>1. CASE k = i
    BY <1>1, <1>2, <2>1
  <2>2. CASE k # i
    <3>1. k \in DOMAIN memory /\ rows[k] = memory[k] /\ memory[k] \in MemoryRow
      BY <1>1, <2>2 DEF RowsSound
    <3>2. ASSUME memory[k].by # 0
          PROVE  /\ memory[k].by \in DOMAIN rows
                 /\ <<rows[memory[k].by].fact, memory[k].fact>> \in Corrects
                 /\ rows[memory[k].by].at >= memory[k].at
      <4> DEFINE j == memory[k].by
      <4>1. /\ j \in DOMAIN memory /\ memory[j] \in MemoryRow
            /\ <<memory[j].fact, memory[k].fact>> \in Corrects
            /\ memory[j].at >= memory[k].at
        BY <3>1, <3>2 DEF RowsSound
      <4>2. CASE j = i
        <5>1. memory[i].fact = f /\ memory[i].at <= t
          BY <1>3, <4>1, <4>2
        <5>2. memory[i].at \in Nat /\ memory[k].at \in Nat
          BY <3>1, <4>1, <4>2 DEF MemoryRow
        <5>3. QED
          BY <1>1, <1>2, <4>1, <4>2, <5>1, <5>2
      <4>3. CASE j # i
        BY <1>1, <4>1, <4>3
      <4>4. QED
        BY <4>2, <4>3
    <3>3. QED
      BY <3>1, <3>2
  <2>3. QED
    BY <2>1, <2>2
<1>6. RowsSound(rows)
  BY <1>1, <1>4, <1>5 DEF RowsSound
<1>7. QED
  BY <1>1, <1>6 DEF rows

\* A correction retires a row in favour of one that stands.
LEMMA RetireSound ==
    ASSUME NEW rows, RowsSound(rows), NEW i, NEW j \in DOMAIN rows, NEW t,
           MayRetire(rows, i, j, t)
    PROVE  RowsSound([rows EXCEPT ![i].by = j])
<1> DEFINE after == [rows EXCEPT ![i].by = j]
<1>1. /\ i \in DOMAIN rows /\ i # j
      /\ <<rows[j].fact, rows[i].fact>> \in Corrects
      /\ rows[j].at >= rows[i].at
  BY DEF MayRetire, Corrected
<1>2. j \in Nat /\ j # 0
  BY DEF RowsSound
<1>3. [rows[i] EXCEPT !.by = j] \in MemoryRow
      /\ [rows[i] EXCEPT !.by = j].fact = rows[i].fact
      /\ [rows[i] EXCEPT !.by = j].at = rows[i].at
      /\ [rows[i] EXCEPT !.by = j].by = j
  <2>1. rows[i] \in [fact : Fact, at : Nat, by : Nat]
    BY <1>1 DEF RowsSound, MemoryRow
  <2>2. QED
    BY <1>2, <2>1 DEF MemoryRow
<1>4. /\ DOMAIN after = DOMAIN rows
      /\ \A k \in DOMAIN rows :
            /\ after[k] = IF k = i THEN [rows[i] EXCEPT !.by = j] ELSE rows[k]
            /\ after[k].fact = rows[k].fact /\ after[k].at = rows[k].at
            /\ after[k] \in MemoryRow
            /\ after[k].by = IF k = i THEN j ELSE rows[k].by
  BY <1>1, <1>3 DEF RowsSound
<1> HIDE DEF after
<1>5. ASSUME NEW k \in DOMAIN after, after[k].by # 0
      PROVE  /\ after[k].by \in DOMAIN after
             /\ <<after[after[k].by].fact, after[k].fact>> \in Corrects
             /\ after[after[k].by].at >= after[k].at
  <2>1. CASE k = i
    BY <1>1, <1>4, <2>1
  <2>2. CASE k # i
    <3>1. after[k].by = rows[k].by /\ rows[k].by # 0
      BY <1>4, <1>5, <2>2
    <3>2. /\ rows[k].by \in DOMAIN rows
          /\ <<rows[rows[k].by].fact, rows[k].fact>> \in Corrects
          /\ rows[rows[k].by].at >= rows[k].at
      BY <1>4, <3>1 DEF RowsSound
    <3>3. QED
      BY <1>4, <3>1, <3>2
  <2>3. QED
    BY <2>1, <2>2
<1>6. QED
  BY <1>4, <1>5 DEF RowsSound, after

LEMMA PurgeSound ==
    ASSUME RowsSound(memory), clock \in Nat, Purge
    PROVE  RowsSound(memory')
<1> DEFINE kept == {j \in DOMAIN memory : Lives(memory[j], clock)}
<1>1. /\ DOMAIN memory' = kept
      /\ \A k \in kept : memory'[k] = memory[k]
  BY DEF Purge
<1>2. ASSUME NEW k \in kept, memory[k].by # 0
      PROVE  memory[k].by \in kept
  <2>1. /\ memory[k].by \in DOMAIN memory
        /\ memory[memory[k].by].at >= memory[k].at
        /\ memory[memory[k].by].at \in Nat /\ memory[k].at \in Nat
    BY <1>2 DEF RowsSound, MemoryRow
  <2>2. memory[k].at + Life > clock
    BY DEF Lives
  <2>3. QED
    BY <2>1, <2>2, MemoryAssumption DEF Lives
<1>3. QED
  BY <1>1, <1>2 DEF RowsSound

(***************************************************************************)
(* Whatever is captured, lapses, is purged or forgotten while the model    *)
(* thinks, a retired memory points at a row that corrects it and is not    *)
(* older: the ids it carried across that time mislead nothing.             *)
(***************************************************************************)
THEOREM CorrectionsStand == MemorySpec => []CorrectionStands
<1>1. MemoryInit => MemoryInv
  BY MemoryAssumption DEF MemoryInit, MemoryInv, RowsSound
<1>2. MemoryInv /\ [MemoryNext]_memoryVars => MemoryInv'
  <2> SUFFICES ASSUME MemoryInv, [MemoryNext]_memoryVars
               PROVE  MemoryInv'
    OBVIOUS
  <2>1. ASSUME NEW c \in Ear, NEW f \in Fact, Add(c, f)
        PROVE  MemoryInv'
    <3>1. PICK i \in StoredIn(f, moment[c]) :
             i <= MaxId /\ memory' = Stored(f, i, moment[c])
      BY <2>1 DEF Add
    <3>2. moment[c] \in Nat
      BY DEF MemoryInv
    <3>3. QED
      BY <2>1, <3>1, <3>2, StoredSound DEF MemoryInv, Add, Hear
  <2>2. ASSUME NEW c \in Ear, NEW f \in Fact, NEW o \in offered[c], Correct(c, f, o)
        PROVE  MemoryInv'
    <3>1. PICK j \in StoredIn(f, moment[c]) :
             LET rows == Stored(f, j, moment[c])
             IN /\ j <= MaxId
                /\ memory' = IF MayRetire(rows, o.id, j, moment[c])
                             THEN [rows EXCEPT ![o.id].by = j] ELSE memory
      BY <2>2 DEF Correct
    <3> DEFINE rows == Stored(f, j, moment[c])
    <3>2. moment[c] \in Nat
      BY DEF MemoryInv
    <3>3. RowsSound(rows) /\ j \in DOMAIN rows
      BY <3>1, <3>2, StoredSound DEF MemoryInv
    <3>4. RowsSound(memory')
      <4>1. CASE MayRetire(rows, o.id, j, moment[c])
        <5>1. memory' = [rows EXCEPT ![o.id].by = j]
          BY <3>1, <4>1
        <5> HIDE DEF rows
        <5>2. QED
          BY <3>3, <4>1, <5>1, RetireSound
      <4>2. CASE ~MayRetire(rows, o.id, j, moment[c])
        BY <3>1, <4>2 DEF MemoryInv
      <4>3. QED
        BY <4>1, <4>2
    <3>5. QED
      BY <2>2, <3>4 DEF MemoryInv, Correct, Hear
  <2>3. ASSUME NEW c \in Ear, Recall(c) \/ StopHearing(c)
        PROVE  MemoryInv'
    BY <2>3 DEF MemoryInv, Recall, StopHearing, RowsSound
  <2>4. CASE Forget
    BY <2>4 DEF Forget, MemoryInv, RowsSound
  <2>5. CASE Purge
    BY <2>5, PurgeSound DEF MemoryInv, Purge
  <2>6. CASE Pass \/ UNCHANGED memoryVars
    BY <2>6 DEF Pass, memoryVars, MemoryInv, RowsSound
  <2>7. QED
    BY <2>1, <2>2, <2>3, <2>4, <2>5, <2>6 DEF MemoryNext
<1>3. MemoryInv => CorrectionStands
  BY DEF MemoryInv, RowsSound, CorrectionStands
<1>4. QED
  BY <1>1, <1>2, <1>3, PTL DEF MemorySpec

---------------------------------------------------------------------------
(***************************************************************************)
(* Lead ingest.                                                            *)
(***************************************************************************)
LeadRow ==
    [key : Record \X {Formula[k] : k \in DOMAIN Formula}, url : Url, org : Org,
     status : {"new", "surfaced", "dead"}]

\* The one record behind a row: it has the row's page and buyer, and the row
\* is stored under a key of its.
RowOf(i, r) ==
    /\ origin[i] = {r}
    /\ leads[i].key[1] = r
    /\ leads[i].url = UrlOf[r] /\ leads[i].org = OrgOf[r]

IngestInv ==
    /\ leads \in Seq(LeadRow) /\ origin \in Seq(SUBSET Record)
    /\ Len(origin) = Len(leads)
    /\ formula \in 1..Len(Formula)
    /\ \A i \in 1..Len(leads) : \E r \in Record : RowOf(i, r)
    /\ \A i, j \in 1..Len(leads) : origin[i] = origin[j] => i = j

\* Put writes at a position, or just behind the end.
LEMMA PutSeq ==
    ASSUME NEW S, NEW s \in Seq(S), NEW x \in S, NEW i \in 1..(Len(s) + 1)
    PROVE  /\ Put(s, i, x) \in Seq(S)
           /\ Len(Put(s, i, x)) = IF i = Len(s) + 1 THEN Len(s) + 1 ELSE Len(s)
           /\ \A j \in 1..Len(Put(s, i, x)) :
                 Put(s, i, x)[j] = IF j = i THEN x ELSE s[j]
<1> DEFINE n == IF i = Len(s) + 1 THEN Len(s) + 1 ELSE Len(s)
<1>1. Len(s) \in Nat /\ s \in [1..Len(s) -> S]
  BY LenProperties
<1>2. /\ {Len(s), i} \in SUBSET Nat /\ {Len(s), i} # {}
      /\ n \in Nat /\ (n = i \/ n = Len(s)) /\ i <= n /\ Len(s) <= n
      /\ \A m \in {Len(s), i} : m <= n
  <2>1. i \in Nat /\ i <= Len(s) + 1
    BY <1>1
  <2>2. CASE i = Len(s) + 1
    BY <1>1, <2>2
  <2>3. CASE i # Len(s) + 1
    <3>1. n = Len(s)
      BY <2>3
    <3>2. i <= Len(s)
      BY <1>1, <2>1, <2>3
    <3> HIDE DEF n
    <3>3. QED
      BY <1>1, <2>1, <3>1, <3>2
  <2>4. QED
    BY <2>2, <2>3
<1>3. Max({Len(s), i}) \in {Len(s), i}
      /\ \A m \in {Len(s), i} : m <= Max({Len(s), i})
  BY <1>2, MaxIsGreatest
<1>4. Max({Len(s), i}) = n
  BY <1>2, <1>3
<1>5. Put(s, i, x) = [j \in 1..n |-> IF j = i THEN x ELSE s[j]]
  BY <1>4 DEF Put
<1>6. \A j \in 1..n : j # i => s[j] \in S
  <2>1. ASSUME NEW j \in 1..n, j # i
        PROVE  j \in 1..Len(s)
    BY <1>1, <2>1
  <2>2. QED
    BY <1>1, <2>1
<1>7. n \in Nat
  BY <1>2
<1> HIDE DEF n
<1>8. Put(s, i, x) \in Seq(S) /\ Len(Put(s, i, x)) = n
  BY <1>5, <1>6, <1>7
<1>9. QED
  BY <1>5, <1>8 DEF n

\* What is known of an item before it is stored: its row, if it has one, is
\* the one row of its record, and otherwise its record has none.
LEMMA TargetFound ==
    ASSUME IngestInv, NEW r \in Record
    PROVE  /\ Target(r) \in 1..(Len(leads) + 1)
           /\ Target(r) \in Lead => origin[Target(r)] = {r}
           /\ Target(r) \notin Lead => \A i \in Lead : origin[i] # {r}
<1>1. Len(leads) \in Nat /\ Lead = 1..Len(leads)
  BY LenProperties DEF IngestInv, Lead
<1>2. \A i \in Keyed(r) : i \in Lead /\ origin[i] = {r}
  BY <1>1 DEF IngestInv, RowOf, Keyed, Key
<1>3. \A i \in Drifted(r) : i \in Lead /\ origin[i] = {r}
  BY <1>1, LeadIngestAssumption DEF IngestInv, RowOf, Drifted
<1>4. CASE Keyed(r) # {}
  <2>1. Min(Keyed(r)) \in Keyed(r)
    BY <1>1, <1>2, <1>4, MinIsLeast
  <2>2. Target(r) = Min(Keyed(r))
    BY <1>4 DEF Target
  <2>3. QED
    BY <1>1, <1>2, <2>1, <2>2
<1>5. CASE Keyed(r) = {} /\ Drifted(r) # {}
  <2>1. Min(Drifted(r)) \in Drifted(r)
    BY <1>1, <1>3, <1>5, MinIsLeast
  <2>2. Target(r) = Min(Drifted(r))
    BY <1>5 DEF Target
  <2>3. QED
    BY <1>1, <1>3, <2>1, <2>2
<1>6. CASE Keyed(r) = {} /\ Drifted(r) = {}
  <2>1. Target(r) = Len(leads) + 1
    BY <1>6 DEF Target
  <2>2. ASSUME NEW i \in Lead, origin[i] = {r}
        PROVE  i \in Drifted(r)
    <3>1. PICK q \in Record : RowOf(i, q)
      BY <1>1, <2>2 DEF IngestInv
    <3>2. q = r
      BY <2>2, <3>1 DEF RowOf
    <3>3. QED
      BY <1>6, <3>1, <3>2 DEF RowOf, Drifted
  <2>3. QED
    BY <1>1, <1>6, <2>1, <2>2
<1>7. QED
  BY <1>4, <1>5, <1>6

LEMMA UpsertInv ==
    ASSUME IngestInv, NEW r \in Record, NEW quiet \in BOOLEAN, Upsert(r, quiet)
    PROVE  IngestInv'
<1> DEFINE i == Target(r)
<1>1. PICK stored \in LeadRow :
         /\ leads' = Put(leads, i, stored)
         /\ stored.key[1] = r /\ stored.url = UrlOf[r] /\ stored.org = OrgOf[r]
  <2> DEFINE st == IF i \notin Lead \/ (Observation(r, i) \notin observations /\ ~quiet)
                   THEN "new" ELSE leads[i].status
             stored == [key |-> Key(r), url |-> UrlOf[r], org |-> OrgOf[r],
                     status |-> st]
  <2>1. leads' = Put(leads, i, stored)
    BY DEF Upsert
  <2>2. st \in {"new", "surfaced", "dead"}
    <3>1. i \in Lead => leads[i] \in LeadRow
      BY LenProperties DEF IngestInv, Lead
    <3>2. QED
      BY <3>1 DEF LeadRow
  <2>3. formula \in DOMAIN Formula
    BY LeadIngestAssumption, LenProperties DEF IngestInv
  <2>4. stored \in LeadRow
    BY <2>2, <2>3, LeadIngestAssumption DEF LeadRow, Key
  <2>5. stored.key[1] = r /\ stored.url = UrlOf[r] /\ stored.org = OrgOf[r]
    BY DEF Key
  <2> HIDE DEF stored
  <2>6. QED
    BY <2>1, <2>4, <2>5
<1>2. origin' = Put(origin, i, {r})
  BY TargetFound DEF Upsert
<1>3. /\ Len(leads) \in Nat /\ Lead = 1..Len(leads) /\ i \in 1..(Len(leads) + 1)
      /\ formula' = formula
  BY LenProperties, TargetFound DEF IngestInv, Lead, Upsert
<1> DEFINE n == IF i = Len(leads) + 1 THEN Len(leads) + 1 ELSE Len(leads)
<1>4. /\ leads' \in Seq(LeadRow) /\ Len(leads') = n
      /\ \A j \in 1..n : leads'[j] = IF j = i THEN stored ELSE leads[j]
  BY <1>1, <1>3, PutSeq DEF IngestInv
<1>5. {r} \in SUBSET Record /\ origin \in Seq(SUBSET Record)
      /\ i \in 1..(Len(origin) + 1) /\ Len(origin) = Len(leads)
  BY <1>3 DEF IngestInv
<1>6. /\ origin' \in Seq(SUBSET Record) /\ Len(origin') = n
      /\ \A j \in 1..n : origin'[j] = IF j = i THEN {r} ELSE origin[j]
  <2> DEFINE S == SUBSET Record
             x == {r}
  <2>1. x \in S /\ origin \in Seq(S) /\ i \in 1..(Len(origin) + 1)
        /\ origin' = Put(origin, i, x)
    BY <1>2, <1>5
  <2> HIDE DEF S, x, i
  <2>2. /\ origin' \in Seq(S)
        /\ Len(origin') = IF i = Len(origin) + 1 THEN Len(origin) + 1 ELSE Len(origin)
        /\ \A j \in 1..Len(origin') : origin'[j] = IF j = i THEN x ELSE origin[j]
    BY <2>1, PutSeq
  <2>3. QED
    BY <1>5, <2>2 DEF S, x
<1>7. \A j \in 1..n : j # i => j \in 1..Len(leads)
  BY <1>3
<1>8. i \in 1..n /\ n \in Nat
  BY <1>3
<1>9. \A j \in 1..n : j # i => origin[j] # {r}
  <2>1. CASE i \in Lead
    BY <1>3, <1>7, <2>1, TargetFound DEF IngestInv
  <2>2. CASE i \notin Lead
    BY <1>3, <1>7, <2>2, TargetFound
  <2>3. QED
    BY <2>1, <2>2
<1> HIDE DEF n, i
<1>10. ASSUME NEW j \in 1..n
       PROVE  \E q \in Record : RowOf(j, q)'
  <2>1. CASE j = i
    BY <1>1, <1>4, <1>6, <2>1 DEF RowOf
  <2>2. CASE j # i
    <3>1. PICK q \in Record : RowOf(j, q)
      BY <1>7, <2>2 DEF IngestInv
    <3>2. QED
      BY <1>4, <1>6, <2>2, <3>1 DEF RowOf
  <2>3. QED
    BY <2>1, <2>2
<1>11. ASSUME NEW j \in 1..n, NEW k \in 1..n, origin'[j] = origin'[k]
       PROVE  j = k
  BY <1>6, <1>7, <1>9, <1>11 DEF IngestInv
<1>12. QED
  BY <1>3, <1>4, <1>6, <1>10, <1>11 DEF IngestInv

\* A change of a row's status leaves its identity alone.
LEMMA StatusInv ==
    ASSUME IngestInv, NEW i \in Lead, NEW s \in {"new", "surfaced", "dead"},
           leads' = [leads EXCEPT ![i].status = s], UNCHANGED <<origin, formula>>
    PROVE  IngestInv'
<1>1. /\ Len(leads) \in Nat /\ Lead = 1..Len(leads)
      /\ leads \in [1..Len(leads) -> LeadRow]
  BY LenProperties DEF IngestInv, Lead
<1> DEFINE stored == [leads[i] EXCEPT !.status = s]
<1>2. /\ stored \in LeadRow /\ stored.key = leads[i].key
      /\ stored.url = leads[i].url /\ stored.org = leads[i].org
  <2>1. leads[i] \in LeadRow
    BY <1>1
  <2>2. QED
    BY <2>1 DEF LeadRow
<1>3. leads' = [leads EXCEPT ![i] = stored]
  OBVIOUS
<1> HIDE DEF stored
<1>4. /\ leads' \in Seq(LeadRow) /\ Len(leads') = Len(leads)
      /\ \A j \in 1..Len(leads) : leads'[j] = IF j = i THEN stored ELSE leads[j]
  <2>1. leads \in Seq(LeadRow) /\ i \in 1..Len(leads)
    BY <1>1 DEF IngestInv
  <2>2. QED
    BY <1>1, <1>2, <1>3, <2>1, ExceptSeq
<1>5. \A j \in 1..Len(leads) : \A r \in Record : RowOf(j, r) => RowOf(j, r)'
  BY <1>2, <1>4 DEF RowOf
<1>6. QED
  BY <1>4, <1>5 DEF IngestInv

(***************************************************************************)
(* Whatever releases do to the formula of item ids, a record is one lead   *)
(* for good and no two records share one.                                  *)
(***************************************************************************)
THEOREM RecordsAreLeads == IngestSpec => []OneLeadPerRecord
<1>1. IngestInit => IngestInv
  <2> SUFFICES ASSUME IngestInit PROVE IngestInv
    OBVIOUS
  <2>1. 1 \in 1..Len(Formula)
    BY LeadIngestAssumption, EmptySeq, LenProperties
  <2>2. leads = <<>> /\ origin = <<>> /\ formula = 1
    BY DEF IngestInit
  <2>3. Len(leads) = 0 /\ Len(origin) = 0
    BY <2>2, EmptySeq
  <2>4. leads \in Seq(LeadRow) /\ origin \in Seq(SUBSET Record)
    BY <2>2, EmptySeq
  <2>5. QED
    BY <2>1, <2>2, <2>3, <2>4 DEF IngestInv
<1>2. IngestInv /\ [IngestNext]_ingestVars => IngestInv'
  <2> SUFFICES ASSUME IngestInv, [IngestNext]_ingestVars
               PROVE  IngestInv'
    OBVIOUS
  <2>1. ASSUME NEW i \in Lead, MarkSurfaced(i) \/ SetLeadStatus(i)
        PROVE  IngestInv'
    BY <2>1, StatusInv DEF MarkSurfaced, SetLeadStatus
  <2>2. ASSUME NEW r \in Record, Republish(r)
        PROVE  IngestInv'
    BY <2>2 DEF Republish, IngestInv, RowOf
  <2>3. CASE Release
    <3>1. Len(Formula) \in Nat
      BY LeadIngestAssumption, LenProperties
    <3>2. QED
      BY <2>3, <3>1 DEF Release, IngestInv, RowOf
  <2>4. CASE UNCHANGED ingestVars
    BY <2>4 DEF ingestVars, IngestInv, RowOf
  <2>5. QED
    BY <2>1, <2>2, <2>3, <2>4, UpsertInv DEF IngestNext
<1>3. IngestInv => OneLeadPerRecord
  <2> SUFFICES ASSUME IngestInv PROVE OneLeadPerRecord
    OBVIOUS
  <2>1. Lead = 1..Len(leads)
    BY LenProperties DEF IngestInv, Lead
  <2>2. \A i \in Lead : \E r \in Record : origin[i] = {r}
    BY <2>1 DEF IngestInv, RowOf
  <2>3. \A i \in Lead : Cardinality(origin[i]) = 1
    BY <2>2, FS_Singleton
  <2>4. QED
    BY <2>1, <2>3 DEF IngestInv, OneLeadPerRecord
<1>4. QED
  BY <1>1, <1>2, <1>3, PTL DEF IngestSpec

---------------------------------------------------------------------------
(***************************************************************************)
(* Turns.                                                                  *)
(***************************************************************************)
Steps == {"idle", "wait", "think", "tools", "act", "answer", "apologize",
          "raised", "remember", "delivered", "undelivered"}

Loops == [round : Nat, blocks : Nat,
          cached : SUBSET ({"email_results", "fetch_url", "search_leads"}
                            \X (Arg \cup {None})),
          paid : Nat, sent : Nat]

\* A loop that mailed has the mail in its cache, and keeps to its pages.
LoopFits(p) ==
    /\ p.sent <= 1 /\ p.paid <= MaxFetches
    /\ p.sent > 0 => <<"email_results", None>> \in p.cached

TurnsInv ==
    /\ receipt \in [Message -> {"none", "processing", "complete",
                                "needs_reconciliation"}]
    /\ turns \in [Message -> Nat]
    /\ step \in [Listener -> Steps]
    /\ msg \in [Listener -> Message \cup {None}]
    /\ loop \in [Listener -> Loops]
    /\ \A l \in Listener : step[l] = "idle" <=> msg[l] = None
    \* one listener works on a message, and its receipt is taken
    /\ \A l, k \in Listener : msg[l] = msg[k] /\ msg[l] # None => l = k
    /\ \A l \in Listener : msg[l] # None => receipt[msg[l]] # "none"
    \* its turn starts once
    /\ \A m \in Message : turns[m] <= 1 /\ (receipt[m] = "none" => turns[m] = 0)
    /\ \A l \in Listener : step[l] = "wait" => turns[msg[l]] = 0
    /\ \A l \in Listener : LoopFits(loop[l])
    /\ swayed = {}
    \* who says that a message was answered has seen it answered
    /\ \A l \in Listener : step[l] \in {"remember", "delivered"} => msg[l] \in answered
    /\ \A m \in Message : receipt[m] = "complete" => m \in answered

LEMMA NoLoopFits == NoLoop \in Loops /\ LoopFits(NoLoop)
BY TurnsAssumption DEF NoLoop, Loops, LoopFits

\* A listener goes on with its turn.
LEMMA TurnGoesOn ==
    ASSUME TurnsInv, NEW l \in Listener, NEW s \in Steps \ {"idle", "wait"},
           NEW p \in Loops, LoopFits(p),
           step[l] # "idle",
           step' = [step EXCEPT ![l] = s],
           loop' = [loop EXCEPT ![l] = p],
           UNCHANGED <<receipt, msg, turns, swayed>>,
           answered \subseteq answered',
           s \in {"remember", "delivered"} => msg[l] \in answered'
    PROVE  TurnsInv'
<1>1. \A k \in Listener : LoopFits(loop'[k])
  BY DEF TurnsInv
<1>2. \A k \in Listener : LoopFits(loop[k])'
  BY <1>1
<1>3. /\ step' \in [Listener -> Steps] /\ loop' \in [Listener -> Loops]
      /\ \A k \in Listener : step'[k] = IF k = l THEN s ELSE step[k]
  BY DEF TurnsInv
<1>4. QED
  BY <1>2, <1>3 DEF TurnsInv

\* The same, with the loop as it was.
LEMMA TurnSteps ==
    ASSUME TurnsInv, NEW l \in Listener, NEW s \in Steps \ {"idle", "wait"},
           step[l] # "idle", Enter(l, s),
           UNCHANGED <<loop, receipt, msg, turns, swayed>>,
           answered \subseteq answered',
           s \in {"remember", "delivered"} => msg[l] \in answered'
    PROVE  TurnsInv'
<1>1. /\ loop[l] \in Loops /\ LoopFits(loop[l])
      /\ loop' = [loop EXCEPT ![l] = loop[l]]
  BY DEF TurnsInv
<1>2. QED
  BY <1>1, TurnGoesOn DEF Enter

LEMMA TurnLeaves ==
    ASSUME TurnsInv, NEW l \in Listener, NEW s \in {"act", "apologize"},
           step[l] # "idle", Leave(l, s),
           UNCHANGED <<receipt, msg, turns, swayed, answered>>
    PROVE  TurnsInv'
BY NoLoopFits, TurnGoesOn DEF Leave, Enter, Steps

\* A tool call: what is mailed is cached, and what is fetched is counted.
LEMMA RunToolInv ==
    ASSUME TurnsInv, NEW l \in Listener, NEW t \in Tool, RunTool(l, t)
    PROVE  TurnsInv'
<1> DEFINE p == loop[l]
           one(class) == IF Runs(l, t) /\ t \in class THEN 1 ELSE 0
           q == [p EXCEPT !.blocks = @ + 1, !.cached = @ \cup {CacheKey(t)},
                          !.paid = @ + one(Page), !.sent = @ + one(Mail)]
<1>1. p \in Loops /\ LoopFits(p) /\ step[l] \in Steps
  BY DEF TurnsInv
<1>2. CacheKey(t) \in {"email_results", "fetch_url", "search_leads"}
                         \X (Arg \cup {None})
  BY DEF Tool, Mail, Page, CacheKey
<1>3. one(Page) \in {0, 1} /\ one(Mail) \in {0, 1}
  OBVIOUS
<1>4. /\ one(Page) = 1 => p.paid < MaxFetches
      /\ one(Mail) = 1 => /\ CacheKey(t) = <<"email_results", None>>
                          /\ <<"email_results", None>> \notin p.cached
  BY DEF Runs, Page, Mail, CacheKey
<1> HIDE DEF one, p
<1>5. /\ q \in Loops /\ q.sent = p.sent + one(Mail)
      /\ q.paid = p.paid + one(Page) /\ q.cached = p.cached \cup {CacheKey(t)}
  <2> DEFINE Keys == {"email_results", "fetch_url", "search_leads"}
                     \X (Arg \cup {None})
  <2>1. /\ p \in [round : Nat, blocks : Nat, cached : SUBSET Keys, paid : Nat,
                  sent : Nat]
        /\ CacheKey(t) \in Keys
    BY <1>1, <1>2 DEF Loops
  <2> HIDE DEF Keys
  <2>2. /\ p.blocks + 1 \in Nat /\ p.cached \cup {CacheKey(t)} \in SUBSET Keys
        /\ p.paid + one(Page) \in Nat /\ p.sent + one(Mail) \in Nat
    BY <1>3, <2>1
  <2>3. q \in [round : Nat, blocks : Nat, cached : SUBSET Keys, paid : Nat,
               sent : Nat]
    BY <2>1, <2>2
  <2>4. QED
    BY <2>1, <2>3 DEF Loops, Keys
<1>6. LoopFits(q)
  <2>1. p.sent \in Nat /\ p.paid \in Nat
    BY <1>1 DEF Loops
  <2>2. q.paid <= MaxFetches
    BY <1>1, <1>3, <1>4, <1>5, <2>1, TurnsAssumption DEF LoopFits
  <2>3. CASE one(Mail) = 1
    BY <1>1, <1>4, <1>5, <2>1, <2>2, <2>3 DEF LoopFits
  <2>4. CASE one(Mail) = 0
    BY <1>1, <1>5, <2>1, <2>2, <2>4 DEF LoopFits
  <2>5. QED
    BY <1>3, <2>3, <2>4
<1>7. /\ step[l] = "tools" /\ step' = [step EXCEPT ![l] = "tools"]
      /\ UNCHANGED <<receipt, msg, turns, swayed, answered>>
  BY DEF RunTool, effects, TurnsInv
<1>8. loop' = [loop EXCEPT ![l] = q]
  BY DEF RunTool, one, p
<1> HIDE DEF q
<1>9. QED
  BY <1>5, <1>6, <1>7, <1>8, TurnGoesOn DEF Steps

\* Listeners drop what they held; a receipt says complete only for a message
\* that was answered.
LEMMA IdleInv ==
    ASSUME TurnsInv, NEW ls \in SUBSET Listener, Idle(ls),
           UNCHANGED <<turns, swayed, answered>>,
           receipt' \in [Message -> {"none", "processing", "complete",
                                    "needs_reconciliation"}],
           \A m \in Message : receipt'[m] # receipt[m] =>
               /\ receipt'[m] # "none" /\ receipt[m] # "none"
               /\ receipt'[m] = "complete" => m \in answered
    PROVE  TurnsInv'
<1>1. \A l \in Listener :
         /\ step'[l] = IF l \in ls THEN "idle" ELSE step[l]
         /\ msg'[l] = IF l \in ls THEN None ELSE msg[l]
         /\ loop'[l] = IF l \in ls THEN NoLoop ELSE loop[l]
  BY DEF Idle
<1>2. /\ step' \in [Listener -> Steps] /\ msg' \in [Listener -> Message \cup {None}]
      /\ loop' \in [Listener -> Loops]
  BY NoLoopFits DEF Idle, TurnsInv, Steps
<1>3. \A l \in Listener : LoopFits(loop'[l])
  BY <1>1, NoLoopFits DEF TurnsInv
<1>4. \A l \in Listener : LoopFits(loop[l])'
  BY <1>3
<1>5. \A m \in Message : /\ receipt'[m] = "none" <=> receipt[m] = "none"
                         /\ receipt'[m] = "complete" => m \in answered
  BY DEF TurnsInv
<1>6. \A l \in Listener : l \notin ls =>
         /\ step'[l] = step[l] /\ msg'[l] = msg[l]
         /\ msg[l] # None => msg[l] \in Message
  BY <1>1 DEF TurnsInv
<1>7. \A l \in Listener : l \in ls => step'[l] = "idle" /\ msg'[l] = None
  BY <1>1
<1>8. /\ \A l \in Listener : step'[l] = "idle" <=> msg'[l] = None
      /\ \A l, k \in Listener : msg'[l] = msg'[k] /\ msg'[l] # None => l = k
      /\ \A l \in Listener : msg'[l] # None => receipt'[msg'[l]] # "none"
      /\ \A l \in Listener : step'[l] = "wait" => turns'[msg'[l]] = 0
      /\ \A l \in Listener : step'[l] \in {"remember", "delivered"} =>
            msg'[l] \in answered'
  BY <1>5, <1>6, <1>7 DEF TurnsInv
<1>9. QED
  BY <1>2, <1>4, <1>5, <1>8 DEF TurnsInv

LEMMA DeliverInv ==
    ASSUME TurnsInv, NEW l \in Listener, NEW m \in Message, Deliver(l, m)
    PROVE  TurnsInv'
<1>1. /\ step[l] = "idle" /\ receipt[m] = "none" /\ m # None
      /\ receipt' = [receipt EXCEPT ![m] = "processing"]
      /\ msg' = [msg EXCEPT ![l] = m] /\ step' = [step EXCEPT ![l] = "wait"]
      /\ UNCHANGED <<loop, turns, swayed, answered>>
  BY TurnsAssumption DEF Deliver, Unclaimed, Enter, effects
<1>2. \A k \in Listener : msg[k] # m
  BY <1>1 DEF TurnsInv
<1>3. /\ receipt' \in [Message -> {"none", "processing", "complete",
                                   "needs_reconciliation"}]
      /\ msg' \in [Listener -> Message \cup {None}] /\ step' \in [Listener -> Steps]
  BY <1>1 DEF TurnsInv, Steps
<1>4. \A k \in Listener : LoopFits(loop[k])'
  BY <1>1 DEF TurnsInv
<1>5. \A k \in Listener :
         /\ step'[k] = IF k = l THEN "wait" ELSE step[k]
         /\ msg'[k] = IF k = l THEN m ELSE msg[k]
  BY <1>1 DEF TurnsInv
<1>6. \A n \in Message : receipt'[n] = IF n = m THEN "processing" ELSE receipt[n]
  BY <1>1 DEF TurnsInv
<1>7. turns[m] = 0
  BY <1>1 DEF TurnsInv
<1>8. /\ \A k \in Listener : step'[k] = "idle" <=> msg'[k] = None
      /\ \A j, k \in Listener : msg'[j] = msg'[k] /\ msg'[j] # None => j = k
      /\ \A k \in Listener : msg'[k] # None => receipt'[msg'[k]] # "none"
      /\ \A k \in Listener : step'[k] = "wait" => turns'[msg'[k]] = 0
      /\ \A k \in Listener : step'[k] \in {"remember", "delivered"} =>
            msg'[k] \in answered'
  BY <1>1, <1>2, <1>5, <1>6, <1>7 DEF TurnsInv
<1>9. /\ \A n \in Message : turns'[n] <= 1 /\ (receipt'[n] = "none" => turns'[n] = 0)
      /\ \A n \in Message : receipt'[n] = "complete" => n \in answered'
  BY <1>1, <1>6 DEF TurnsInv
<1>10. QED
  BY <1>1, <1>3, <1>4, <1>8, <1>9 DEF TurnsInv

LEMMA BeginInv ==
    ASSUME TurnsInv, NEW l \in Listener, Begin(l)
    PROVE  TurnsInv'
<1>1. /\ step[l] = "wait" /\ step' = [step EXCEPT ![l] = "think"]
      /\ turns' = [turns EXCEPT ![msg[l]] = @ + 1]
      /\ UNCHANGED <<receipt, msg, loop, swayed, answered>>
  BY DEF Begin, Enter
<1>2. msg[l] \in Message /\ turns[msg[l]] = 0 /\ receipt[msg[l]] # "none"
  BY <1>1 DEF TurnsInv
<1>3. /\ turns' \in [Message -> Nat]
      /\ \A m \in Message : turns'[m] = IF m = msg[l] THEN 1 ELSE turns[m]
  BY <1>1, <1>2 DEF TurnsInv
<1>4. /\ step' \in [Listener -> Steps]
      /\ \A k \in Listener : step'[k] = IF k = l THEN "think" ELSE step[k]
  BY <1>1 DEF TurnsInv, Steps
<1>5. \A k \in Listener : LoopFits(loop[k])'
  BY <1>1 DEF TurnsInv
<1>6. \A m \in Message : turns'[m] <= 1 /\ (receipt'[m] = "none" => turns'[m] = 0)
  BY <1>1, <1>2, <1>3 DEF TurnsInv
<1>7. \A k \in Listener : step'[k] = "wait" => turns'[msg'[k]] = 0
  <2>1. ASSUME NEW k \in Listener, step'[k] = "wait"
        PROVE  msg[k] \in Message /\ msg[k] # msg[l] /\ turns[msg[k]] = 0
    BY <1>1, <1>2, <1>4, <2>1, TurnsAssumption DEF TurnsInv
  <2>2. QED
    BY <1>1, <1>3, <2>1
<1>8. /\ \A k \in Listener : step'[k] = "idle" <=> msg'[k] = None
      /\ \A k \in Listener : step'[k] \in {"remember", "delivered"} =>
            msg'[k] \in answered'
  BY <1>1, <1>4 DEF TurnsInv
<1>9. QED
  BY <1>1, <1>3, <1>4, <1>5, <1>6, <1>7, <1>8 DEF TurnsInv

LEMMA ListenerInv ==
    ASSUME TurnsInv, NEW l \in Listener,
           \/ Think(l) \/ AskScope(l) \/ ToolsDone(l)
           \/ \E t \in Tool : ToolRaises(l, t)
           \/ ActOnLead(l) \/ ActInGeneral(l)
           \/ Finalize(l) \/ Remember(l) \/ Unlock(l) \/ Finish(l)
    PROVE  TurnsInv'
<1> USE DEF turn, effects
<1>1. CASE Think(l)
  <2>1. CASE Leave(l, "act") \/ Leave(l, "apologize")
    BY <1>1, <2>1, TurnLeaves DEF Think
  <2>2. ASSUME NEW p \in Loops, loop' = [loop EXCEPT ![l] = p],
               p.sent = loop[l].sent, p.paid = loop[l].paid,
               p.cached = loop[l].cached,
               NEW s \in {"think", "tools"}, step' = [step EXCEPT ![l] = s]
        PROVE  TurnsInv'
    <3>1. LoopFits(p)
      BY <2>2 DEF LoopFits, TurnsInv
    <3>2. QED
      BY <1>1, <2>2, <3>1, TurnGoesOn DEF Think, Steps
  <2>3. loop[l] \in Loops /\ step[l] = "think" /\ step \in [Listener -> Steps]
    BY <1>1 DEF Think, TurnsInv
  <2>4. CASE Enter(l, "tools") /\ loop' = [loop EXCEPT ![l].blocks = 0]
    <3> DEFINE p == [loop[l] EXCEPT !.blocks = 0]
    <3>1. /\ p \in Loops /\ p.sent = loop[l].sent /\ p.paid = loop[l].paid
          /\ p.cached = loop[l].cached
      BY <2>3 DEF Loops
    <3>2. loop' = [loop EXCEPT ![l] = p]
      BY <2>4
    <3> HIDE DEF p
    <3>3. QED
      BY <2>2, <2>4, <3>1, <3>2 DEF Enter
  <2>5. CASE loop' = [loop EXCEPT ![l].round = @ + 1] /\ UNCHANGED step
    <3> DEFINE p == [loop[l] EXCEPT !.round = @ + 1]
    <3>1. /\ p \in Loops /\ p.sent = loop[l].sent /\ p.paid = loop[l].paid
          /\ p.cached = loop[l].cached
      BY <2>3 DEF Loops
    <3>2. loop' = [loop EXCEPT ![l] = p] /\ step' = [step EXCEPT ![l] = "think"]
      BY <2>3, <2>5
    <3> HIDE DEF p
    <3>3. QED
      BY <2>2, <3>1, <3>2
  <2>6. QED
    BY <1>1, <2>1, <2>4, <2>5 DEF Think
<1>2. CASE AskScope(l) \/ \E t \in Tool : ToolRaises(l, t)
  BY <1>2, TurnLeaves DEF AskScope, ToolRaises
<1>3. CASE ToolsDone(l)
  <2>1. CASE StopAfter(l)
    BY <1>3, <2>1, TurnLeaves DEF ToolsDone
  <2>2. CASE ~StopAfter(l)
    <3> DEFINE p == [loop[l] EXCEPT !.round = @ + 1]
    <3>1. loop[l] \in Loops /\ LoopFits(loop[l]) /\ step[l] = "tools"
      BY <1>3 DEF ToolsDone, TurnsInv
    <3>2. /\ p \in Loops /\ p.sent = loop[l].sent /\ p.paid = loop[l].paid
          /\ p.cached = loop[l].cached
      BY <3>1 DEF Loops
    <3>3. loop' = [loop EXCEPT ![l] = p] /\ step' = [step EXCEPT ![l] = "think"]
          /\ UNCHANGED <<receipt, msg, turns, answered>> /\ swayed' = swayed
      BY <1>3, <2>2 DEF ToolsDone, Enter, StopAfter
    <3> HIDE DEF p
    <3>4. LoopFits(p)
      BY <3>1, <3>2 DEF LoopFits
    <3>5. QED
      BY <3>1, <3>2, <3>3, <3>4, TurnGoesOn DEF Steps
  <2>3. QED
    BY <2>1, <2>2
<1>4. CASE ActOnLead(l) \/ ActInGeneral(l)
  BY <1>4, TurnSteps DEF ActOnLead, ActInGeneral, Steps
<1>5. CASE Finalize(l)
  <2>1. /\ step[l] \in {"answer", "apologize"}
        /\ UNCHANGED <<loop, receipt, msg, turns, swayed>>
    BY <1>5 DEF Finalize
  <2>2. CASE answered' = answered \cup {msg[l]}
             /\ Enter(l, IF step[l] = "answer" THEN "remember" ELSE "delivered")
    BY <2>1, <2>2, TurnSteps DEF Steps
  <2>3. CASE Enter(l, "undelivered") /\ UNCHANGED answered
    BY <2>1, <2>3, TurnSteps DEF Steps
  <2>4. QED
    BY <1>5, <2>2, <2>3 DEF Finalize
<1>6. CASE Remember(l)
  <2>1. step[l] = "remember" /\ msg[l] \in answered
    BY <1>6 DEF Remember, TurnsInv
  <2>2. QED
    BY <1>6, <2>1, TurnSteps DEF Remember, Steps
<1>7. CASE Unlock(l)
  <2>1. UNCHANGED <<receipt, turns, step, msg, loop, swayed, answered>>
    BY <1>7 DEF Unlock
  <2>2. QED
    BY <2>1 DEF TurnsInv, LoopFits
<1>8. CASE Finish(l)
  <2>1. /\ Idle({l}) /\ receipt' = [receipt EXCEPT ![msg[l]] = Outcome(l)]
        /\ UNCHANGED <<turns, swayed, answered>>
        /\ step[l] \in {"delivered", "undelivered", "raised"}
    BY <1>8 DEF Finish
  <2>2. msg[l] \in Message /\ receipt[msg[l]] # "none"
    BY <2>1 DEF TurnsInv
  <2>3. /\ Outcome(l) \in {"complete", "needs_reconciliation"}
        /\ Outcome(l) = "complete" => msg[l] \in answered
    BY <2>1 DEF Outcome, TurnsInv
  <2>4. /\ receipt' \in [Message -> {"none", "processing", "complete",
                                     "needs_reconciliation"}]
        /\ \A m \in Message :
              receipt'[m] = IF m = msg[l] THEN Outcome(l) ELSE receipt[m]
    BY <2>1, <2>2, <2>3 DEF TurnsInv
  <2>5. \A m \in Message : receipt'[m] # receipt[m] =>
           /\ receipt'[m] # "none" /\ receipt[m] # "none"
           /\ receipt'[m] = "complete" => m \in answered
    BY <2>2, <2>3, <2>4
  <2>6. {l} \in SUBSET Listener
    OBVIOUS
  <2>7. QED
    BY <2>1, <2>4, <2>5, <2>6, IdleInv
<1>9. QED
  BY <1>1, <1>2, <1>3, <1>4, <1>5, <1>6, <1>7, <1>8

THEOREM TurnsCorrect == TurnsSpec => []TurnsInv
<1> USE DEF turn, effects
<1>1. TurnsInit => TurnsInv
  BY NoLoopFits DEF TurnsInit, TurnsInv, Steps
<1>2. TurnsInv /\ [TurnsNext]_turnsVars => TurnsInv'
  <2> SUFFICES ASSUME TurnsInv, [TurnsNext]_turnsVars
               PROVE  TurnsInv'
    OBVIOUS
  <2>1. CASE Restart
    <3>1. CASE Idle(Listener)
      <4>1. UNCHANGED <<receipt, turns, swayed, answered>>
        BY <2>1 DEF Restart
      <4>2. Listener \in SUBSET Listener /\ receipt' \in
               [Message -> {"none", "processing", "complete",
                            "needs_reconciliation"}]
        BY <4>1 DEF TurnsInv
      <4>3. QED
        BY <3>1, <4>1, <4>2, IdleInv
    <3>2. CASE UNCHANGED <<turn, lock>>
      <4>1. UNCHANGED <<receipt, turns, step, msg, loop, swayed, answered>>
        BY <2>1, <3>2 DEF Restart
      <4>2. QED
        BY <4>1 DEF TurnsInv, LoopFits
    <3>3. QED
      BY <2>1, <3>1, <3>2 DEF Restart
  <2>2. CASE \/ \E m \in Message : GrowOld(m) \/ Inspect(m) \/ Review(m)
             \/ Mend \/ MarkReviewed \/ UNCHANGED turnsVars
    <3>1. UNCHANGED <<receipt, turns, step, msg, loop, swayed, answered>>
      BY <2>2 DEF GrowOld, Inspect, Review, Mend, MarkReviewed, turnsVars
    <3>2. QED
      BY <3>1 DEF TurnsInv, LoopFits
  <2>3. QED
    BY <2>1, <2>2, DeliverInv, BeginInv, RunToolInv, ListenerInv DEF TurnsNext
<1>3. QED
  BY <1>1, <1>2, PTL DEF TurnsSpec

(***************************************************************************)
(* Whatever Slack delivers again and whenever the process dies, a message  *)
(* starts one turn, a turn sends one mail and buys no more pages than its  *)
(* budget, and a model that read a stranger's page has no tools left.      *)
(***************************************************************************)
THEOREM ActedOnOnce == TurnsSpec => []WordsActOnce
<1>1. TurnsInv => WordsActOnce
  BY DEF TurnsInv, LoopFits, WordsActOnce
<1>2. QED
  BY <1>1, TurnsCorrect, PTL

(***************************************************************************)
(* A message that no listener works on any more was answered, or its       *)
(* receipt still says that it was not.                                     *)
(***************************************************************************)
THEOREM NoSilence == TurnsSpec => []NoSilentEnd
<1>1. TurnsInv => NoSilentEnd
  BY DEF TurnsInv, NoSilentEnd
<1>2. QED
  BY <1>1, TurnsCorrect, PTL

---------------------------------------------------------------------------
(***************************************************************************)
(* Card clicks and Persequor outreach.                                     *)
(***************************************************************************)
Status == {"none", "queued", "sending", "submitted", "rejected", "failed"}
RowType == [status : Status, attempts : 0..MaxAttempts, due : BOOLEAN]

---------------------------------------------------------------------------
(***************************************************************************)
(* A request and who is at it.  A process in flight holds a row that says  *)
(* so, unless a worker rejected it as expired meanwhile, and knows its     *)
(* attempts; and who read a row with no attempts left can never claim it.  *)
(***************************************************************************)
InFlight(p) == pc[p] \in {"post", "posted"}

RequestsSound == \A r \in Rep :
    /\ outreach[r].status = "none" => outreach[r] = NoRequest
    /\ outreach[r].status = "queued" => outreach[r].attempts < MaxAttempts

FlightSound == \A p \in Proc : InFlight(p) =>
    /\ outreach[rep[p]].status \in {"sending", "rejected"}
    /\ outreach[rep[p]].attempts = tried[p]

Spent == \A p \in Proc : pc[p] = "claim" /\ tried[p] = MaxAttempts =>
    /\ outreach[rep[p]].status # "queued"
    /\ \A q \in Proc : InFlight(q) /\ rep[q] = rep[p] => tried[q] = MaxAttempts

Saved == \A p \in Proc :
    pc[p] \in {"saved", "claim", "post", "posted"} => outreach[rep[p]].status # "none"

OutreachAnswered == \A p \in Proc : pc[p] \in {"posted", "reply"} => answer[p] # "none"

FlightInv == RequestsSound /\ FlightSound /\ Spent /\ Saved /\ SingleFlight /\ OutreachAnswered

---------------------------------------------------------------------------
LEMMA EndTypes ==
    ASSUME TypeOK, NEW p \in Proc, End(p)
    PROVE  /\ pc' \in [Proc -> {"idle", "look", "insert", "persist", "saved",
                               "claim", "post", "posted", "reply"}]
           /\ rep' \in [Proc -> Rep \cup {NoRep}]
           /\ \A q \in Proc : pc'[q] # "idle" => rep'[q] \in Rep
           /\ tried' \in [Proc -> 0..MaxAttempts]
           /\ stale' \in [Proc -> BOOLEAN]
           /\ answer' \in [Proc -> {"none", "ok", "later", "no"}]
BY OutreachAssumption DEF TypeOK, End, Goto

LEMMA InitTypes == Init => TypeOK
<1> SUFFICES ASSUME Init PROVE TypeOK
  OBVIOUS
<1>1. NoRequest \in RowType
  BY OutreachAssumption DEF NoRequest, RowType, Status
<1>2. outreach \in [Rep -> RowType]
  BY <1>1 DEF Init
<1>4. action \in [by : Rep \cup {NoRep},
                  state : {"none", "requested", "accepted", "rejected"}]
  BY DEF Init, NoAction
<1>5. /\ tried \in [Proc -> 0..MaxAttempts] /\ crashes \in 0..MaxCrashes
      /\ pc \in [Proc -> {"idle", "look", "insert", "persist", "saved", "claim",
                          "post", "posted", "reply"}]
      /\ rep \in [Proc -> Rep \cup {NoRep}]
      /\ stale \in [Proc -> BOOLEAN]
      /\ answer \in [Proc -> {"none", "ok", "later", "no"}]
  BY OutreachAssumption DEF Init
<1>6. /\ expired \in BOOLEAN /\ accepted \subseteq Rep
      /\ asked \subseteq Rep /\ acked \subseteq Rep
      /\ \A p \in Proc : pc[p] # "idle" => rep[p] \in Rep
  BY DEF Init
<1>3. QED
  BY <1>2, <1>4, <1>5, <1>6 DEF TypeOK, RowType, Status

LEMMA InitFlight == Init => FlightInv
BY OutreachAssumption
DEF Init, FlightInv, RequestsSound, FlightSound, Spent, Saved, SingleFlight,
    OutreachAnswered, InFlight, NoRequest

LEMMA RowTyped ==
    ASSUME TypeOK, NEW r \in Rep, NEW s \in Status, NEW d \in BOOLEAN, SetRow(r, s, d)
    PROVE  outreach' \in [Rep -> RowType]
<1>1. outreach \in [Rep -> RowType]
  BY DEF TypeOK, RowType, Status
<1>2. [status |-> s, attempts |-> outreach[r].attempts, due |-> d] \in RowType
  BY <1>1 DEF RowType
<1>3. QED
  BY <1>1, <1>2 DEF SetRow

LEMMA HandlerTypes ==
    ASSUME TypeOK, FlightInv, NEW h \in Handler,
           \/ \E r \in Rep : Click(h, r)
           \/ FirstClick(h) \/ ClickRefused(h) \/ ClickAgain(h)
           \/ InsertAction(h) \/ Persist(h) \/ PersistIgnored(h) \/ ReadSaved(h)
    PROVE  TypeOK'
<1> USE DEF row, history, Proc
<1>1. ASSUME NEW r \in Rep, Click(h, r)
      PROVE  TypeOK'
  BY <1>1 DEF TypeOK, Click, Goto
<1>2. CASE FirstClick(h) \/ ClickAgain(h)
  BY <1>2 DEF TypeOK, FirstClick, ClickAgain, Goto
<1>3. CASE ClickRefused(h)
  BY <1>3, EndTypes DEF TypeOK, ClickRefused
<1>4. CASE InsertAction(h)
  <2>1. CASE End(h) /\ UNCHANGED action
    BY <1>4, <2>1, EndTypes DEF TypeOK, InsertAction
  <2>2. CASE action' = [by |-> rep[h], state |-> "requested"] /\ ~End(h)
    <3>1. rep[h] \in Rep
      BY <1>4 DEF TypeOK, InsertAction
    <3>2. QED
      BY <1>4, <2>2, <3>1 DEF TypeOK, InsertAction, Goto
  <2>3. CASE action = NoAction
    <3>1. rep[h] \in Rep
      BY <1>4 DEF TypeOK, InsertAction
    <3>2. QED
      BY <1>4, <2>3, <3>1 DEF TypeOK, InsertAction, Goto
  <2>4. QED
    BY <1>4, <2>1, <2>3 DEF InsertAction
<1>5. CASE Persist(h)
  <2>1. [status |-> "queued", attempts |-> 0, due |-> TRUE] \in RowType
    BY OutreachAssumption DEF RowType, Status
  <2>2. outreach' \in [Rep -> RowType]
    BY <1>5, <2>1 DEF TypeOK, Persist, RowType, Status
  <2>3. QED
    BY <1>5, <2>2 DEF TypeOK, Persist, Goto, RowType, Status
<1>6. CASE PersistIgnored(h)
  <2>1. rep[h] \in Rep /\ pc[h] = "persist"
    BY <1>6 DEF TypeOK, PersistIgnored
  <2>2. outreach[rep[h]].status \in Status \ {"none"}
    BY <1>6, <2>1 DEF TypeOK, FlightInv, RequestsSound, PersistIgnored, Status
  <2>3. answer' \in [Proc -> {"none", "ok", "later", "no"}]
    BY <1>6, <2>2 DEF TypeOK, PersistIgnored, Reply, Status
  <2>4. QED
    BY <1>6, <2>1, <2>3 DEF TypeOK, PersistIgnored, Reply, Goto
<1>7. CASE ReadSaved(h)
  <2>1. rep[h] \in Rep /\ outreach[rep[h]].attempts \in 0..MaxAttempts
    BY <1>7 DEF TypeOK, ReadSaved
  <2>2. QED
    BY <1>7, <2>1 DEF TypeOK, ReadSaved, Reply, Goto
<1>8. QED
  BY <1>1, <1>2, <1>3, <1>4, <1>5, <1>6, <1>7

LEMMA ProcTypes ==
    ASSUME TypeOK, FlightInv, NEW p \in Proc,
           \/ \E r \in Rep : PickUp(p, r)
           \/ RejectExpired(p) \/ ClaimRow(p) \/ ClaimLost(p) \/ Post(p)
           \/ RecordAnswer(p) \/ Mirror(p) \/ Crash(p)
    PROVE  TypeOK'
<1> USE DEF row, history
<1>1. ASSUME NEW r \in Rep, PickUp(p, r)
      PROVE  TypeOK'
  BY <1>1 DEF TypeOK, PickUp, Goto
<1>2. CASE RejectExpired(p)
  <2>0. rep[p] \in Rep
    BY <1>2 DEF TypeOK, RejectExpired
  <2>1. outreach' \in [Rep -> RowType]
    BY <1>2, <2>0, RowTyped DEF RejectExpired, Status
  <2>2. QED
    BY <1>2, <2>1 DEF TypeOK, RejectExpired, Reply, Goto, RowType, Status
<1>3. CASE ClaimRow(p)
  <2>0. rep[p] \in Rep /\ tried[p] \in 0..MaxAttempts
    BY <1>3 DEF TypeOK, ClaimRow
  <2>5. tried[p] # MaxAttempts
    BY <1>3 DEF ClaimRow, FlightInv, Spent
  <2>1. rep[p] \in Rep /\ tried[p] + 1 \in 0..MaxAttempts
    BY <2>0, <2>5, OutreachAssumption
  <2>2. [status |-> "sending", attempts |-> tried[p] + 1, due |-> FALSE] \in RowType
    BY <2>1 DEF RowType, Status
  <2>3. outreach' \in [Rep -> RowType]
    BY <1>3, <2>1, <2>2 DEF TypeOK, ClaimRow, RowType, Status
  <2>4. QED
    BY <1>3, <2>1, <2>3 DEF TypeOK, ClaimRow, Goto, RowType, Status
<1>4. CASE ClaimLost(p)
  BY <1>4 DEF TypeOK, ClaimLost, Reply, Goto
<1>5. CASE Post(p)
  BY <1>5 DEF TypeOK, Post, Goto
<1>6. CASE RecordAnswer(p)
  <2>1. rep[p] \in Rep
    BY <1>6 DEF TypeOK, RecordAnswer
  <2>2. PICK s \in Status :
           /\ SetRow(rep[p], s, FALSE)
           /\ acked' = IF s = "submitted" THEN acked \cup {rep[p]} ELSE acked
    BY <1>6 DEF TypeOK, FlightInv, OutreachAnswered, RecordAnswer, AfterRetryable, Status
  <2>4. outreach' \in [Rep -> RowType]
    BY <2>1, <2>2, RowTyped
  <2>5. acked' \subseteq Rep
    BY <2>1, <2>2 DEF TypeOK
  <2>3. QED
    BY <1>6, <2>1, <2>4, <2>5 DEF TypeOK, RecordAnswer, Goto, RowType, Status
<1>7. CASE Mirror(p)
  <2>1. action' \in [by : Rep \cup {NoRep},
                     state : {"none", "requested", "accepted", "rejected"}]
    <3>1. answer[p] \in {"ok", "later", "no"}
      BY <1>7 DEF TypeOK, FlightInv, OutreachAnswered, Mirror
    <3>2. QED
      BY <1>7, <3>1 DEF TypeOK, Mirror
  <2>2. QED
    BY <1>7, <2>1, EndTypes DEF TypeOK, Mirror
<1>8. CASE Crash(p)
  <2>1. crashes' \in 0..MaxCrashes
    BY <1>8, OutreachAssumption DEF TypeOK, Crash
  <2>2. QED
    BY <1>8, <2>1, EndTypes DEF TypeOK, Crash
<1>9. QED
  BY <1>1, <1>2, <1>3, <1>4, <1>5, <1>6, <1>7, <1>8

---------------------------------------------------------------------------
(***************************************************************************)
(* A step that leaves every row alone and takes its process out of the     *)
(* submission, or keeps it out, disturbs nothing.                          *)
(***************************************************************************)
OthersKeep(p) == \A q \in Proc \ {p} :
    /\ pc'[q] = pc[q] /\ rep'[q] = rep[q]
    /\ tried'[q] = tried[q] /\ answer'[q] = answer[q]

StaysOut(p) ==
    /\ pc'[p] \in {"idle", "look", "insert", "persist", "reply"}
    /\ pc'[p] = "reply" => answer'[p] # "none"

LEMMA OutsideStep ==
    ASSUME TypeOK, FlightInv, NEW p \in Proc, UNCHANGED outreach,
           OthersKeep(p), StaysOut(p)
    PROVE  FlightInv'
<1>1. \A q \in Proc : InFlight(q)' => q # p /\ InFlight(q)
  BY DEF OthersKeep, StaysOut, InFlight
<1>2. RequestsSound' /\ FlightSound'
  BY <1>1 DEF FlightInv, RequestsSound, FlightSound, OthersKeep
<1>3. Spent' /\ Saved' /\ OutreachAnswered'
  BY <1>1 DEF FlightInv, Spent, Saved, OutreachAnswered, OthersKeep, StaysOut
<1>4. SingleFlight'
  BY <1>1 DEF FlightInv, SingleFlight, InFlight, OthersKeep
<1>5. QED
  BY <1>2, <1>3, <1>4 DEF FlightInv

LEMMA EndsOut ==
    ASSUME TypeOK, NEW p \in Proc, End(p)
    PROVE  OthersKeep(p) /\ StaysOut(p)
BY DEF TypeOK, End, Goto, OthersKeep, StaysOut

LEMMA RepliesOut ==
    ASSUME TypeOK, NEW p \in Proc, NEW a \in {"ok", "later", "no"}, Reply(p, a),
           UNCHANGED <<rep, tried>>
    PROVE  OthersKeep(p) /\ StaysOut(p)
BY DEF TypeOK, Reply, Goto, OthersKeep, StaysOut

Outside(p) ==
    \/ \E r \in Rep : p \in Handler /\ Click(p, r)
    \/ p \in Handler /\ (FirstClick(p) \/ ClickRefused(p) \/ ClickAgain(p)
                            \/ InsertAction(p) \/ PersistIgnored(p))
    \/ ClaimLost(p) \/ Mirror(p) \/ Crash(p)

LEMMA OutsideSteps ==
    ASSUME TypeOK, FlightInv, NEW p \in Proc, Outside(p)
    PROVE  UNCHANGED outreach /\ OthersKeep(p) /\ StaysOut(p)
<1> USE DEF row
<1>1. ASSUME NEW r \in Rep, Click(p, r)
      PROVE  UNCHANGED outreach /\ OthersKeep(p) /\ StaysOut(p)
  BY <1>1 DEF TypeOK, Click, Goto, OthersKeep, StaysOut
<1>2. CASE FirstClick(p) \/ ClickAgain(p)
  BY <1>2 DEF TypeOK, FirstClick, ClickAgain, Goto, OthersKeep, StaysOut
<1>3. CASE ClickRefused(p) \/ Mirror(p) \/ Crash(p)
  BY <1>3, EndsOut DEF ClickRefused, Mirror, Crash
<1>4. CASE InsertAction(p)
  <2>1. CASE End(p)
    BY <1>4, <2>1, EndsOut DEF InsertAction
  <2>2. CASE Goto(p, "persist") /\ UNCHANGED <<rep, tried, stale, answer>>
    BY <1>4, <2>2 DEF TypeOK, InsertAction, Goto, OthersKeep, StaysOut
  <2>3. QED
    BY <1>4, <2>1, <2>2 DEF InsertAction
<1>5. CASE PersistIgnored(p)
  <2>1. rep[p] \in Rep /\ pc[p] = "persist"
    BY <1>5 DEF TypeOK, PersistIgnored
  <2>2. outreach[rep[p]].status \in Status \ {"none"}
    BY <1>5, <2>1 DEF TypeOK, FlightInv, RequestsSound, PersistIgnored, Status
  <2>3. \E a \in {"ok", "later", "no"} : Reply(p, a)
    BY <1>5, <2>2 DEF PersistIgnored, Status
  <2>4. QED
    BY <1>5, <2>3, RepliesOut DEF PersistIgnored
<1>6. CASE ClaimLost(p)
  BY <1>6, RepliesOut DEF ClaimLost
<1>7. QED
  BY <1>1, <1>2, <1>3, <1>4, <1>5, <1>6 DEF Outside

---------------------------------------------------------------------------
(***************************************************************************)
(* The steps that enter, leave or write during a submission.               *)
(***************************************************************************)
LEMMA PersistFlight ==
    ASSUME TypeOK, FlightInv, NEW h \in Handler, Persist(h)
    PROVE  FlightInv'
<1> DEFINE r == rep[h]
<1>1. /\ r \in Rep /\ h \in Proc /\ outreach[r].status = "none"
      /\ outreach'[r].status = "queued" /\ outreach'[r].attempts = 0
      /\ \A o \in Rep \ {r} : outreach'[o] = outreach[o]
      /\ \A q \in Proc \ {h} : pc'[q] = pc[q]
      /\ pc'[h] = "saved" /\ UNCHANGED <<rep, tried, answer>>
  BY DEF TypeOK, Persist, Goto, NoRequest, Proc
<1> HIDE DEF r
<1>2. \A q \in Proc : InFlight(q)' => q # h /\ InFlight(q) /\ rep[q] # r
  BY <1>1 DEF FlightInv, FlightSound, InFlight
<1>3. \A q \in Proc : pc'[q] = "claim" => q # h /\ pc[q] = "claim" /\ rep[q] # r
  BY <1>1 DEF FlightInv, Saved
<1>4. RequestsSound'
  BY <1>1, OutreachAssumption DEF FlightInv, RequestsSound
<1>5. FlightSound'
  BY <1>1, <1>2 DEF FlightInv, FlightSound, TypeOK, InFlight
<1>6. Spent'
  BY <1>1, <1>2, <1>3 DEF FlightInv, Spent, TypeOK
<1>7. Saved'
  BY <1>1 DEF FlightInv, Saved, TypeOK, r
<1>8. SingleFlight' /\ OutreachAnswered'
  BY <1>1 DEF FlightInv, SingleFlight, OutreachAnswered
<1>9. QED
  BY <1>4, <1>5, <1>6, <1>7, <1>8 DEF FlightInv

\* A process that comes to "claim" read its attempts together with the row.
LEMMA ComesToClaim ==
    ASSUME TypeOK, FlightInv, NEW p \in Proc, NEW r \in Rep,
           UNCHANGED <<outreach, answer>>,
           \A q \in Proc \ {p} : pc'[q] = pc[q] /\ rep'[q] = rep[q]
                                  /\ tried'[q] = tried[q],
           pc'[p] = "claim", rep'[p] = r, tried'[p] = outreach[r].attempts,
           outreach[r].status # "none"
    PROVE  FlightInv'
<1>1. \A q \in Proc : InFlight(q)' =>
          q # p /\ InFlight(q) /\ rep'[q] = rep[q] /\ tried'[q] = tried[q]
  BY DEF InFlight
<1>2. RequestsSound' /\ FlightSound'
  BY <1>1 DEF FlightInv, RequestsSound, FlightSound
<1>3. ASSUME NEW q \in Proc, pc'[q] = "claim", tried'[q] = MaxAttempts
      PROVE  /\ outreach'[rep'[q]].status # "queued"
             /\ \A o \in Proc : InFlight(o)' /\ rep'[o] = rep'[q] =>
                    tried'[o] = MaxAttempts
  <2>1. CASE q = p
    <3>1. outreach[r].attempts = MaxAttempts
      BY <1>3, <2>1
    <3>2. outreach[r].status # "queued"
      BY <3>1, OutreachAssumption DEF FlightInv, RequestsSound
    <3>3. QED
      BY <1>1, <2>1, <3>1, <3>2 DEF FlightInv, FlightSound
  <2>2. CASE q # p
    BY <1>1, <1>3, <2>2 DEF FlightInv, Spent
  <2>3. QED
    BY <2>1, <2>2
<1>4. Spent'
  BY <1>3 DEF Spent, InFlight
<1>5. Saved' /\ OutreachAnswered'
  BY DEF FlightInv, Saved, OutreachAnswered
<1>6. SingleFlight'
  BY <1>1 DEF FlightInv, SingleFlight, InFlight
<1>7. QED
  BY <1>2, <1>4, <1>5, <1>6 DEF FlightInv

LEMMA ReadSavedFlight ==
    ASSUME TypeOK, FlightInv, NEW h \in Handler, ReadSaved(h)
    PROVE  FlightInv'
<1>1. h \in Proc /\ rep[h] \in Rep /\ outreach[rep[h]].status # "none"
      /\ UNCHANGED <<outreach, rep>>
  BY DEF TypeOK, FlightInv, Saved, ReadSaved, Proc, row
<1>2. CASE UNCHANGED tried
    /\ \E a \in {"ok", "no"} : Reply(h, a)
  BY <1>1, <1>2, RepliesOut, OutsideStep
<1>3. CASE tried' = [tried EXCEPT ![h] = outreach[rep[h]].attempts]
             /\ Goto(h, "claim") /\ UNCHANGED answer
  <2>1. /\ pc'[h] = "claim" /\ tried'[h] = outreach[rep[h]].attempts
        /\ \A q \in Proc \ {h} : pc'[q] = pc[q] /\ tried'[q] = tried[q]
    BY <1>1, <1>3 DEF TypeOK, Goto
  <2>2. QED
    BY <1>1, <1>3, <2>1, ComesToClaim
<1>4. QED
  BY <1>2, <1>3 DEF ReadSaved

LEMMA PickUpFlight ==
    ASSUME TypeOK, FlightInv, NEW k \in Worker, NEW r \in Rep, PickUp(k, r)
    PROVE  FlightInv'
<1>1. /\ pc'[k] = "claim" /\ rep'[k] = r /\ tried'[k] = outreach[r].attempts
      /\ \A q \in Proc \ {k} : pc'[q] = pc[q] /\ rep'[q] = rep[q]
                                 /\ tried'[q] = tried[q]
      /\ outreach[r].status # "none" /\ UNCHANGED <<outreach, answer>>
      /\ k \in Proc
  BY DEF TypeOK, PickUp, Goto, Proc, row
<1>2. QED
  BY <1>1, ComesToClaim

LEMMA RejectFlight ==
    ASSUME TypeOK, FlightInv, NEW p \in Proc, RejectExpired(p)
    PROVE  FlightInv'
<1> DEFINE r == rep[p]
<1>1. /\ r \in Rep /\ pc[p] = "claim" /\ outreach'[r].status = "rejected"
      /\ outreach'[r].attempts = outreach[r].attempts
      /\ \A o \in Rep \ {r} : outreach'[o] = outreach[o]
      /\ \A q \in Proc \ {p} : pc'[q] = pc[q] /\ answer'[q] = answer[q]
      /\ pc'[p] = "reply" /\ answer'[p] = "no" /\ UNCHANGED <<rep, tried>>
  BY DEF TypeOK, RejectExpired, SetRow, Reply, Goto
<1> HIDE DEF r
<1>2. \A q \in Proc : InFlight(q)' => q # p /\ InFlight(q)
  BY <1>1 DEF InFlight
<1>3. RequestsSound'
  BY <1>1 DEF FlightInv, RequestsSound
<1>4. FlightSound'
  BY <1>1, <1>2 DEF FlightInv, FlightSound, TypeOK, InFlight
<1>5. Spent'
  BY <1>1, <1>2 DEF FlightInv, Spent, TypeOK
<1>6. Saved' /\ OutreachAnswered'
  BY <1>1 DEF FlightInv, Saved, OutreachAnswered, TypeOK
<1>7. SingleFlight'
  BY <1>1 DEF FlightInv, SingleFlight
<1>8. QED
  BY <1>3, <1>4, <1>5, <1>6, <1>7 DEF FlightInv

LEMMA ClaimFlight ==
    ASSUME TypeOK, FlightInv, NEW p \in Proc, ClaimRow(p)
    PROVE  FlightInv'
<1> DEFINE r == rep[p]
<1>1. /\ r \in Rep /\ pc[p] = "claim" /\ outreach[r].status = "queued"
      /\ outreach'[r].status = "sending"
      /\ outreach'[r].attempts = tried[p] + 1 /\ tried'[p] = tried[p] + 1
      /\ \A o \in Rep \ {r} : outreach'[o] = outreach[o]
      /\ \A q \in Proc \ {p} : pc'[q] = pc[q] /\ tried'[q] = tried[q]
      /\ pc'[p] = "post" /\ UNCHANGED <<rep, answer>>
  BY DEF TypeOK, ClaimRow, Goto
<1>2. rep[p] = r
  OBVIOUS
<1> HIDE DEF r
<1>3. \A q \in Proc \ {p} : InFlight(q)' => InFlight(q) /\ rep[q] # r
  BY <1>1 DEF FlightInv, FlightSound, InFlight
<1>4. \A q \in Proc : pc'[q] = "claim" /\ tried'[q] = MaxAttempts =>
          q # p /\ pc[q] = "claim" /\ rep[q] # r
  BY <1>1 DEF FlightInv, Spent
<1>5. RequestsSound'
  BY <1>1 DEF FlightInv, RequestsSound
<1>6. FlightSound'
  BY <1>1, <1>2, <1>3 DEF FlightInv, FlightSound, TypeOK, InFlight
<1>7. Spent'
  BY <1>1, <1>2, <1>3, <1>4 DEF FlightInv, Spent, TypeOK
<1>8. Saved' /\ OutreachAnswered'
  BY <1>1 DEF FlightInv, Saved, OutreachAnswered, TypeOK
<1>9. SingleFlight'
  BY <1>1, <1>2, <1>3 DEF FlightInv, SingleFlight, InFlight
<1>10. QED
  BY <1>5, <1>6, <1>7, <1>8, <1>9 DEF FlightInv

LEMMA PostFlight ==
    ASSUME TypeOK, FlightInv, NEW p \in Proc, Post(p)
    PROVE  FlightInv'
<1>1. /\ pc[p] = "post" /\ pc'[p] = "posted" /\ answer'[p] # "none"
      /\ \A q \in Proc \ {p} : pc'[q] = pc[q] /\ answer'[q] = answer[q]
      /\ UNCHANGED <<outreach, rep, tried>>
  BY DEF TypeOK, Post, Goto, row
<1>2. \A q \in Proc : InFlight(q)' <=> InFlight(q)
  BY <1>1 DEF InFlight
<1>3. RequestsSound' /\ FlightSound'
  BY <1>1, <1>2 DEF FlightInv, RequestsSound, FlightSound
<1>4. Spent' /\ Saved' /\ OutreachAnswered'
  BY <1>1, <1>2 DEF FlightInv, Spent, Saved, OutreachAnswered, TypeOK
<1>5. SingleFlight'
  BY <1>1, <1>2 DEF FlightInv, SingleFlight, InFlight
<1>6. QED
  BY <1>3, <1>4, <1>5 DEF FlightInv

LEMMA RecordFlight ==
    ASSUME TypeOK, FlightInv, NEW p \in Proc, RecordAnswer(p)
    PROVE  FlightInv'
<1> DEFINE r == rep[p]
<1>1. /\ r \in Rep /\ pc[p] = "posted" /\ pc'[p] = "reply"
      /\ answer[p] \in {"ok", "later", "no"}
      /\ \A q \in Proc \ {p} : pc'[q] = pc[q]
      /\ UNCHANGED <<rep, tried, answer>>
  BY DEF TypeOK, FlightInv, OutreachAnswered, RecordAnswer, Goto
<1>2. PICK s \in {"submitted", "rejected", "queued", "failed"} :
         /\ SetRow(r, s, FALSE)
         /\ s = "queued" => tried[p] < MaxAttempts
  BY <1>1 DEF RecordAnswer, AfterRetryable
<1>3. /\ outreach'[r].status = s /\ outreach'[r].attempts = outreach[r].attempts
      /\ \A o \in Rep \ {r} : outreach'[o] = outreach[o]
  BY <1>1, <1>2 DEF TypeOK, SetRow
<1>4. rep[p] = r /\ outreach[r].attempts = tried[p]
  BY <1>1 DEF FlightInv, FlightSound, InFlight
<1> HIDE DEF r
<1>5. \A q \in Proc : InFlight(q)' => q # p /\ InFlight(q) /\ rep[q] # r
  BY <1>1, <1>4 DEF FlightInv, SingleFlight, InFlight
<1>6. RequestsSound'
  BY <1>1, <1>2, <1>3, <1>4 DEF FlightInv, RequestsSound
<1>7. FlightSound'
  BY <1>1, <1>3, <1>5 DEF FlightInv, FlightSound, TypeOK, InFlight
<1>8. \A q \in Proc : pc'[q] = "claim" /\ tried'[q] = MaxAttempts =>
          q # p /\ pc[q] = "claim" /\ (rep[q] = r => s # "queued")
  BY <1>1, <1>2, <1>4, OutreachAssumption DEF FlightInv, Spent, InFlight
<1>9. Spent'
  BY <1>1, <1>3, <1>5, <1>8 DEF FlightInv, Spent, TypeOK
<1>10. Saved' /\ OutreachAnswered'
  BY <1>1, <1>2, <1>3 DEF FlightInv, Saved, OutreachAnswered, TypeOK
<1>11. SingleFlight'
  BY <1>1, <1>5 DEF FlightInv, SingleFlight, InFlight
<1>12. QED
  BY <1>6, <1>7, <1>9, <1>10, <1>11 DEF FlightInv

LEMMA DueFlight ==
    ASSUME TypeOK, FlightInv, NEW r \in Rep, RetryDue(r)
    PROVE  FlightInv'
<1>1. /\ outreach[r].status = "queued" /\ outreach'[r].status = "queued"
      /\ outreach'[r].attempts = outreach[r].attempts
      /\ \A o \in Rep \ {r} : outreach'[o] = outreach[o]
      /\ UNCHANGED <<pc, rep, tried, answer>>
  BY DEF TypeOK, RetryDue, SetRow, local
<1>2. RequestsSound' /\ SingleFlight' /\ OutreachAnswered'
  BY <1>1 DEF FlightInv, RequestsSound, SingleFlight, OutreachAnswered
<1>3. FlightSound' /\ Spent' /\ Saved'
  BY <1>1 DEF FlightInv, FlightSound, Spent, Saved, TypeOK, InFlight
<1>4. QED
  BY <1>2, <1>3 DEF FlightInv

LEMMA FlightStep == TypeOK /\ FlightInv /\ [Next]_vars => FlightInv'
<1> SUFFICES ASSUME TypeOK, FlightInv, [Next]_vars PROVE FlightInv'
  OBVIOUS
<1>1. ASSUME NEW p \in Proc, Outside(p)
      PROVE  FlightInv'
  BY <1>1, OutsideSteps, OutsideStep
<1>2. ASSUME NEW p \in Proc,
             RejectExpired(p) \/ ClaimRow(p) \/ Post(p) \/ RecordAnswer(p)
      PROVE  FlightInv'
  BY <1>2, RejectFlight, ClaimFlight, PostFlight, RecordFlight
<1>3. ASSUME NEW h \in Handler, Persist(h) \/ ReadSaved(h)
      PROVE  FlightInv'
  BY <1>3, PersistFlight, ReadSavedFlight
<1>4. ASSUME NEW k \in Worker, NEW r \in Rep, PickUp(k, r)
      PROVE  FlightInv'
  BY <1>4, PickUpFlight
<1>5. ASSUME NEW r \in Rep, RetryDue(r)
      PROVE  FlightInv'
  BY <1>5, DueFlight
<1>6. CASE EvidenceExpires \/ UNCHANGED vars
  BY <1>6 DEF EvidenceExpires, vars, row, local, FlightInv, RequestsSound, FlightSound,
     Spent, Saved, SingleFlight, OutreachAnswered, InFlight
<1>7. QED
  BY <1>1, <1>2, <1>3, <1>4, <1>5, <1>6 DEF Next, Outside, Proc

LEMMA TypeStep == TypeOK /\ FlightInv /\ [Next]_vars => TypeOK'
<1> SUFFICES ASSUME TypeOK, FlightInv, [Next]_vars PROVE TypeOK'
  OBVIOUS
<1>1. ASSUME NEW r \in Rep, RetryDue(r)
      PROVE  TypeOK'
  <2>1. outreach' \in [Rep -> RowType]
    BY <1>1, RowTyped DEF RetryDue, Status
  <2>2. QED
    BY <1>1, <2>1 DEF TypeOK, RetryDue, local, history, RowType, Status
<1>2. CASE EvidenceExpires \/ UNCHANGED vars
  BY <1>2 DEF TypeOK, EvidenceExpires, vars, row, local, history
<1>3. QED
  BY <1>1, <1>2, HandlerTypes, ProcTypes DEF Next, Proc

(***************************************************************************)
(* Rows and processes agree on who is in flight, in every reachable state. *)
(***************************************************************************)
THEOREM FlightInductive == Spec => [](TypeOK /\ FlightInv)
<1>1. TypeOK /\ FlightInv /\ [Next]_vars => (TypeOK /\ FlightInv)'
  BY TypeStep, FlightStep
<1>2. QED
  BY <1>1, InitTypes, InitFlight, PTL DEF Spec

(***************************************************************************)
(* No request is attempted more than MaxAttempts times, and every value of *)
(* the outreach tables stays in its domain (_attempt_saved, _queue_retry). *)
(***************************************************************************)
THEOREM TypeCorrect == Spec => []TypeOK
BY FlightInductive, PTL

(***************************************************************************)
(* The claim by status in _attempt_saved lets one process through: for any *)
(* number of handlers and workers a request is in one process's hands.     *)
(***************************************************************************)
THEOREM OneProcess == Spec => []SingleFlight
<1>1. FlightInv => SingleFlight
  BY DEF FlightInv
<1>2. QED
  BY <1>1, FlightInductive, PTL

---------------------------------------------------------------------------
(***************************************************************************)
(* The card's one requester, what the records say of Persequor, and what a *)
(* recorded submission excludes.  Only the owner of the card's action gets *)
(* beyond InsertAction, so every row and every post is the owner's.        *)
(***************************************************************************)
OneRep ==
    /\ \A p \in Proc : pc[p] \notin {"idle", "look", "insert"} => rep[p] = action.by
    /\ \A r \in Rep : outreach[r].status # "none" => r = action.by
    /\ \A r \in asked : r = action.by

Heard == \A p \in Proc :
    pc[p] \in {"posted", "reply"} /\ answer[p] = "ok" => rep[p] \in accepted

Truth == AcceptedIsTrue /\ Heard

Acked == \A r \in acked :
    /\ outreach[r].status \in {"submitted", "rejected"}
    /\ \A p \in Proc : InFlight(p) => rep[p] # r

LEMMA OneRepStep == TypeOK /\ TypeOK' /\ OneRep /\ [Next]_vars => OneRep'
<1> SUFFICES ASSUME TypeOK, TypeOK', OneRep, [Next]_vars PROVE OneRep'
  OBVIOUS
<1> USE DEF row, local, history, Goto, Proc
<1>1. ASSUME NEW h \in Handler, NEW r \in Rep, Click(h, r)
      PROVE  OneRep'
  BY <1>1 DEF TypeOK, OneRep, Click
<1>2. ASSUME NEW h \in Handler, FirstClick(h) \/ ClickRefused(h) \/ ClickAgain(h)
      PROVE  OneRep'
  BY <1>2 DEF TypeOK, OneRep, FirstClick, ClickRefused, ClickAgain, End
<1>3. ASSUME NEW h \in Handler, InsertAction(h)
      PROVE  OneRep'
  <2>1. CASE action # NoAction
    BY <1>3, <2>1 DEF TypeOK, OneRep, InsertAction, End
  <2>2. CASE action = NoAction
    <3>1. action.by = NoRep /\ NoRep \notin Rep
      BY <2>2, OutreachAssumption DEF NoAction
    <3>2. /\ \A p \in Proc : pc[p] \in {"idle", "look", "insert"}
          /\ \A r \in Rep : outreach[r].status = "none"
          /\ asked = {}
      BY <3>1 DEF TypeOK, OneRep
    <3>3. /\ action'.by = rep[h] /\ UNCHANGED <<outreach, rep, asked>>
          /\ \A p \in Proc \ {h} : pc'[p] = pc[p]
      BY <1>3, <2>2 DEF TypeOK, InsertAction
    <3>4. QED
      BY <3>2, <3>3 DEF OneRep
  <2>3. QED
    BY <2>1, <2>2
<1>4. ASSUME NEW h \in Handler, Persist(h) \/ PersistIgnored(h) \/ ReadSaved(h)
      PROVE  OneRep'
  <2>1. rep[h] \in Rep /\ rep[h] = action.by /\ UNCHANGED <<action, rep, asked>>
    BY <1>4 DEF TypeOK, OneRep, Persist, PersistIgnored, ReadSaved
  <2>2. /\ \A p \in Proc \ {h} : pc'[p] = pc[p]
        /\ \A r \in Rep \ {rep[h]} : outreach'[r] = outreach[r]
    BY <1>4 DEF TypeOK, Persist, PersistIgnored, ReadSaved, Reply
  <2>3. QED
    BY <2>1, <2>2 DEF OneRep
<1>5. ASSUME NEW k \in Worker, NEW r \in Rep, PickUp(k, r)
      PROVE  OneRep'
  BY <1>5 DEF TypeOK, OneRep, PickUp
<1>6. ASSUME NEW p \in Proc,
             RejectExpired(p) \/ ClaimRow(p) \/ ClaimLost(p) \/ Post(p)
                \/ RecordAnswer(p)
      PROVE  OneRep'
  <2>1. rep[p] \in Rep /\ rep[p] = action.by /\ UNCHANGED <<action, rep>>
    BY <1>6 DEF TypeOK, OneRep, RejectExpired, ClaimRow, ClaimLost, Post, RecordAnswer
  <2>2. /\ \A q \in Proc \ {p} : pc'[q] = pc[q]
        /\ \A r \in Rep \ {rep[p]} : outreach'[r] = outreach[r]
        /\ asked' \subseteq asked \cup {rep[p]}
    BY <1>6 DEF TypeOK, RejectExpired, ClaimRow, ClaimLost, Post, RecordAnswer, Reply,
       SetRow
  <2>3. QED
    BY <2>1, <2>2 DEF OneRep
<1>7. ASSUME NEW p \in Proc, Mirror(p) \/ Crash(p)
      PROVE  OneRep'
  <2>1. action'.by = action.by /\ UNCHANGED <<outreach, asked>>
    BY <1>7 DEF TypeOK, Mirror, Crash
  <2>2. pc'[p] = "idle" /\ \A q \in Proc \ {p} : pc'[q] = pc[q] /\ rep'[q] = rep[q]
    BY <1>7 DEF TypeOK, Mirror, Crash, End
  <2>3. QED
    BY <2>1, <2>2 DEF OneRep
<1>8. ASSUME NEW r \in Rep, RetryDue(r)
      PROVE  OneRep'
  BY <1>8 DEF TypeOK, OneRep, RetryDue, SetRow
<1>9. CASE EvidenceExpires \/ UNCHANGED vars
  BY <1>9 DEF OneRep, EvidenceExpires, vars
<1>10. QED
  BY <1>1, <1>2, <1>3, <1>4, <1>5, <1>6, <1>7, <1>8, <1>9 DEF Next

LEMMA TruthStep ==
    TypeOK /\ TypeOK' /\ FlightInv /\ OneRep /\ Truth /\ [Next]_vars => Truth'
<1> SUFFICES ASSUME TypeOK, TypeOK', FlightInv, OneRep, Truth, [Next]_vars PROVE Truth'
  OBVIOUS
<1> USE DEF row, local, history, Goto, Proc
<1>1. ASSUME NEW h \in Handler,
             (\E r \in Rep : Click(h, r)) \/ FirstClick(h) \/ ClickRefused(h)
                \/ ClickAgain(h) \/ InsertAction(h) \/ Persist(h)
      PROVE  Truth'
  <2>1. UNCHANGED accepted /\ \A p \in Proc :
            pc'[p] \in {"posted", "reply"} =>
               pc'[p] = pc[p] /\ rep'[p] = rep[p] /\ answer'[p] = answer[p]
    BY <1>1 DEF TypeOK, Click, FirstClick, ClickRefused, ClickAgain, InsertAction,
       Persist, End
  <2>2. \A r \in Rep : outreach'[r].status = "submitted" =>
            outreach[r].status = "submitted"
    BY <1>1 DEF TypeOK, Click, FirstClick, ClickRefused, ClickAgain, InsertAction, Persist
  <2>3. action' = action \/ action'.state = "requested"
    BY <1>1 DEF Click, FirstClick, ClickRefused, ClickAgain, InsertAction, Persist
  <2>4. QED
    BY <2>1, <2>2, <2>3 DEF Truth, AcceptedIsTrue, Heard
<1>2. ASSUME NEW h \in Handler, PersistIgnored(h) \/ ReadSaved(h)
      PROVE  Truth'
  <2>1. /\ rep[h] \in Rep /\ UNCHANGED <<action, outreach, accepted, rep>>
        /\ \A p \in Proc \ {h} : pc'[p] = pc[p] /\ answer'[p] = answer[p]
    BY <1>2 DEF TypeOK, PersistIgnored, ReadSaved, Reply
  <2>2. CASE PersistIgnored(h)
    <3>1. outreach[rep[h]].status \in Status \ {"none"}
      BY <1>2, <2>1, <2>2 DEF TypeOK, FlightInv, RequestsSound, PersistIgnored, Status
    <3>2. answer'[h] = "ok" => outreach[rep[h]].status = "submitted"
      BY <2>2, <3>1 DEF TypeOK, PersistIgnored, Reply, Status
    <3>3. QED
      BY <2>1, <3>2 DEF Truth, AcceptedIsTrue, Heard
  <2>3. CASE ReadSaved(h)
    <3>1. pc'[h] = "reply" /\ answer'[h] = "ok" =>
              outreach[rep[h]].status = "submitted"
      BY <2>3 DEF TypeOK, ReadSaved, Reply
    <3>2. pc'[h] # "posted"
      BY <2>3 DEF TypeOK, ReadSaved, Reply
    <3>3. QED
      BY <2>1, <3>1, <3>2 DEF Truth, AcceptedIsTrue, Heard
  <2>4. QED
    BY <1>2, <2>2, <2>3
<1>3. ASSUME NEW k \in Worker, NEW r \in Rep, PickUp(k, r)
      PROVE  Truth'
  BY <1>3 DEF TypeOK, Truth, AcceptedIsTrue, Heard, PickUp
<1>4. ASSUME NEW p \in Proc, RejectExpired(p) \/ ClaimRow(p) \/ ClaimLost(p) \/ Crash(p)
      PROVE  Truth'
  <2>1. /\ UNCHANGED <<action, accepted>>
        /\ \A q \in Proc \ {p} :
              pc'[q] = pc[q] /\ rep'[q] = rep[q] /\ answer'[q] = answer[q]
        /\ pc'[p] \in {"posted", "reply"} => answer'[p] # "ok"
    <3>1. CASE RejectExpired(p)
      BY <3>1 DEF TypeOK, RejectExpired, Reply
    <3>2. CASE ClaimRow(p)
      BY <3>2 DEF TypeOK, ClaimRow, Goto
    <3>3. CASE ClaimLost(p)
      BY <3>3 DEF TypeOK, ClaimLost, Reply, End
    <3>4. CASE Crash(p)
      BY <3>4 DEF TypeOK, Crash, End
    <3>5. QED
      BY <1>4, <3>1, <3>2, <3>3, <3>4
  <2>2. \A r \in Rep : outreach'[r].status = "submitted" =>
            outreach[r].status = "submitted"
    BY <1>4 DEF TypeOK, RejectExpired, ClaimRow, ClaimLost, Crash, SetRow
  <2>3. QED
    BY <2>1, <2>2 DEF Truth, AcceptedIsTrue, Heard
<1>5. ASSUME NEW p \in Proc, Post(p)
      PROVE  Truth'
  <2>1. /\ UNCHANGED <<row, rep>> /\ accepted \subseteq accepted'
        /\ \A q \in Proc \ {p} : pc'[q] = pc[q] /\ answer'[q] = answer[q]
        /\ answer'[p] = "ok" => rep[p] \in accepted'
    BY <1>5 DEF TypeOK, Post
  <2>2. QED
    BY <2>1 DEF Truth, AcceptedIsTrue, Heard
<1>6. ASSUME NEW p \in Proc, RecordAnswer(p)
      PROVE  Truth'
  <2>1. /\ pc[p] = "posted" /\ rep[p] \in Rep /\ answer[p] \in {"ok", "later", "no"}
        /\ UNCHANGED <<action, rep, answer, accepted>>
        /\ \A q \in Proc \ {p} : pc'[q] = pc[q]
    BY <1>6 DEF TypeOK, FlightInv, OutreachAnswered, RecordAnswer
  <2>2. outreach'[rep[p]].status = "submitted" => answer[p] = "ok"
    BY <1>6, <2>1 DEF TypeOK, RecordAnswer, AfterRetryable, SetRow
  <2>3. \A r \in Rep \ {rep[p]} : outreach'[r] = outreach[r]
    BY <1>6 DEF TypeOK, RecordAnswer, SetRow
  <2>4. QED
    BY <2>1, <2>2, <2>3 DEF Truth, AcceptedIsTrue, Heard
<1>7. ASSUME NEW p \in Proc, Mirror(p)
      PROVE  Truth'
  <2>1. /\ pc[p] = "reply" /\ answer[p] \in {"ok", "later", "no"}
        /\ UNCHANGED <<outreach, accepted>>
    BY <1>7 DEF TypeOK, FlightInv, OutreachAnswered, Mirror
  <2>2. \A q \in Proc : pc'[q] # "idle" =>
            pc'[q] = pc[q] /\ rep'[q] = rep[q] /\ answer'[q] = answer[q]
    BY <1>7 DEF TypeOK, Mirror, End
  <2>3. action'.state = "accepted" => action'.by \in accepted
    BY <1>7, <2>1 DEF TypeOK, Truth, AcceptedIsTrue, Heard, Mirror
  <2>4. QED
    BY <2>1, <2>2, <2>3 DEF Truth, AcceptedIsTrue, Heard
<1>8. ASSUME NEW r \in Rep, RetryDue(r)
      PROVE  Truth'
  BY <1>8 DEF TypeOK, Truth, AcceptedIsTrue, Heard, RetryDue, SetRow
<1>9. CASE EvidenceExpires \/ UNCHANGED vars
  BY <1>9 DEF Truth, AcceptedIsTrue, Heard, EvidenceExpires, vars
<1>10. QED
  BY <1>1, <1>2, <1>3, <1>4, <1>5, <1>6, <1>7, <1>8, <1>9 DEF Next

\* What a step can do to the recorded submissions.
LEMMA AckedStep == TypeOK /\ FlightInv /\ Acked /\ [Next]_vars => Acked'
<1> SUFFICES ASSUME TypeOK, FlightInv, Acked, [Next]_vars PROVE Acked'
  OBVIOUS
<1> USE DEF row, local, history, Goto
<1>1. ASSUME NEW p \in Proc, Outside(p)
      PROVE  Acked'
  <2>1. UNCHANGED outreach /\ OthersKeep(p) /\ StaysOut(p)
    BY <1>1, OutsideSteps
  <2>2. UNCHANGED acked
    BY <1>1 DEF Outside, Click, FirstClick, ClickRefused, ClickAgain, InsertAction,
       PersistIgnored, ClaimLost, Mirror, Crash
  <2>3. QED
    BY <2>1, <2>2 DEF Acked, InFlight, OthersKeep, StaysOut
<1>2. ASSUME NEW h \in Handler, Persist(h) \/ ReadSaved(h)
      PROVE  Acked'
  <2>1. UNCHANGED <<acked, rep>> /\ \A q \in Proc : InFlight(q)' => InFlight(q)
    BY <1>2 DEF TypeOK, Persist, ReadSaved, Reply, InFlight, Proc
  <2>2. \A r \in Rep : outreach[r].status # "none" => outreach'[r] = outreach[r]
    BY <1>2 DEF TypeOK, Persist, ReadSaved, NoRequest, Proc
  <2>3. QED
    BY <2>1, <2>2 DEF TypeOK, Acked
<1>3. ASSUME NEW k \in Worker, NEW r \in Rep, PickUp(k, r)
      PROVE  Acked'
  BY <1>3 DEF TypeOK, Acked, InFlight, PickUp, Proc
<1>4. ASSUME NEW p \in Proc, RejectExpired(p)
      PROVE  Acked'
  <2>1. /\ UNCHANGED <<acked, rep>> /\ \A q \in Proc : InFlight(q)' => InFlight(q)
        /\ \A r \in Rep : outreach'[r].status \in {outreach[r].status, "rejected"}
    BY <1>4 DEF TypeOK, RejectExpired, SetRow, Reply, InFlight
  <2>2. QED
    BY <2>1 DEF TypeOK, Acked
<1>5. ASSUME NEW p \in Proc, ClaimRow(p)
      PROVE  Acked'
  <2>1. /\ rep[p] \in Rep /\ outreach[rep[p]].status = "queued"
        /\ UNCHANGED <<acked, rep>>
        /\ \A q \in Proc \ {p} : InFlight(q)' => InFlight(q)
        /\ \A r \in Rep \ {rep[p]} : outreach'[r] = outreach[r]
    BY <1>5 DEF TypeOK, ClaimRow, InFlight
  <2>2. rep[p] \notin acked
    BY <2>1 DEF Acked
  <2>3. QED
    BY <2>1, <2>2 DEF TypeOK, Acked
<1>6. ASSUME NEW p \in Proc, Post(p)
      PROVE  Acked'
  <2>1. UNCHANGED <<acked, rep, outreach>> /\ \A q \in Proc : InFlight(q)' => InFlight(q)
    BY <1>6 DEF TypeOK, Post, InFlight
  <2>2. QED
    BY <2>1 DEF Acked
<1>7. ASSUME NEW p \in Proc, RecordAnswer(p)
      PROVE  Acked'
  <2>1. /\ rep[p] \in Rep /\ InFlight(p) /\ UNCHANGED rep
        /\ \A q \in Proc : InFlight(q)' => q # p /\ InFlight(q)
    BY <1>7 DEF TypeOK, RecordAnswer, InFlight
  <2>2. \A q \in Proc : InFlight(q)' => rep[q] # rep[p]
    BY <2>1 DEF FlightInv, SingleFlight, InFlight
  <2>3. rep[p] \notin acked
    BY <2>1 DEF Acked
  <2>4. /\ \A r \in Rep \ {rep[p]} : outreach'[r] = outreach[r]
        /\ acked' \subseteq acked \cup {rep[p]}
        /\ rep[p] \in acked' => outreach'[rep[p]].status = "submitted"
    BY <1>7, <2>1, <2>3 DEF TypeOK, RecordAnswer, SetRow
  <2>5. QED
    BY <2>1, <2>2, <2>3, <2>4 DEF TypeOK, Acked
<1>8. ASSUME NEW r \in Rep, RetryDue(r)
      PROVE  Acked'
  BY <1>8 DEF TypeOK, Acked, InFlight, RetryDue, SetRow
<1>9. CASE EvidenceExpires \/ UNCHANGED vars
  BY <1>9 DEF Acked, InFlight, EvidenceExpires, vars
<1>10. QED
  BY <1>1, <1>2, <1>3, <1>4, <1>5, <1>6, <1>7, <1>8, <1>9 DEF Next, Outside, Proc

IInv == TypeOK /\ FlightInv /\ OneRep /\ Truth /\ Acked

(***************************************************************************)
(* The inductive invariant the theorems below are consequences of.         *)
(***************************************************************************)
THEOREM Inductive == Spec => []IInv
<1>1. Init => OneRep /\ Truth /\ Acked
  BY DEF Init, OneRep, Truth, AcceptedIsTrue, Heard, Acked, NoAction, NoRequest
<1>2. IInv /\ [Next]_vars => IInv'
  BY TypeStep, FlightStep, OneRepStep, TruthStep, AckedStep DEF IInv
<1>3. Init => IInv
  BY <1>1, InitTypes, InitFlight DEF IInv
<1>4. QED
  BY <1>2, <1>3, PTL DEF Spec

(***************************************************************************)
(* However many reps press the button, Persequor hears of one per card     *)
(* (idx_rich_draft_once, request_draft).                                   *)
(***************************************************************************)
THEOREM OneRequester == Spec => []OneRequesterPerCard
<1>1. IInv => OneRequesterPerCard
  BY DEF IInv, OneRep, OneRequesterPerCard
<1>2. QED
  BY <1>1, Inductive, PTL

(***************************************************************************)
(* What a row calls submitted or the card calls accepted, Persequor took   *)
(* (submit_brief, _reconcile_rich_action).                                 *)
(***************************************************************************)
THEOREM Truthful == Spec => []AcceptedIsTrue
<1>1. IInv => AcceptedIsTrue
  BY DEF IInv, Truth
<1>2. QED
  BY <1>1, Inductive, PTL

(***************************************************************************)
(* A request once recorded as submitted is never posted again, although an *)
(* expired-evidence worker may overwrite the record (retry_pending).       *)
(***************************************************************************)
THEOREM NotAgain == Spec => []NeverResent
<1>1. IInv => NeverResent
  BY DEF IInv, Acked, NeverResent, InFlight
<1>2. QED
  BY <1>1, Inductive, PTL
================================================================================
