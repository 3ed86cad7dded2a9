------------------------- MODULE CreditLedgerProofs -------------------------
(***************************************************************************)
(* The ledger keeps its type and loses no credit, for every set of tasks,  *)
(* every opening balance and every choice of grants.  Also the lemmas that *)
(* the proofs about its two engines share.                                 *)
(***************************************************************************)
EXTENDS CreditLedger, FiniteSetTheorems, SequenceTheorems, TLAPS

\* The inductive invariant.  Conservation alone would not do: the refund of a
\* free credit needs the exact free counter, and the type of both.
LedgerInv == LedgerTypeOK /\ Conservation /\ FreeUsedIsExact

\* The credits tasks hold form a finite set, so they can be counted.
LEMMA OutstandingFinite ==
  ASSUME NEW p
  PROVE  IsFiniteSet(Outstanding(p)) /\ Cardinality(Outstanding(p)) \in Nat
<1>1. Outstanding(p) \in SUBSET Tasks  BY DEF Outstanding
<1>2. IsFiniteSet(Outstanding(p))  BY <1>1, LedgerAssumption, FS_Subset
<1>  QED  BY <1>2, FS_CardinalityType

\* The next pool is one of the three, and it is not empty if there is credit.
LEMMA NextPoolHasCredit ==
  ASSUME LedgerTypeOK, HasCredit
  PROVE  NextPool \in Pools /\ balance[NextPool] > 0
BY DEF LedgerTypeOK, HasCredit, NextPool, Pools

\* The ledger starts with its invariant: nothing is outstanding.
LEMMA LedgerInvInit == LedgerInit => LedgerInv
<1>  SUFFICES ASSUME LedgerInit PROVE LedgerInv  OBVIOUS
<1>1. LedgerTypeOK
  BY LedgerAssumption DEF LedgerInit, LedgerTypeOK
<1>2. ASSUME NEW p \in Pools PROVE Outstanding(p) = {}
  BY <1>2 DEF LedgerInit, Outstanding, Pools, NoPool
<1>3. ASSUME NEW p \in Pools PROVE Cardinality(Outstanding(p)) = 0
  BY <1>2, FS_EmptySet
<1>4. Conservation
  BY <1>1, <1>3 DEF Conservation, LedgerInit, LedgerTypeOK
<1>5. FreeUsedIsExact
  BY <1>3 DEF FreeUsedIsExact, LedgerInit, Pools
<1>  QED  BY <1>1, <1>4, <1>5 DEF LedgerInv

\* consumeTaskCredit moves one credit from the account to the task.
LEMMA ConsumeKeepsLedgerInv ==
  ASSUME LedgerInv, NEW t \in Tasks, ConsumeTaskCredit(t)
  PROVE  LedgerInv'
<1>1. CASE ~(consumedFrom[t] = NoPool /\ HasCredit)
  BY <1>1 DEF ConsumeTaskCredit, ledgerVars, LedgerInv, LedgerTypeOK,
     Conservation, FreeUsedIsExact, Outstanding
<1>2. CASE consumedFrom[t] = NoPool /\ HasCredit
  <2>1. PICK q \in Pools : q = NextPool /\ balance[q] > 0
    BY <1>2, NextPoolHasCredit DEF LedgerInv
  <2>2. /\ balance' = [balance EXCEPT ![q] = @ - 1]
        /\ freeUsed' = IF q = "free" THEN freeUsed + 1 ELSE freeUsed
        /\ consumedFrom' = [consumedFrom EXCEPT ![t] = q]
        /\ refunded' = refunded /\ funded' = funded
    BY <1>2, <2>1 DEF ConsumeTaskCredit
  <2>3. LedgerTypeOK'
    BY <2>1, <2>2 DEF LedgerInv, LedgerTypeOK
  <2>4. t \notin refunded
    BY <1>2 DEF LedgerInv, Conservation
  <2>5. Outstanding(q)' = Outstanding(q) \cup {t} /\ t \notin Outstanding(q)
    BY <1>2, <2>1, <2>2, <2>4
    DEF Outstanding, LedgerInv, LedgerTypeOK, NoPool, Pools
  <2>6. ASSUME NEW p \in Pools, p # q PROVE Outstanding(p)' = Outstanding(p)
    BY <1>2, <2>1, <2>2, <2>6
    DEF Outstanding, LedgerInv, LedgerTypeOK, NoPool, Pools
  <2>7. Cardinality(Outstanding(q)') = Cardinality(Outstanding(q)) + 1
    BY <2>5, OutstandingFinite, FS_AddElement
  <2>8. Conservation'
    <3>1. ASSUME NEW p \in Pools
          PROVE  balance'[p] + Cardinality(Outstanding(p)') = funded'[p]
      <4>1. balance[p] \in Nat /\ Cardinality(Outstanding(p)) \in Nat
        BY OutstandingFinite DEF LedgerInv, LedgerTypeOK
      <4>2. balance[p] + Cardinality(Outstanding(p)) = funded[p]
        BY DEF LedgerInv, Conservation
      <4>3. CASE p = q
        BY <2>1, <2>2, <2>7, <4>1, <4>2, <4>3 DEF LedgerInv, LedgerTypeOK
      <4>4. CASE p # q
        BY <2>2, <2>6, <4>2, <4>4 DEF LedgerInv, LedgerTypeOK
      <4>  QED  BY <4>3, <4>4
    <3>2. \A r \in refunded' : consumedFrom'[r] # NoPool
      BY <2>1, <2>2 DEF LedgerInv, LedgerTypeOK, Conservation, Pools, NoPool
    <3>  QED  BY <3>1, <3>2 DEF Conservation
  <2>9. FreeUsedIsExact'
    <3>1. CASE q = "free"
      BY <2>2, <2>7, <3>1 DEF LedgerInv, FreeUsedIsExact
    <3>2. CASE q # "free"
      BY <2>2, <2>6, <3>2 DEF LedgerInv, FreeUsedIsExact, Pools
    <3>  QED  BY <3>1, <3>2
  <2>  QED  BY <2>3, <2>8, <2>9 DEF LedgerInv
<1>  QED  BY <1>1, <1>2

\* refundTaskCredit moves it back to the pool it came from.
LEMMA RefundKeepsLedgerInv ==
  ASSUME LedgerInv, NEW t \in Tasks, RefundTaskCredit(t)
  PROVE  LedgerInv'
<1>1. CASE ~(t \notin refunded /\ consumedFrom[t] # NoPool)
  BY <1>1 DEF RefundTaskCredit, ledgerVars, LedgerInv, LedgerTypeOK,
     Conservation, FreeUsedIsExact, Outstanding
<1>2. CASE t \notin refunded /\ consumedFrom[t] # NoPool
  <2>1. PICK q \in Pools : q = consumedFrom[t]
    BY <1>2 DEF LedgerInv, LedgerTypeOK
  <2>2. /\ balance' = [balance EXCEPT ![q] = @ + 1]
        /\ freeUsed' = IF q = "free" /\ freeUsed > 0
                       THEN freeUsed - 1 ELSE freeUsed
        /\ refunded' = refunded \cup {t}
        /\ consumedFrom' = consumedFrom /\ funded' = funded
    BY <1>2, <2>1 DEF RefundTaskCredit
  <2>3. Outstanding(q)' = Outstanding(q) \ {t} /\ t \in Outstanding(q)
    BY <1>2, <2>1, <2>2 DEF Outstanding
  <2>4. ASSUME NEW p \in Pools, p # q PROVE Outstanding(p)' = Outstanding(p)
    BY <2>1, <2>2, <2>4 DEF Outstanding
  <2>5. /\ Cardinality(Outstanding(q)') = Cardinality(Outstanding(q)) - 1
        /\ Cardinality(Outstanding(q)) > 0
    <3>1. Cardinality(Outstanding(q)') = Cardinality(Outstanding(q)) - 1
      BY <2>3, OutstandingFinite, FS_RemoveElement
    <3>2. Cardinality(Outstanding(q)) # 0
      BY <2>3, OutstandingFinite, FS_EmptySet
    <3>  QED  BY <3>1, <3>2, OutstandingFinite
  <2>6. consumedFrom[t] # NoPool  BY <1>2
  <2>7. LedgerTypeOK'
    BY <2>1, <2>2 DEF LedgerInv, LedgerTypeOK
  <2>8. Conservation'
    <3>1. ASSUME NEW p \in Pools
          PROVE  balance'[p] + Cardinality(Outstanding(p)') = funded'[p]
      <4>1. balance[p] \in Nat /\ Cardinality(Outstanding(p)) \in Nat
        BY OutstandingFinite DEF LedgerInv, LedgerTypeOK
      <4>2. balance[p] + Cardinality(Outstanding(p)) = funded[p]
        BY DEF LedgerInv, Conservation
      <4>3. CASE p = q
        BY <2>1, <2>2, <2>5, <4>1, <4>2, <4>3 DEF LedgerInv, LedgerTypeOK
      <4>4. CASE p # q
        BY <2>2, <2>4, <4>2, <4>4 DEF LedgerInv, LedgerTypeOK
      <4>  QED  BY <4>3, <4>4
    <3>2. \A r \in refunded' : consumedFrom'[r] # NoPool
      BY <2>2, <2>6 DEF LedgerInv, Conservation
    <3>  QED  BY <3>1, <3>2 DEF Conservation
  <2>9. FreeUsedIsExact'
    <3>1. CASE q = "free"
      BY <2>2, <2>5, <3>1, OutstandingFinite DEF LedgerInv, FreeUsedIsExact
    <3>2. CASE q # "free"
      BY <2>2, <2>4, <3>2 DEF LedgerInv, FreeUsedIsExact, Pools
    <3>  QED  BY <3>1, <3>2
  <2>  QED  BY <2>7, <2>8, <2>9 DEF LedgerInv
<1>  QED  BY <1>1, <1>2

\* A purchase or its reversal moves credits between buyer and paid pool only.
LEMMA PurchaseKeepsLedgerInv ==
  ASSUME LedgerInv, NEW n \in GrantSizes,
         GrantCustomCredits(n) \/ ReverseCustomCredits(n)
  PROVE  LedgerInv'
<1>1. n \in Nat /\ "paid" \in Pools  BY LedgerAssumption DEF Pools
<1>2. balance["paid"] \in Nat /\ funded["paid"] \in Nat
  BY <1>1 DEF LedgerInv, LedgerTypeOK
<1>3. /\ UNCHANGED <<freeUsed, consumedFrom, refunded>>
      /\ \E d \in Int :
           /\ balance' = [balance EXCEPT !["paid"] = @ + d]
           /\ funded' = [funded EXCEPT !["paid"] = @ + d]
           /\ balance["paid"] + d \in Nat
  <2>1. CASE GrantCustomCredits(n)
    <3>1. n \in Int /\ balance["paid"] + n \in Nat  BY <1>1, <1>2
    <3>  QED  BY <2>1, <3>1 DEF GrantCustomCredits
  <2>2. CASE ReverseCustomCredits(n)
    <3>  DEFINE r == IF balance["paid"] < n THEN balance["paid"] ELSE n
    <3>1. r \in Nat /\ r <= balance["paid"] /\ -r \in Int
      BY <1>1, <1>2
    <3>2. /\ balance' = [balance EXCEPT !["paid"] = @ - r]
          /\ funded' = [funded EXCEPT !["paid"] = @ - r]
          /\ UNCHANGED <<freeUsed, consumedFrom, refunded>>
      BY <2>2 DEF ReverseCustomCredits
    <3>  HIDE DEF r
    <3>3. balance["paid"] - r = balance["paid"] + (-r)
          /\ funded["paid"] - r = funded["paid"] + (-r)
          /\ balance["paid"] - r \in Nat
      BY <1>2, <3>1
    <3>4. PICK d \in Int : d = -r  BY <3>1
    <3>5. /\ balance' = [balance EXCEPT !["paid"] = @ + d]
          /\ funded' = [funded EXCEPT !["paid"] = @ + d]
          /\ balance["paid"] + d \in Nat
      BY <3>2, <3>3, <3>4
    <3>6. UNCHANGED <<freeUsed, consumedFrom, refunded>>  BY <3>2
    <3>  QED  BY <3>4, <3>5, <3>6
  <2>  QED  BY <2>1, <2>2
<1>4. PICK d \in Int :
        /\ balance' = [balance EXCEPT !["paid"] = @ + d]
        /\ funded' = [funded EXCEPT !["paid"] = @ + d]
        /\ balance["paid"] + d \in Nat
  BY <1>3
<1>5. ASSUME NEW p \in Pools PROVE Outstanding(p)' = Outstanding(p)
  BY <1>3 DEF Outstanding
<1>6. balance["paid"] + Cardinality(Outstanding("paid")) = funded["paid"]
      /\ Cardinality(Outstanding("paid")) \in Nat
  BY <1>1, OutstandingFinite DEF LedgerInv, Conservation
<1>7. funded["paid"] + d \in Nat  BY <1>2, <1>4, <1>6
<1>8. LedgerTypeOK'
  BY <1>1, <1>3, <1>4, <1>7 DEF LedgerInv, LedgerTypeOK
<1>9. Conservation'
  <2>1. ASSUME NEW p \in Pools
        PROVE  balance'[p] + Cardinality(Outstanding(p)') = funded'[p]
    <3>1. Outstanding(p)' = Outstanding(p)  BY <1>5
    <3>2. CASE p = "paid"
      BY <1>2, <1>4, <1>6, <3>1, <3>2 DEF LedgerInv, LedgerTypeOK
    <3>3. CASE p # "paid"
      BY <1>4, <3>1, <3>3 DEF LedgerInv, LedgerTypeOK, Conservation
    <3>  QED  BY <3>2, <3>3
  <2>2. \A r \in refunded' : consumedFrom'[r] # NoPool
    BY <1>3 DEF LedgerInv, Conservation
  <2>  QED  BY <2>1, <2>2 DEF Conservation
<1>10. FreeUsedIsExact'
  BY <1>3, <1>5 DEF LedgerInv, FreeUsedIsExact, Pools
<1>  QED  BY <1>8, <1>9, <1>10 DEF LedgerInv

\* Every step of the ledger keeps the invariant.
LEMMA LedgerInvStep ==
  ASSUME LedgerInv, [LedgerNext]_ledgerVars
  PROVE  LedgerInv'
<1>1. CASE UNCHANGED ledgerVars
  BY <1>1 DEF ledgerVars, LedgerInv, LedgerTypeOK, Conservation,
     FreeUsedIsExact, Outstanding
<1>2. ASSUME NEW t \in Tasks, ConsumeTaskCredit(t) PROVE LedgerInv'
  BY <1>2, ConsumeKeepsLedgerInv
<1>3. ASSUME NEW t \in Tasks, RefundTaskCredit(t) PROVE LedgerInv'
  BY <1>3, RefundKeepsLedgerInv
<1>4. ASSUME NEW n \in GrantSizes,
             GrantCustomCredits(n) \/ ReverseCustomCredits(n)
      PROVE  LedgerInv'
  BY <1>4, PurchaseKeepsLedgerInv
<1>  QED  BY <1>1, <1>2, <1>3, <1>4 DEF LedgerNext

\* The balances and the free counter never go negative, whatever is consumed,
\* refunded, bought or reversed (repositories.ts:281-397).
THEOREM LedgerTypeCorrect == LedgerSpec => []LedgerTypeOK
<1>1. LedgerInv => LedgerTypeOK  BY DEF LedgerInv
<1>  QED  BY <1>1, LedgerInvInit, LedgerInvStep, PTL DEF LedgerSpec

\* No credit is created or lost: balances and credits held by tasks add up to
\* what was put in, pool by pool.
THEOREM LedgerConserves == LedgerSpec => []Conservation
<1>1. LedgerInv => Conservation  BY DEF LedgerInv
<1>  QED  BY <1>1, LedgerInvInit, LedgerInvStep, PTL DEF LedgerSpec

\* The free counter is exact, so clamping it at zero never hides an error.
THEOREM LedgerFreeCounterExact == LedgerSpec => []FreeUsedIsExact
<1>1. LedgerInv => FreeUsedIsExact  BY DEF LedgerInv
<1>  QED  BY <1>1, LedgerInvInit, LedgerInvStep, PTL DEF LedgerSpec

-----------------------------------------------------------------------------
(* The statements that a running callback of an engine has still to execute *)
(* are a sequence; what the proofs say of them they say of its range.       *)

\* Executing a statement: the head is one of the range, the rest keeps it.
LEMMA TailRange ==
  ASSUME NEW S, NEW q \in Seq(S), q # <<>>
  PROVE  /\ Head(q) \in S /\ Head(q) \in Range(q)
         /\ Tail(q) \in Seq(S)
         /\ Range(Tail(q)) \subseteq Range(q)
         /\ Range(q) = {Head(q)} \cup Range(Tail(q))
<1>1. /\ Head(q) \in S /\ Tail(q) \in Seq(S)
      /\ Len(Tail(q)) = Len(q) - 1
      /\ \A i \in 1 .. Len(Tail(q)) : Tail(q)[i] = q[i + 1]
  BY HeadTailProperties
<1>2. DOMAIN q = 1 .. Len(q) /\ Len(q) \in Nat \ {0}
      /\ DOMAIN Tail(q) = 1 .. Len(Tail(q)) /\ Head(q) = q[1]
  BY <1>1, LenProperties, EmptySeq
<1>3. \A i \in 1 .. Len(Tail(q)) : i + 1 \in 1 .. Len(q)
  BY <1>1, <1>2
<1>4. \A i \in 1 .. Len(q) : i = 1 \/ i - 1 \in 1 .. Len(Tail(q))
  BY <1>1, <1>2
<1>5. Range(Tail(q)) \subseteq Range(q)
  BY <1>1, <1>2, <1>3 DEF Range
<1>6. Head(q) \in Range(q)
  BY <1>2 DEF Range
<1>7. ASSUME NEW i \in 1 .. Len(q)
      PROVE  q[i] \in {Head(q)} \cup Range(Tail(q))
  <2>1. CASE i = 1
    BY <1>2, <2>1
  <2>2. CASE i # 1
    <3>1. i - 1 \in 1 .. Len(Tail(q))
      BY <1>4, <2>2
    <3>2. Tail(q)[i - 1] = q[(i - 1) + 1] /\ (i - 1) + 1 = i
      BY <1>1, <1>2, <3>1
    <3>3. Tail(q)[i - 1] \in Range(Tail(q))
      BY <1>2, <3>1 DEF Range
    <3>  QED  BY <3>2, <3>3
  <2>  QED  BY <2>1, <2>2
<1>8. Range(q) \subseteq {Head(q)} \cup Range(Tail(q))
  BY <1>2, <1>7 DEF Range
<1>  QED  BY <1>1, <1>5, <1>6, <1>8

\* One plan after the other.
LEMMA ConcatRange ==
  ASSUME NEW S, NEW p \in Seq(S), NEW q \in Seq(S)
  PROVE  /\ p \o q \in Seq(S)
         /\ Range(p \o q) = Range(p) \cup Range(q)
BY ConcatProperties, RangeConcatenation

\* The plans that are written out.
LEMMA TupleRange ==
  /\ Range(<<>>) = {}
  /\ \A a : Range(<<a>>) = {a}
  /\ \A a, b : Range(<<a, b>>) = {a, b}
  /\ \A a, b, c : Range(<<a, b, c>>) = {a, b, c}
  /\ \A a, b, c, d : Range(<<a, b, c, d>>) = {a, b, c, d}
<1>1. Range(<<>>) = {}  BY DEF Range
<1>2. ASSUME NEW a PROVE Range(<<a>>) = {a}  BY DEF Range
<1>3. ASSUME NEW a, NEW b PROVE Range(<<a, b>>) = {a, b}
  BY DEF Range
<1>4. ASSUME NEW a, NEW b, NEW c PROVE Range(<<a, b, c>>) = {a, b, c}
  BY DEF Range
<1>5. ASSUME NEW a, NEW b, NEW c, NEW d
      PROVE  Range(<<a, b, c, d>>) = {a, b, c, d}
  BY DEF Range
<1>  QED  BY <1>1, <1>2, <1>3, <1>4, <1>5
=============================================================================
