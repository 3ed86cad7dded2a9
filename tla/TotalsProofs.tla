---------------------------- MODULE TotalsProofs ----------------------------
(***************************************************************************)
(* Sums over finite sets: what the proofs about accounts, quotas and       *)
(* ledgers need to know of them.  The recursion that defines a sum has one *)
(* solution, which is shown by minimal counterexample, since the set of    *)
(* subsets of a finite set is well-founded.                                *)
(***************************************************************************)
EXTENDS Totals, FiniteSetTheorems, WellFoundedInduction, TLAPS

\* The element that the library takes out of s, the recursion of a sum over the
\* subsets of S, and its solution.
First(s) == CHOOSE x \in s : TRUE
Sums(g, f, S) ==
  g = [s \in SUBSET S |-> IF s = {} THEN 0 ELSE f[First(s)] + g[s \ {First(s)}]]
SumOf(f, S) == CHOOSE g : Sums(g, f, S)

\* Total is what its recursion computes.
LEMMA TotalDef == \A f, S : Total(f, S) = SumOf(f, S)[S]
BY DEF Total, SumOf, Sums, First, MapThenSumSet, MapThenFoldSet

\* A is a minimal member of T, and T holds subsets of the finite set S.
Minimal(A, T) == A \in T /\ \A B : B \in T /\ B \subseteq A => B = A
SubsetsOf(T, S) == IsFiniteSet(S) /\ T \subseteq SUBSET S /\ T # {}

\* Induction over finite sets, by a minimal counterexample: a collection of
\* subsets of a finite set has a minimal one.
LEMMA MinimalSubset == \A S, T : SubsetsOf(T, S) => \E A : Minimal(A, T)
<1>  SUFFICES ASSUME NEW S, NEW T, IsFiniteSet(S), T \subseteq SUBSET S, T # {}
              PROVE  \E A : A \in T /\ \A B : B \in T /\ B \subseteq A => B = A
  BY DEF SubsetsOf, Minimal
<1>1. T \subseteq FiniteSubsetsOf(S)
  BY FS_FiniteSubsetsOfFinite
<1>2. \E A \in T : \A B \in T : <<B, A>> \notin StrictSubsetOrdering(S)
  BY <1>1, FS_StrictSubsetOrderingWellFounded, WFMin
<1>  QED  BY <1>2 DEF StrictSubsetOrdering

\* The recursion takes an element of the set.
LEMMA FirstOf == \A s : s # {} => First(s) \in s
BY DEF First

\* What a step of the recursion needs: the sums over a set are those over its
\* subsets.
LEMMA SumsAt ==
  \A f, S, g : Sums(g, f, S) =>
    /\ g[{}] = 0
    /\ \A s : s \subseteq S /\ s # {} =>
         g[s] = f[First(s)] + g[s \ {First(s)}]
BY DEF Sums

\* There is one recursion: over a part of a set it computes the same.
LEMMA SumsUnique ==
  \A f, S, R, T, g, h :
    IsFiniteSet(S) /\ R \subseteq S /\ T \subseteq R /\ Sums(g, f, S) /\ Sums(h, f, R)
    => g[T] = h[T]
<1>  SUFFICES ASSUME NEW f, NEW S, NEW R, NEW T, NEW g, NEW h,
                     IsFiniteSet(S), R \subseteq S, T \subseteq R,
                     Sums(g, f, S), Sums(h, f, R), g[T] # h[T]
              PROVE  FALSE
  OBVIOUS
<1>  PICK bad : bad = {A \in SUBSET T : g[A] # h[A]}
  OBVIOUS
<1>1. bad # {} /\ bad \subseteq SUBSET S
  <2>1. T \in bad  OBVIOUS
  <2>2. bad \subseteq SUBSET S  OBVIOUS
  <2>  QED  BY <2>1, <2>2
<1>2. SubsetsOf(bad, S)
  BY <1>1 DEF SubsetsOf
<1>  PICK A : Minimal(A, bad)
  BY <1>2, MinimalSubset, Zenon
<1>3. A \in bad /\ \A B : B \in bad /\ B \subseteq A => B = A
  BY DEF Minimal
<1>4. A # {}
  <2>1. g[{}] = 0 /\ h[{}] = 0
    BY SumsAt
  <2>  QED  BY <1>3, <2>1
<1>5. First(A) \in A
  BY <1>4, FirstOf
<1>6. g[A \ {First(A)}] = h[A \ {First(A)}]
  BY <1>3, <1>5
<1>7. A \subseteq S /\ A \subseteq R
  BY <1>3
<1>8. /\ g[A] = f[First(A)] + g[A \ {First(A)}]
      /\ h[A] = f[First(A)] + h[A \ {First(A)}]
  <2>1. g[A] = f[First(A)] + g[A \ {First(A)}]
    BY <1>4, <1>7 DEF Sums
  <2>2. h[A] = f[First(A)] + h[A \ {First(A)}]
    BY <1>4, <1>7 DEF Sums
  <2>  QED  BY <2>1, <2>2
<1>9. g[A] # h[A]
  BY <1>3
<1>  QED  BY <1>6, <1>8, <1>9

\* There is such a recursion over every finite set.
LEMMA SumsExist == \A f, S : IsFiniteSet(S) => Sums(SumOf(f, S), f, S)
<1>  SUFFICES ASSUME NEW f, NEW S, IsFiniteSet(S), ~Sums(SumOf(f, S), f, S)
              PROVE  FALSE
  OBVIOUS
<1>  PICK bad : bad = {A \in SUBSET S : ~Sums(SumOf(f, A), f, A)}
  OBVIOUS
<1>1. bad # {} /\ bad \subseteq SUBSET S
  <2>1. S \in bad  OBVIOUS
  <2>2. bad \subseteq SUBSET S  OBVIOUS
  <2>  QED  BY <2>1, <2>2
<1>10. SubsetsOf(bad, S)
  BY <1>1 DEF SubsetsOf
<1>  PICK A : Minimal(A, bad)
  BY <1>10, MinimalSubset, Zenon
<1>2. A \in bad /\ \A B : B \in bad /\ B \subseteq A => B = A
  BY DEF Minimal
<1>3. IsFiniteSet(A) /\ A \in SUBSET S
  BY <1>2, FS_Subset
<1>4. ASSUME NEW B, B \subseteq A, B # A
      PROVE  Sums(SumOf(f, B), f, B)
  BY <1>2, <1>3, <1>4
<1>  PICK prev : prev = [s \in SUBSET A |-> SumOf(f, s \ {First(s)})[s \ {First(s)}]]
  OBVIOUS
<1>  PICK g : g = [s \in SUBSET A |-> IF s = {} THEN 0 ELSE f[First(s)] + prev[s]]
  OBVIOUS
<1>5. ASSUME NEW s, s \subseteq A, s # {}
      PROVE  prev[s] = g[s \ {First(s)}]
  <2>  PICK t : t = s \ {First(s)}
    OBVIOUS
  <2>0. First(s) \in s
    BY <1>5, FirstOf
  <2>1. t \subseteq A /\ t # A /\ prev[s] = SumOf(f, t)[t]
    BY <1>5, <2>0
  <2>2. Sums(SumOf(f, t), f, t) /\ IsFiniteSet(t)
    BY <1>3, <1>4, <2>1, FS_Subset
  <2>3. CASE t = {}
    <3>1. g[t] = 0  BY <2>1, <2>3
    <3>2. SumOf(f, t)[{}] = 0
      BY <2>2, SumsAt
    <3>  QED  BY <2>1, <2>3, <3>1, <3>2
  <2>4. CASE t # {}
    <3>  PICK r : r = t \ {First(t)}
      OBVIOUS
    <3>0. First(t) \in t
      BY <2>4, FirstOf
    <3>1. g[t] = f[First(t)] + SumOf(f, r)[r]
      BY <2>1, <2>4
    <3>2. SumOf(f, t)[t] = f[First(t)] + SumOf(f, t)[r]
      BY <2>2, <2>4 DEF Sums
    <3>3. r \subseteq t /\ r \subseteq A /\ r # A
      BY <2>1, <3>0
    <3>4. Sums(SumOf(f, r), f, r)
      BY <3>3, <1>4
    <3>5. SumOf(f, t)[r] = SumOf(f, r)[r]
      BY <2>2, <3>3, <3>4, SumsUnique
    <3>  QED  BY <2>1, <3>1, <3>2, <3>5
  <2>  QED  BY <2>3, <2>4
<1>6. Sums(g, f, A)
  BY <1>5 DEF Sums
<1>7. Sums(SumOf(f, A), f, A)
  BY <1>6 DEF SumOf
<1>  QED  BY <1>2, <1>7

\* Nothing sums up to zero.
LEMMA TotalEmpty == \A f : Total(f, {}) = 0
<1>  TAKE f
<1>1. Sums(SumOf(f, {}), f, {})
  BY FS_EmptySet, SumsExist
<1>2. SumOf(f, {})[{}] = 0
  BY <1>1, SumsAt
<1>  QED  BY <1>2, TotalDef

\* The element that the recursion takes can be split off.
LEMMA TotalFirst ==
  \A f, S : IsFiniteSet(S) /\ S # {}
            => Total(f, S) = f[First(S)] + Total(f, S \ {First(S)})
<1>  SUFFICES ASSUME NEW f, NEW S, IsFiniteSet(S), S # {}
              PROVE  Total(f, S) = f[First(S)] + Total(f, S \ {First(S)})
  OBVIOUS
<1>  PICK R : R = S \ {First(S)}
  OBVIOUS
<1>1. R \subseteq S /\ IsFiniteSet(R)
  BY FS_Subset
<1>2. Sums(SumOf(f, S), f, S) /\ Sums(SumOf(f, R), f, R)
  BY <1>1, SumsExist
<1>3. SumOf(f, S)[R] = SumOf(f, R)[R]
  BY <1>1, <1>2, SumsUnique
<1>4. SumOf(f, S)[S] = f[First(S)] + SumOf(f, S)[R]
  BY <1>2 DEF Sums
<1>5. Total(f, S) = SumOf(f, S)[S] /\ Total(f, R) = SumOf(f, R)[R]
  BY TotalDef
<1>  QED  BY <1>3, <1>4, <1>5

\* f gives an integer for each of the finitely many elements of S.
IntOn(f, S) == IsFiniteSet(S) /\ \A x \in S : f[x] \in Int

\* The same holds of every part of S.
LEMMA IntOnSubset == \A f, S, R : IntOn(f, S) /\ R \subseteq S => IntOn(f, R)
BY FS_Subset DEF IntOn

\* A sum of integers is an integer.
LEMMA TotalInt == \A f, S : IntOn(f, S) => Total(f, S) \in Int
<1>  SUFFICES ASSUME NEW f, NEW S, IntOn(f, S), Total(f, S) \notin Int
              PROVE  FALSE
  OBVIOUS
<1>  PICK bad : bad = {A \in SUBSET S : Total(f, A) \notin Int}
  OBVIOUS
<1>1. SubsetsOf(bad, S)
  <2>1. S \in bad  OBVIOUS
  <2>2. bad \subseteq SUBSET S  OBVIOUS
  <2>  QED  BY <2>1, <2>2 DEF SubsetsOf, IntOn
<1>  PICK A : Minimal(A, bad)
  BY <1>1, MinimalSubset, Zenon
<1>2. A \in bad /\ \A B : B \in bad /\ B \subseteq A => B = A
  BY DEF Minimal
<1>3. A # {}
  <2>1. Total(f, {}) \in Int
    BY TotalEmpty
  <2>2. Total(f, A) \notin Int
    BY <1>2
  <2>  QED  BY <2>1, <2>2, Zenon
<1>  PICK x : x = First(A)
  OBVIOUS
<1>4. x \in A
  BY <1>3, FirstOf
<1>5. Total(f, A \ {x}) \in Int
  BY <1>2, <1>4
<1>6. IsFiniteSet(A) /\ f[x] \in Int
  BY <1>2, <1>4, FS_Subset DEF IntOn
<1>7. Total(f, A) = f[x] + Total(f, A \ {x})
  BY <1>3, <1>6, TotalFirst
<1>  QED  BY <1>2, <1>5, <1>6, <1>7

\* Any element can be split off a sum.
LEMMA TotalSplit ==
  \A f, S, x : IntOn(f, S) /\ x \in S => Total(f, S) = f[x] + Total(f, S \ {x})
<1>  SUFFICES ASSUME NEW f, NEW S, IntOn(f, S), NEW z \in S,
                     Total(f, S) # f[z] + Total(f, S \ {z})
              PROVE  FALSE
  OBVIOUS
<1>  PICK bad : bad = {A \in SUBSET S : \E x \in A : Total(f, A) # f[x] + Total(f, A \ {x})}
  OBVIOUS
<1>1. SubsetsOf(bad, S)
  <2>1. S \in bad  OBVIOUS
  <2>2. bad \subseteq SUBSET S  OBVIOUS
  <2>  QED  BY <2>1, <2>2 DEF SubsetsOf, IntOn
<1>  PICK A : Minimal(A, bad)
  BY <1>1, MinimalSubset, Zenon
<1>2. A \in bad /\ \A B : B \in bad /\ B \subseteq A => B = A
  BY DEF Minimal
<1>3. A \subseteq S
  BY <1>2
<1>  PICK x : x \in A /\ Total(f, A) # f[x] + Total(f, A \ {x})
  BY <1>2
<1>  PICK y : y = First(A)
  OBVIOUS
<1>4. y \in A /\ y # x
  <2>1. IsFiniteSet(A) /\ A # {}
    BY <1>3, FS_Subset DEF IntOn
  <2>2. Total(f, A) = f[y] + Total(f, A \ {y})
    BY <2>1, TotalFirst
  <2>  QED  BY <2>1, <2>2, FirstOf
<1>5. Total(f, A) = f[y] + Total(f, A \ {y})
  BY <1>3, <1>4, TotalFirst, FS_Subset DEF IntOn
<1>  PICK P : P = A \ {y}
  OBVIOUS
<1>  PICK Q : Q = A \ {x}
  OBVIOUS
<1>  PICK R : R = A \ {x, y}
  OBVIOUS
<1>6. Total(f, P) = f[x] + Total(f, R)
  <2>1. P \in SUBSET S /\ x \in P /\ P \ {x} = R
    BY <1>3, <1>4
  <2>2. P \subseteq A /\ P # A
    BY <1>4
  <2>3. P \notin bad
    BY <1>2, <2>2
  <2>  QED  BY <2>1, <2>3
<1>7. Total(f, Q) = f[y] + Total(f, R)
  <2>1. Q \in SUBSET S /\ y \in Q /\ Q \ {y} = R
    BY <1>3, <1>4
  <2>2. Q \subseteq A /\ Q # A
    BY <1>4
  <2>3. Q \notin bad
    BY <1>2, <2>2
  <2>  QED  BY <2>1, <2>3
<1>8. f[x] \in Int /\ f[y] \in Int /\ Total(f, R) \in Int
  <2>1. IntOn(f, R)
    BY <1>3, IntOnSubset
  <2>2. Total(f, R) \in Int
    BY <2>1, TotalInt
  <2>  QED  BY <1>3, <1>4, <2>2 DEF IntOn
<1>  QED  BY <1>5, <1>6, <1>7, <1>8

\* Equal summands give equal sums.
LEMMA TotalSame ==
  \A f, g, S : IntOn(f, S) /\ (\A x \in S : f[x] = g[x]) => Total(f, S) = Total(g, S)
<1>  SUFFICES ASSUME NEW f, NEW g, NEW S, IntOn(f, S), \A x \in S : f[x] = g[x],
                     Total(f, S) # Total(g, S)
              PROVE  FALSE
  OBVIOUS
<1>  PICK bad : bad = {A \in SUBSET S : Total(f, A) # Total(g, A)}
  OBVIOUS
<1>1. SubsetsOf(bad, S)
  <2>1. S \in bad  OBVIOUS
  <2>2. bad \subseteq SUBSET S  OBVIOUS
  <2>  QED  BY <2>1, <2>2 DEF SubsetsOf, IntOn
<1>  PICK A : Minimal(A, bad)
  BY <1>1, MinimalSubset, Zenon
<1>2. A \in bad /\ \A B : B \in bad /\ B \subseteq A => B = A
  BY DEF Minimal
<1>3. A # {} /\ A \subseteq S /\ Total(f, A) # Total(g, A)
  BY <1>2, TotalEmpty
<1>  PICK x : x = First(A)
  OBVIOUS
<1>4. x \in A /\ IsFiniteSet(A)
  BY <1>3, FirstOf, FS_Subset DEF IntOn
<1>5. Total(f, A \ {x}) = Total(g, A \ {x})
  BY <1>2, <1>4
<1>6. /\ Total(f, A) = f[x] + Total(f, A \ {x})
      /\ Total(g, A) = g[x] + Total(g, A \ {x})
  BY <1>3, <1>4, TotalFirst
<1>7. f[x] = g[x]
  BY <1>3, <1>4
<1>  QED  BY <1>3, <1>5, <1>6, <1>7

\* The part of x in a sum over S.
At(f, S, x) == IF x \in S THEN f[x] ELSE 0

\* A sum with and without x, whether x is in the set or not.
LEMMA TotalWithout ==
  \A f, S, x : IntOn(f, S) => Total(f, S) = Total(f, S \ {x}) + At(f, S, x)
<1>  SUFFICES ASSUME NEW f, NEW S, NEW x, IntOn(f, S)
              PROVE  Total(f, S) = Total(f, S \ {x}) + At(f, S, x)
  OBVIOUS
<1>1. Total(f, S \ {x}) \in Int
  <2>1. S \ {x} \subseteq S
    OBVIOUS
  <2>2. IntOn(f, S \ {x})
    BY <2>1, IntOnSubset
  <2>  QED  BY <2>2, TotalInt
<1>2. CASE x \in S
  <2>1. Total(f, S) = f[x] + Total(f, S \ {x})
    BY <1>2, TotalSplit
  <2>2. At(f, S, x) = f[x] /\ f[x] \in Int
    BY <1>2 DEF IntOn, At
  <2>  QED  BY <1>1, <2>1, <2>2
<1>3. CASE x \notin S
  <2>1. S \ {x} = S /\ At(f, S, x) = 0
    BY <1>3 DEF At
  <2>  QED  BY <1>1, <2>1
<1>  QED  BY <1>2, <1>3

\* The part of one element is an integer.
LEMMA AtInt == \A f, S, x : IntOn(f, S) => At(f, S, x) \in Int
BY DEF IntOn, At

\* What most steps of a model do to a sum: they change the part of one element
\* only, which may also come or go.
LEMMA TotalStep ==
  \A f, g, S, R, x :
    IntOn(f, S) /\ IntOn(g, R) /\ S \ {x} = R \ {x} /\ (\A y \in S \ {x} : f[y] = g[y])
    => Total(g, R) = Total(f, S) - At(f, S, x) + At(g, R, x)
<1>  SUFFICES ASSUME NEW f, NEW g, NEW S, NEW R, NEW x, IntOn(f, S), IntOn(g, R),
                     S \ {x} = R \ {x}, \A y \in S \ {x} : f[y] = g[y]
              PROVE  Total(g, R) = Total(f, S) - At(f, S, x) + At(g, R, x)
  OBVIOUS
<1>  PICK U : U = S \ {x}
  OBVIOUS
<1>1. IntOn(f, U) /\ Total(f, U) = Total(g, U) /\ Total(f, U) \in Int
  <2>1. IntOn(f, U)
    BY IntOnSubset
  <2>  QED  BY <2>1, TotalSame, TotalInt
<1>2. Total(f, S) = Total(f, U) + At(f, S, x)
  BY TotalWithout
<1>3. Total(g, R) = Total(g, U) + At(g, R, x)
  BY TotalWithout
<1>4. At(f, S, x) \in Int /\ At(g, R, x) \in Int
  BY AtInt
<1>  QED  BY <1>1, <1>2, <1>3, <1>4

\* f gives a natural number for each of the finitely many elements of S.
NatOn(f, S) == IsFiniteSet(S) /\ \A x \in S : f[x] \in Nat

\* Natural numbers are integers.
LEMMA NatIsInt == \A f, S : NatOn(f, S) => IntOn(f, S)
BY DEF NatOn, IntOn

\* Smaller summands give smaller sums.
LEMMA TotalMonotone ==
  \A f, g, S : IntOn(f, S) /\ IntOn(g, S) /\ (\A x \in S : f[x] <= g[x])
               => Total(f, S) <= Total(g, S)
<1>  SUFFICES ASSUME NEW f, NEW g, NEW S, IntOn(f, S), IntOn(g, S),
                     \A x \in S : f[x] <= g[x], ~(Total(f, S) <= Total(g, S))
              PROVE  FALSE
  OBVIOUS
<1>0. PICK bad : bad = {A \in SUBSET S : ~(Total(f, A) <= Total(g, A))}
  OBVIOUS
<1>1. SubsetsOf(bad, S)
  <2>1. S \in bad  BY <1>0
  <2>2. bad \subseteq SUBSET S  BY <1>0
  <2>  QED  BY <2>1, <2>2 DEF SubsetsOf, IntOn
<1>  PICK A : Minimal(A, bad)
  BY <1>1, MinimalSubset, Zenon
<1>2. A \in bad /\ \A B : B \in bad /\ B \subseteq A => B = A
  BY DEF Minimal
<1>3. A \subseteq S /\ ~(Total(f, A) <= Total(g, A))
  BY <1>0, <1>2
<1>4. A # {}
  <2>1. Total(f, {}) <= Total(g, {})
    BY TotalEmpty
  <2>  QED  BY <1>3, <2>1, Zenon
<1>  PICK x : x \in A
  BY <1>4
<1>  PICK U : U = A \ {x}
  OBVIOUS
<1>5. Total(f, U) <= Total(g, U)
  <2>1. U \subseteq A /\ U # A /\ U \in SUBSET S
    BY <1>3
  <2>  QED  BY <1>0, <1>2, <2>1
<1>6. IntOn(f, A) /\ IntOn(g, A) /\ IntOn(f, U) /\ IntOn(g, U)
  BY <1>3, IntOnSubset
<1>7. Total(f, A) = f[x] + Total(f, U) /\ Total(g, A) = g[x] + Total(g, U)
  <2>1. Total(f, A) = f[x] + Total(f, A \ {x})
    <3>1. IntOn(f, A)  BY <1>6
    <3>  QED  BY <3>1, TotalSplit
  <2>2. Total(g, A) = g[x] + Total(g, A \ {x})
    <3>1. IntOn(g, A)  BY <1>6
    <3>  QED  BY <3>1, TotalSplit
  <2>  QED  BY <2>1, <2>2
<1>8. Total(f, U) \in Int /\ Total(g, U) \in Int
  BY <1>6, TotalInt
<1>9. f[x] \in Int /\ g[x] \in Int /\ f[x] <= g[x]
  BY <1>3 DEF IntOn
<1>  QED  BY <1>3, <1>5, <1>7, <1>8, <1>9

\* A part of a sum of natural numbers is at most the whole.
LEMMA TotalSubset ==
  \A f, S, R : NatOn(f, S) /\ R \subseteq S => Total(f, R) <= Total(f, S)
<1>  SUFFICES ASSUME NEW f, NEW S, NEW R, NatOn(f, S), R \subseteq S,
                     ~(Total(f, R) <= Total(f, S))
              PROVE  FALSE
  OBVIOUS
<1>0. PICK bad : bad = {A \in SUBSET S : R \subseteq A /\ ~(Total(f, R) <= Total(f, A))}
  OBVIOUS
<1>1. SubsetsOf(bad, S)
  <2>1. S \in bad  BY <1>0
  <2>2. bad \subseteq SUBSET S  BY <1>0
  <2>  QED  BY <2>1, <2>2 DEF SubsetsOf, NatOn
<1>  PICK A : Minimal(A, bad)
  BY <1>1, MinimalSubset, Zenon
<1>2. A \in bad /\ \A B : B \in bad /\ B \subseteq A => B = A
  BY DEF Minimal
<1>3. A \subseteq S /\ R \subseteq A /\ ~(Total(f, R) <= Total(f, A))
  BY <1>0, <1>2
<1>4. IntOn(f, A) /\ IntOn(f, R)
  BY <1>3, NatIsInt, IntOnSubset
<1>5. Total(f, A) \in Int /\ Total(f, R) \in Int
  BY <1>4, TotalInt
<1>6. A # R
  BY <1>3, <1>5
<1>  PICK x : x \in A \ R
  BY <1>3, <1>6
<1>  PICK U : U = A \ {x}
  OBVIOUS
<1>7. Total(f, R) <= Total(f, U)
  <2>1. U \subseteq A /\ U # A /\ U \in SUBSET S /\ R \subseteq U
    BY <1>3
  <2>  QED  BY <1>0, <1>2, <2>1
<1>8. IntOn(f, U)
  <2>1. U \subseteq A
    OBVIOUS
  <2>  QED  BY <2>1, <1>4, IntOnSubset
<1>9. Total(f, A) = f[x] + Total(f, U) /\ Total(f, U) \in Int
  <2>1. Total(f, A) = f[x] + Total(f, A \ {x})
    <3>1. IntOn(f, A)  BY <1>4
    <3>  QED  BY <3>1, TotalSplit
  <2>2. Total(f, U) \in Int
    BY <1>8, TotalInt
  <2>  QED  BY <2>1, <2>2
<1>10. f[x] \in Nat
  BY <1>3 DEF NatOn
<1>  QED  BY <1>3, <1>5, <1>7, <1>9, <1>10

\* A sum of natural numbers is one.
LEMMA TotalNat == \A f, S : NatOn(f, S) => Total(f, S) \in Nat
<1>  SUFFICES ASSUME NEW f, NEW S, NatOn(f, S) PROVE Total(f, S) \in Nat
  OBVIOUS
<1>1. Total(f, S) \in Int
  BY NatIsInt, TotalInt
<1>2. Total(f, {}) <= Total(f, S)
  BY TotalSubset
<1>3. Total(f, {}) = 0
  BY TotalEmpty
<1>  QED  BY <1>1, <1>2, <1>3

\* The sum over a union is at most the sums over its parts.
LEMMA TotalUnion ==
  \A f, S, R, T : NatOn(f, S) /\ R \cup T \subseteq S
                 => Total(f, R \cup T) <= Total(f, R) + Total(f, T)
<1>10. SUFFICES ASSUME NEW f, NEW S, NEW R, NEW T, NatOn(f, S), R \cup T \subseteq S,
                       ~(Total(f, R \cup T) <= Total(f, R) + Total(f, T))
                PROVE  FALSE
  OBVIOUS
<1>0. PICK bad : bad = {A \in SUBSET S : ~(Total(f, R \cup A) <= Total(f, R) + Total(f, A))}
  OBVIOUS
<1>1. SubsetsOf(bad, S)
  <2>1. T \in bad  BY <1>0, <1>10
  <2>2. bad \subseteq SUBSET S  BY <1>0
  <2>  QED  BY <1>10, <2>1, <2>2 DEF SubsetsOf, NatOn
<1>  PICK A : Minimal(A, bad)
  BY <1>1, MinimalSubset, Zenon
<1>2. A \in bad /\ \A B : B \in bad /\ B \subseteq A => B = A
  BY DEF Minimal
<1>3. A \subseteq S /\ ~(Total(f, R \cup A) <= Total(f, R) + Total(f, A))
  BY <1>0, <1>2
<1>4. \A B : B \subseteq S => IntOn(f, B) /\ Total(f, B) \in Int
  BY <1>10, NatIsInt, IntOnSubset, TotalInt
<1>5. A # {}
  <2>1. SUFFICES ASSUME A = {} PROVE FALSE
    OBVIOUS
  <2>2. R \cup A = R /\ Total(f, A) = 0
    BY <2>1, TotalEmpty
  <2>3. Total(f, R) \in Int
    BY <1>4, <1>10
  <2>  QED  BY <1>3, <2>2, <2>3
<1>  PICK x : x \in A
  BY <1>5
<1>6. PICK U : U = A \ {x}
  OBVIOUS
<1>7. Total(f, R \cup U) <= Total(f, R) + Total(f, U)
  <2>1. U \subseteq A /\ U # A /\ U \in SUBSET S
    BY <1>3, <1>6
  <2>  QED  BY <1>0, <1>2, <2>1
<1>8. Total(f, A) = f[x] + Total(f, U) /\ f[x] \in Nat
  <2>1. Total(f, A) = f[x] + Total(f, A \ {x})
    <3>1. IntOn(f, A)  BY <1>3, <1>4
    <3>  QED  BY <3>1, TotalSplit
  <2>2. f[x] \in Nat
    BY <1>3, <1>10 DEF NatOn
  <2>  QED  BY <1>6, <2>1, <2>2
<1>9. Total(f, R \cup A) <= f[x] + Total(f, R \cup U)
  <2>1. CASE x \in R
    <3>1. R \cup A = R \cup U
      BY <2>1, <1>6
    <3>2. Total(f, R \cup U) \in Int
      BY <1>3, <1>4, <1>6, <1>10
    <3>  QED  BY <3>1, <3>2, <1>8
  <2>2. CASE x \notin R
    <3>1. (R \cup A) \ {x} = R \cup U /\ x \in R \cup A /\ R \cup A \subseteq S
      BY <2>2, <1>3, <1>6, <1>10
    <3>2. Total(f, R \cup A) = f[x] + Total(f, (R \cup A) \ {x})
      <4>1. IntOn(f, R \cup A)  BY <3>1, <1>4
      <4>  QED  BY <3>1, <4>1, TotalSplit
    <3>3. Total(f, R \cup A) \in Int
      BY <3>1, <1>4
    <3>  QED  BY <3>1, <3>2, <3>3
  <2>  QED  BY <2>1, <2>2
<1>11. /\ Total(f, R \cup U) \in Int /\ Total(f, R) \in Int
       /\ Total(f, U) \in Int /\ Total(f, A) \in Int /\ Total(f, R \cup A) \in Int
  BY <1>3, <1>4, <1>6, <1>10
<1>  QED  BY <1>3, <1>7, <1>8, <1>9, <1>11

\* Sums are subtracted element by element.
LEMMA TotalMinus ==
  \A f, g, h, S :
    IntOn(f, S) /\ IntOn(g, S) /\ IntOn(h, S) /\ (\A x \in S : h[x] = f[x] - g[x])
    => Total(h, S) = Total(f, S) - Total(g, S)
<1>10. SUFFICES ASSUME NEW f, NEW g, NEW h, NEW S, IntOn(f, S), IntOn(g, S), IntOn(h, S),
                     \A x \in S : h[x] = f[x] - g[x],
                     Total(h, S) # Total(f, S) - Total(g, S)
              PROVE  FALSE
  OBVIOUS
<1>0. PICK bad : bad = {A \in SUBSET S : Total(h, A) # Total(f, A) - Total(g, A)}
  OBVIOUS
<1>1. SubsetsOf(bad, S)
  <2>1. S \in bad  BY <1>0, <1>10
  <2>2. bad \subseteq SUBSET S  BY <1>0
  <2>  QED  BY <1>10, <2>1, <2>2 DEF SubsetsOf, IntOn
<1>  PICK A : Minimal(A, bad)
  BY <1>1, MinimalSubset, Zenon
<1>2. A \in bad /\ \A B : B \in bad /\ B \subseteq A => B = A
  BY DEF Minimal
<1>3. A \subseteq S /\ Total(h, A) # Total(f, A) - Total(g, A)
  BY <1>0, <1>2
<1>4. A # {}
  <2>1. Total(h, {}) = Total(f, {}) - Total(g, {})
    BY TotalEmpty
  <2>  QED  BY <1>3, <2>1, Zenon
<1>  PICK x : x \in A
  BY <1>4
<1>  PICK U : U = A \ {x}
  OBVIOUS
<1>5. Total(h, U) = Total(f, U) - Total(g, U)
  <2>1. U \subseteq A /\ U # A /\ U \in SUBSET S
    BY <1>3
  <2>  QED  BY <1>0, <1>2, <2>1
<1>6. /\ IntOn(f, A) /\ IntOn(g, A) /\ IntOn(h, A)
      /\ IntOn(f, U) /\ IntOn(g, U) /\ IntOn(h, U)
  BY <1>3, <1>10, IntOnSubset
<1>7. /\ Total(f, A) = f[x] + Total(f, U) /\ Total(g, A) = g[x] + Total(g, U)
      /\ Total(h, A) = h[x] + Total(h, U)
  <2>1. Total(f, A) = f[x] + Total(f, A \ {x})
    <3>1. IntOn(f, A)  BY <1>6
    <3>  QED  BY <3>1, TotalSplit
  <2>2. Total(g, A) = g[x] + Total(g, A \ {x})
    <3>1. IntOn(g, A)  BY <1>6
    <3>  QED  BY <3>1, TotalSplit
  <2>3. Total(h, A) = h[x] + Total(h, A \ {x})
    <3>1. IntOn(h, A)  BY <1>6
    <3>  QED  BY <3>1, TotalSplit
  <2>  QED  BY <2>1, <2>2, <2>3
<1>8. Total(f, U) \in Int /\ Total(g, U) \in Int
  BY <1>6, TotalInt
<1>9. f[x] \in Int /\ g[x] \in Int /\ h[x] = f[x] - g[x]
  BY <1>3, <1>10 DEF IntOn
<1>  QED  BY <1>3, <1>5, <1>7, <1>8, <1>9
=============================================================================
