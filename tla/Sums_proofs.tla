------------------------------ MODULE Sums_proofs ------------------------------
(***************************************************************************)
(* Sums over finite sets.  The community operator MapThenSumSet takes its  *)
(* elements in an order of its own choosing; these lemmas say what the     *)
(* registries' books rely on: the sum has any order, and it follows its    *)
(* summands.  Induction is by least counterexample.                        *)
(***************************************************************************)
EXTENDS Integers, FiniteSetsExt, FiniteSetTheorems, WellFoundedInduction, TLAPS

\* A non-empty set of natural numbers has a least element.
LEMMA LeastNat ==
  ASSUME NEW S, S \subseteq Nat, S # {}
  PROVE  \E x \in S : \A y \in S : x <= y
  <1> DEFINE R == {ss \in Nat \X Nat : ss[1] < ss[2]}
  <1>1. OpToRel(<, Nat) = R
    BY Zenon DEF OpToRel
  <1>2. IsWellFoundedOn(R, Nat)
    BY <1>1, NatLessThanWellFounded, Zenon
  <1>3. \E x \in S : \A y \in S : ~(<<y, x>> \in R)
    BY <1>2, WFMin, Zenon
  <1>4. PICK x \in S : \A y \in S : ~(<<y, x>> \in R)
    BY <1>3
  <1>5. ASSUME NEW y \in S PROVE x <= y
    <2>1. <<y, x>> \notin R /\ x \in Nat /\ y \in Nat
      BY <1>4
    <2>2. ~(y < x)
      BY <2>1
    <2> QED BY <2>1, <2>2
  <1> QED BY <1>5

--------------------------------------------------------------------------------
\* The operator itself.

Sum(f, S) == MapThenSumSet(LAMBDA k : f[k], S)

SumOfAmounts(batch, S) == MapThenSumSet(LAMBDA k : batch[k].amount, S)

First(s) == CHOOSE x \in s : TRUE

\* One unfolding of the sums h of the subsets of S.
Unfold(h, f, S) ==
  [s \in SUBSET S |-> IF s = {} THEN 0 ELSE f[First(s)] + h[s \ {First(s)}]]

LEMMA SumByUnfolding ==
  ASSUME NEW f, NEW S
  PROVE  Sum(f, S) = (CHOOSE h : h = Unfold(h, f, S))[S]
  BY Zenon DEF Sum, MapThenSumSet, MapThenFoldSet, Unfold, First

LEMMA SumOfAmountsByUnfolding ==
  ASSUME NEW batch, NEW S
  PROVE  SumOfAmounts(batch, S) =
           (CHOOSE h : h = [s \in SUBSET S |->
              IF s = {} THEN 0 ELSE batch[First(s)].amount + h[s \ {First(s)}]])[S]
  BY Zenon DEF SumOfAmounts, MapThenSumSet, MapThenFoldSet, First

LEMMA FirstIsMember ==
  ASSUME NEW s, s # {}
  PROVE  First(s) \in s
  BY DEF First

\* Sums of equal summands are equal, however large the set.
LEMMA SumAgree ==
  ASSUME NEW f, NEW g, NEW S, \A k \in S : f[k] = g[k]
  PROVE  Sum(f, S) = Sum(g, S)
  <1>1. ASSUME NEW h PROVE Unfold(h, f, S) = Unfold(h, g, S)
    BY FirstIsMember DEF Unfold
  <1>2. (CHOOSE h : h = Unfold(h, f, S)) = (CHOOSE h : h = Unfold(h, g, S))
    BY <1>1, Zenon
  <1> QED BY <1>2, SumByUnfolding

LEMMA AmountsAgree ==
  ASSUME NEW batch, NEW f, NEW S, \A k \in S : batch[k].amount = f[k]
  PROVE  SumOfAmounts(batch, S) = Sum(f, S)
  <1> DEFINE UnfoldAmounts(h) ==
        [s \in SUBSET S |->
           IF s = {} THEN 0 ELSE batch[First(s)].amount + h[s \ {First(s)}]]
  <1>1. ASSUME NEW h PROVE UnfoldAmounts(h) = Unfold(h, f, S)
    BY FirstIsMember DEF Unfold
  <1>2. SumOfAmounts(batch, S) = (CHOOSE h : h = UnfoldAmounts(h))[S]
    BY SumOfAmountsByUnfolding
  <1> HIDE DEF UnfoldAmounts
  <1>3. (CHOOSE h : h = UnfoldAmounts(h)) = (CHOOSE h : h = Unfold(h, f, S))
    BY <1>1, Zenon
  <1> QED BY <1>2, <1>3, SumByUnfolding

--------------------------------------------------------------------------------
\* The function of all partial sums exists, and is the same for every set.

LEMMA SmallerSet ==
  ASSUME NEW S, IsFiniteSet(S), NEW x \in S
  PROVE  /\ IsFiniteSet(S \ {x}) /\ Cardinality(S) \in Nat \ {0}
         /\ Cardinality(S \ {x}) = Cardinality(S) - 1
  BY FS_RemoveElement, FS_CardinalityType, FS_EmptySet

LEMMA PartialSumsExist ==
  ASSUME NEW f, NEW S, IsFiniteSet(S)
  PROVE  \E h : h = Unfold(h, f, S)
  <1> DEFINE
        Sound(h, n) == \A s \in SUBSET S : Cardinality(s) <= n =>
                         h[s] = IF s = {} THEN 0 ELSE f[First(s)] + h[s \ {First(s)}]
        Reached(n) == \E h : h = [s \in SUBSET S |-> h[s]] /\ Sound(h, n)
        Missed == {n \in Nat : ~Reached(n)}
  <1>0. \A s \in SUBSET S : IsFiniteSet(s) /\ Cardinality(s) \in Nat
    BY FS_Subset, FS_CardinalityType
  <1>1. Missed = {}
    <2> SUFFICES ASSUME Missed # {} PROVE FALSE
      OBVIOUS
    <2>1. PICK n \in Missed : \A k \in Missed : n <= k
      <3> HIDE DEF Missed
      <3>1. Missed \subseteq Nat
        BY DEF Missed
      <3> QED BY <3>1, LeastNat
    <2>2. CASE n = 0
      <3> DEFINE z == [s \in SUBSET S |-> 0]
      <3>1. z = [s \in SUBSET S |-> z[s]]
        OBVIOUS
      <3>2. Sound(z, 0)
        BY <1>0, FS_EmptySet
      <3>3. Reached(0)
        <4> HIDE DEF z, Sound
        <4> QED BY <3>1, <3>2
      <3> QED BY <2>2, <3>3
    <2>3. CASE n # 0
      <3>1. n \in Nat /\ n - 1 \in Nat /\ Reached(n - 1)
        <4> HIDE DEF Reached
        <4>1. n \in Nat /\ n - 1 \in Nat /\ ~(n <= n - 1)
          BY <2>1, <2>3
        <4> QED BY <2>1, <4>1
      <3>2. PICK h : h = [s \in SUBSET S |-> h[s]] /\ Sound(h, n - 1)
        BY <3>1
      <3> DEFINE g == [s \in SUBSET S |->
                         IF Cardinality(s) <= n - 1 THEN h[s]
                         ELSE IF s = {} THEN 0 ELSE f[First(s)] + h[s \ {First(s)}]]
      <3>3. ASSUME NEW s \in SUBSET S, Cardinality(s) <= n
            PROVE  g[s] = IF s = {} THEN 0 ELSE f[First(s)] + g[s \ {First(s)}]
        <4>1. CASE s = {}
          <5>1. Cardinality(s) <= n - 1 => h[s] = 0
            BY <3>2, <4>1
          <5>2. g[s] = 0
            BY <4>1, <5>1
          <5> QED BY <4>1, <5>2
        <4>2. CASE s # {}
          <5>1. First(s) \in s /\ s \ {First(s)} \in SUBSET S
            BY <4>2, FirstIsMember
          <5>2. Cardinality(s \ {First(s)}) <= n - 1
            <6>1. Cardinality(s \ {First(s)}) = Cardinality(s) - 1 /\ Cardinality(s) \in Nat
              BY <1>0, <5>1, SmallerSet
            <6> QED BY <3>1, <3>3, <6>1
          <5>3. g[s \ {First(s)}] = h[s \ {First(s)}]
            BY <5>1, <5>2
          <5>4. g[s] = f[First(s)] + h[s \ {First(s)}]
            BY <3>2, <4>2
          <5> QED BY <4>2, <5>3, <5>4
        <4> QED BY <4>1, <4>2
      <3>4. g = [s \in SUBSET S |-> g[s]]
        OBVIOUS
      <3> HIDE DEF g
      <3>5. Sound(g, n)
        BY <3>3
      <3>6. Reached(n)
        <4> HIDE DEF Sound
        <4> QED BY <3>4, <3>5
      <3> QED BY <2>1, <3>6
    <2> QED BY <2>2, <2>3
  <1>2. Cardinality(S) \in Nat
    BY <1>0
  <1>3. Reached(Cardinality(S))
    <2> HIDE DEF Reached
    <2> QED BY <1>1, <1>2
  <1>4. PICK h : h = [s \in SUBSET S |-> h[s]] /\ Sound(h, Cardinality(S))
    BY <1>3
  <1>5. \A s \in SUBSET S : Cardinality(s) <= Cardinality(S)
    BY FS_Subset
  <1>6. h = Unfold(h, f, S)
    BY <1>4, <1>5 DEF Unfold
  <1> QED BY <1>6

LEMMA PartialSumsAgree ==
  ASSUME NEW f, NEW S, NEW T, NEW g, NEW h, NEW s,
         g = Unfold(g, f, S), h = Unfold(h, f, T),
         s \subseteq S, s \subseteq T, IsFiniteSet(s)
  PROVE  g[s] = h[s]
  <1> DEFINE Differ == {n \in Nat : \E t \in SUBSET s : Cardinality(t) = n /\ g[t] # h[t]}
  <1>0. \A t \in SUBSET s : IsFiniteSet(t) /\ Cardinality(t) \in Nat
    BY FS_Subset, FS_CardinalityType
  <1>1. Differ = {}
    <2> SUFFICES ASSUME Differ # {} PROVE FALSE
      OBVIOUS
    <2>1. PICK n \in Differ : \A k \in Differ : n <= k
      <3>1. Differ \subseteq Nat
        OBVIOUS
      <3> HIDE DEF Differ
      <3> QED BY <3>1, LeastNat
    <2>2. PICK t \in SUBSET s : Cardinality(t) = n /\ g[t] # h[t]
      BY <2>1
    <2>3. /\ g[t] = IF t = {} THEN 0 ELSE f[First(t)] + g[t \ {First(t)}]
          /\ h[t] = IF t = {} THEN 0 ELSE f[First(t)] + h[t \ {First(t)}]
      BY <2>2 DEF Unfold
    <2>4. t # {}
      BY <2>2, <2>3
    <2>5. /\ t \ {First(t)} \in SUBSET s
          /\ Cardinality(t \ {First(t)}) \in Nat
          /\ Cardinality(t \ {First(t)}) < n
      BY <1>0, <2>2, <2>4, FirstIsMember, SmallerSet
    <2>6. g[t \ {First(t)}] = h[t \ {First(t)}]
      BY <2>1, <2>5
    <2> QED BY <2>2, <2>3, <2>6
  <1> QED BY <1>0, <1>1

LEMMA SumUnfolds ==
  ASSUME NEW f, NEW S, IsFiniteSet(S)
  PROVE  Sum(f, S) = IF S = {} THEN 0 ELSE f[First(S)] + Sum(f, S \ {First(S)})
  <1> DEFINE T == S \ {First(S)}
             g == CHOOSE h : h = Unfold(h, f, S)
             k == CHOOSE h : h = Unfold(h, f, T)
  <1>1. IsFiniteSet(T)
    BY FS_Subset
  <1>2. Sum(f, S) = g[S] /\ Sum(f, T) = k[T]
    BY SumByUnfolding
  <1>3. (\E h : h = Unfold(h, f, S)) /\ (\E h : h = Unfold(h, f, T))
    <2> HIDE DEF T
    <2> QED BY <1>1, PartialSumsExist
  <1>4. g = Unfold(g, f, S) /\ k = Unfold(k, f, T)
    <2> HIDE DEF T
    <2> QED BY <1>3, Zenon
  <1> HIDE DEF g, k
  <1>5. g[T] = k[T]
    BY <1>1, <1>4, PartialSumsAgree
  <1>6. g[S] = IF S = {} THEN 0 ELSE f[First(S)] + g[T]
    BY <1>4 DEF Unfold
  <1> QED BY <1>2, <1>5, <1>6

--------------------------------------------------------------------------------
\* What the books need.

LEMMA SumOfNone ==
  ASSUME NEW f
  PROVE  Sum(f, {}) = 0
  BY FS_EmptySet, SumUnfolds

\* A sum of integers is one, and its elements come in any order.
LEMMA SumPick ==
  ASSUME NEW S, IsFiniteSet(S), NEW f, \A k \in S : f[k] \in Int
  PROVE  /\ Sum(f, S) \in Int
         /\ \A x \in S : Sum(f, S) = f[x] + Sum(f, S \ {x})
  <1> DEFINE
        Fine(s) == /\ Sum(f, s) \in Int
                   /\ \A x \in s : Sum(f, s) = f[x] + Sum(f, s \ {x})
        Wrong == {n \in Nat : \E s \in SUBSET S : Cardinality(s) = n /\ ~Fine(s)}
  <1>0. \A s \in SUBSET S : IsFiniteSet(s) /\ Cardinality(s) \in Nat
    BY FS_Subset, FS_CardinalityType
  <1>1. Wrong = {}
    <2> SUFFICES ASSUME Wrong # {} PROVE FALSE
      OBVIOUS
    <2>1. PICK n \in Wrong : \A k \in Wrong : n <= k
      <3>1. Wrong \subseteq Nat
        OBVIOUS
      <3> HIDE DEF Wrong
      <3> QED BY <3>1, LeastNat
    <2>2. PICK s \in SUBSET S : Cardinality(s) = n /\ ~Fine(s)
      BY <2>1
    <2>3. ASSUME NEW t \in SUBSET S, Cardinality(t) < n PROVE Fine(t)
      <3> HIDE DEF Fine
      <3> QED BY <1>0, <2>1, <2>3
    <2>4. CASE s = {}
      BY <2>2, <2>4, SumOfNone
    <2>5. CASE s # {}
      <3> DEFINE c == First(s)
      <3>1. c \in s /\ f[c] \in Int
        BY <2>5, FirstIsMember
      <3>2. Sum(f, s) = f[c] + Sum(f, s \ {c})
        BY <1>0, <2>5, SumUnfolds
      <3> HIDE DEF c
      <3>3. \A x \in s : /\ s \ {x} \in SUBSET S
                        /\ Cardinality(s \ {x}) < n
        <4> TAKE x \in s
        <4>1. /\ Cardinality(s \ {x}) = Cardinality(s) - 1
              /\ Cardinality(s) \in Nat
          BY <1>0, SmallerSet
        <4> QED BY <2>2, <4>1
      <3>4. Sum(f, s \ {c}) \in Int
        BY <2>3, <3>1, <3>3
      <3>5. ASSUME NEW x \in s PROVE Sum(f, s) = f[x] + Sum(f, s \ {x})
        <4>1. CASE x = c
          BY <3>2, <4>1
        <4>2. CASE x # c
          <5>1. Sum(f, s \ {c}) = f[x] + Sum(f, (s \ {c}) \ {x})
            BY <2>3, <3>1, <3>3, <4>2
          <5>2. /\ Sum(f, s \ {x}) \in Int
                /\ Sum(f, s \ {x}) = f[c] + Sum(f, (s \ {x}) \ {c})
            BY <2>3, <3>1, <3>3, <4>2
          <5>3. (s \ {c}) \ {x} = (s \ {x}) \ {c}
            OBVIOUS
          <5>4. Sum(f, (s \ {x}) \ {c}) \in Int
            <6>1. (s \ {x}) \ {c} \in SUBSET S
              OBVIOUS
            <6>2. Cardinality((s \ {x}) \ {c}) < n
              <7>1. Cardinality((s \ {x}) \ {c}) = Cardinality(s \ {x}) - 1
                BY <1>0, <3>1, <3>3, <4>2, SmallerSet
              <7>2. Cardinality(s \ {x}) \in Nat
                BY <1>0, <3>3
              <7>3. n \in Nat
                BY <2>1
              <7> QED BY <3>3, <7>1, <7>2, <7>3
            <6> QED BY <2>3, <6>1, <6>2
          <5>5. f[x] \in Int /\ Sum(f, (s \ {c}) \ {x}) = Sum(f, (s \ {x}) \ {c})
            BY <5>3
          <5> HIDE DEF Fine
          <5> QED BY <3>1, <3>2, <5>1, <5>2, <5>4, <5>5
        <4> QED BY <4>1, <4>2
      <3>6. Sum(f, s) \in Int
        BY <3>1, <3>2, <3>4
      <3> QED BY <2>2, <3>5, <3>6
    <2> QED BY <2>4, <2>5
  <1>2. Fine(S)
    <2> HIDE DEF Fine
    <2> QED BY <1>0, <1>1
  <1> QED BY <1>2

LEMMA SumOfOne ==
  ASSUME NEW f, NEW x, f[x] \in Int
  PROVE  Sum(f, {x}) = f[x]
  <1>1. {x} \ {x} = {}
    OBVIOUS
  <1>2. Sum(f, {x}) = f[x] + Sum(f, {x} \ {x})
    BY FS_Singleton, SumPick
  <1> QED BY <1>1, <1>2, SumOfNone

\* What makes a statement about the subsets of S hold of S: no least exception.
LEMMA LeastException ==
  ASSUME NEW S, IsFiniteSet(S), NEW Bad, Bad \subseteq SUBSET S, Bad # {}
  PROVE  \E s \in Bad :
           /\ IsFiniteSet(s)
           /\ \A x \in s : s \ {x} \notin Bad
  <1> DEFINE Sizes == {Cardinality(s) : s \in Bad}
  <1>0. \A s \in SUBSET S : IsFiniteSet(s) /\ Cardinality(s) \in Nat
    BY FS_Subset, FS_CardinalityType
  <1>1. PICK n \in Sizes : \A k \in Sizes : n <= k
    <2>1. Sizes \subseteq Nat /\ Sizes # {}
      BY <1>0
    <2> HIDE DEF Sizes
    <2> QED BY <2>1, LeastNat
  <1>2. PICK s \in Bad : Cardinality(s) = n
    BY <1>1
  <1>3. ASSUME NEW x \in s, s \ {x} \in Bad PROVE FALSE
    <2>1. Cardinality(s) \in Nat /\ Cardinality(s \ {x}) = Cardinality(s) - 1
      BY <1>0, SmallerSet
    <2>2. n <= Cardinality(s \ {x})
      BY <1>1, <1>3
    <2> QED BY <1>2, <2>1, <2>2
  <1> QED BY <1>0, <1>3

\* The sum of natural numbers is a natural number.
LEMMA SumOfNats ==
  ASSUME NEW S, IsFiniteSet(S), NEW f, \A k \in S : f[k] \in Nat
  PROVE  Sum(f, S) \in Nat
  <1> DEFINE Bad == {s \in SUBSET S : Sum(f, s) \notin Nat}
  <1>1. Bad = {}
    <2> SUFFICES ASSUME Bad # {} PROVE FALSE
      OBVIOUS
    <2>1. PICK s \in Bad : IsFiniteSet(s) /\ \A x \in s : s \ {x} \notin Bad
      <3>1. Bad \subseteq SUBSET S
        OBVIOUS
      <3> HIDE DEF Bad
      <3> QED BY <3>1, LeastException
    <2>2. s # {}
      BY SumOfNone
    <2>3. PICK x \in s : TRUE
      BY <2>2
    <2>4. Sum(f, s) = f[x] + Sum(f, s \ {x})
      BY <2>1, SumPick
    <2>5. Sum(f, s \ {x}) \in Nat
      BY <2>1
    <2> QED BY <2>4, <2>5
  <1> QED BY <1>1

\* When every summand grows by its own amount the sum grows by their sum.
LEMMA SumPlus ==
  ASSUME NEW S, IsFiniteSet(S), NEW f, NEW g, NEW d,
         \A k \in S : f[k] \in Int /\ d[k] \in Int /\ g[k] = f[k] + d[k]
  PROVE  Sum(g, S) = Sum(f, S) + Sum(d, S)
  <1> DEFINE Bad == {s \in SUBSET S : Sum(g, s) # Sum(f, s) + Sum(d, s)}
  <1>1. Bad = {}
    <2> SUFFICES ASSUME Bad # {} PROVE FALSE
      OBVIOUS
    <2>1. PICK s \in Bad : IsFiniteSet(s) /\ \A x \in s : s \ {x} \notin Bad
      <3>1. Bad \subseteq SUBSET S
        OBVIOUS
      <3> HIDE DEF Bad
      <3> QED BY <3>1, LeastException
    <2>2. s # {}
      <3>1. Sum(f, {}) = 0 /\ Sum(d, {}) = 0 /\ Sum(g, {}) = 0
        BY SumOfNone
      <3>2. Sum(g, {}) = Sum(f, {}) + Sum(d, {})
        BY <3>1
      <3> QED BY <3>2
    <2>3. PICK x \in s : TRUE
      BY <2>2
    <2>4. \A k \in s : f[k] \in Int /\ d[k] \in Int /\ g[k] \in Int
      OBVIOUS
    <2>5. /\ Sum(f, s) = f[x] + Sum(f, s \ {x})
          /\ Sum(d, s) = d[x] + Sum(d, s \ {x})
          /\ Sum(g, s) = g[x] + Sum(g, s \ {x})
      BY <2>1, <2>4, SumPick
    <2>6. IsFiniteSet(s \ {x})
      BY <2>1, FS_Subset
    <2>7. Sum(f, s \ {x}) \in Int /\ Sum(d, s \ {x}) \in Int
      BY <2>4, <2>6, SumPick
    <2>8. Sum(g, s \ {x}) = Sum(f, s \ {x}) + Sum(d, s \ {x})
      BY <2>1
    <2>9. g[x] = f[x] + d[x] /\ f[x] \in Int /\ d[x] \in Int
      OBVIOUS
    <2>10. Sum(g, s) = Sum(f, s) + Sum(d, s)
      BY <2>5, <2>7, <2>8, <2>9
    <2> QED BY <2>10
  <1> QED BY <1>1

\* Zeros do not count.
LEMMA SumDropsZeros ==
  ASSUME NEW S, IsFiniteSet(S), NEW f, NEW T, T \subseteq S,
         \A k \in S : f[k] \in Int, \A k \in S \ T : f[k] = 0
  PROVE  Sum(f, S) = Sum(f, T)
  <1> DEFINE Bad == {s \in SUBSET S : Sum(f, s) # Sum(f, s \intersect T)}
  <1>1. Bad = {}
    <2> SUFFICES ASSUME Bad # {} PROVE FALSE
      OBVIOUS
    <2>1. PICK s \in Bad : IsFiniteSet(s) /\ \A x \in s : s \ {x} \notin Bad
      <3>1. Bad \subseteq SUBSET S
        OBVIOUS
      <3> HIDE DEF Bad
      <3> QED BY <3>1, LeastException
    <2>2. ~(s \subseteq T)
      <3>1. ASSUME s \subseteq T PROVE s \intersect T = s
        BY <3>1
      <3> QED BY <3>1
    <2>3. PICK x \in s : x \notin T
      BY <2>2
    <2>4. Sum(f, s) = f[x] + Sum(f, s \ {x}) /\ f[x] = 0
      BY <2>1, <2>3, SumPick
    <2>5. IsFiniteSet(s \ {x})
      BY <2>1, FS_Subset
    <2>6. Sum(f, s \ {x}) \in Int
      BY <2>5, SumPick
    <2>7. Sum(f, s \ {x}) = Sum(f, s \intersect T)
      <3>1. (s \ {x}) \intersect T = s \intersect T
        BY <2>3
      <3>2. Sum(f, s \ {x}) = Sum(f, (s \ {x}) \intersect T)
        BY <2>1
      <3> QED BY <3>1, <3>2
    <2>8. Sum(f, s) = Sum(f, s \intersect T)
      BY <2>4, <2>6, <2>7
    <2> QED BY <2>8
  <1>2. S \intersect T = T
    OBVIOUS
  <1>3. Sum(f, S) = Sum(f, S \intersect T)
    BY <1>1
  <1> QED BY <1>2, <1>3

LEMMA SumOfZeros ==
  ASSUME NEW S, IsFiniteSet(S), NEW f, \A k \in S : f[k] = 0
  PROVE  Sum(f, S) = 0
  <1>1. \A k \in S : f[k] \in Int
    OBVIOUS
  <1>2. {} \subseteq S /\ \A k \in S \ {} : f[k] = 0
    OBVIOUS
  <1>3. Sum(f, S) = Sum(f, {})
    BY <1>1, <1>2, SumDropsZeros, Zenon
  <1> QED BY <1>3, SumOfNone

\* The sum follows one summand.
LEMMA SumOneChanges ==
  ASSUME NEW S, IsFiniteSet(S), NEW f, NEW g, NEW x, NEW d \in Int,
         \A k \in S : f[k] \in Int,
         \A k \in S \ {x} : g[k] = f[k],
         x \in S => g[x] = f[x] + d
  PROVE  Sum(g, S) = Sum(f, S) + (IF x \in S THEN d ELSE 0)
  <1>1. Sum(f, S) \in Int
    BY SumPick
  <1>2. CASE x \notin S
    <2>1. Sum(g, S) = Sum(f, S)
      BY <1>2, SumAgree
    <2> QED BY <1>1, <1>2, <2>1
  <1>3. CASE x \in S
    <2>1. \A k \in S : g[k] \in Int
      BY <1>3
    <2>2. /\ Sum(f, S) = f[x] + Sum(f, S \ {x})
          /\ Sum(g, S) = g[x] + Sum(g, S \ {x})
      BY <1>3, <2>1, SumPick
    <2>3. Sum(g, S \ {x}) = Sum(f, S \ {x})
      BY SumAgree
    <2>4. IsFiniteSet(S \ {x})
      BY FS_Subset
    <2>5. Sum(f, S \ {x}) \in Int
      BY <2>4, SumPick
    <2>6. f[x] \in Int /\ g[x] = f[x] + d
      BY <1>3
    <2> QED BY <1>3, <2>2, <2>3, <2>5, <2>6
  <1> QED BY <1>2, <1>3

\* Larger summands, larger sum.
LEMMA SumMonotone ==
  ASSUME NEW S, IsFiniteSet(S), NEW f, NEW g,
         \A k \in S : f[k] \in Int /\ g[k] \in Int /\ f[k] <= g[k]
  PROVE  Sum(f, S) <= Sum(g, S)
  <1> DEFINE d == [k \in S |-> g[k] - f[k]]
  <1>1. \A k \in S : d[k] \in Nat /\ f[k] \in Int /\ g[k] = f[k] + d[k]
    OBVIOUS
  <1> HIDE DEF d
  <1>2. \A k \in S : f[k] \in Int /\ d[k] \in Int /\ g[k] = f[k] + d[k]
    BY <1>1
  <1>3. Sum(g, S) = Sum(f, S) + Sum(d, S)
    BY <1>2, SumPlus
  <1>4. Sum(d, S) \in Nat
    BY <1>1, SumOfNats
  <1>5. Sum(f, S) \in Int
    BY <1>2, SumPick
  <1> QED BY <1>3, <1>4, <1>5

\* As many summands as the set has elements, none above the bound.
LEMMA SumAtMost ==
  ASSUME NEW S, IsFiniteSet(S), NEW bound \in Nat, NEW f,
         \A k \in S : f[k] \in Nat /\ f[k] <= bound
  PROVE  Sum(f, S) \in Nat /\ Sum(f, S) <= Cardinality(S) * bound
  <1> DEFINE Bad == {s \in SUBSET S : ~(Sum(f, s) <= Cardinality(s) * bound)}
  <1>1. Bad = {}
    <2> SUFFICES ASSUME Bad # {} PROVE FALSE
      OBVIOUS
    <2>1. PICK s \in Bad : IsFiniteSet(s) /\ \A x \in s : s \ {x} \notin Bad
      <3>1. Bad \subseteq SUBSET S
        OBVIOUS
      <3> HIDE DEF Bad
      <3> QED BY <3>1, LeastException
    <2>2. s # {}
      <3>1. Sum(f, {}) = 0 /\ Cardinality({}) = 0
        BY SumOfNone, FS_EmptySet
      <3> QED BY <2>1, <3>1
    <2>3. PICK x \in s : TRUE
      BY <2>2
    <2>4. Sum(f, s) = f[x] + Sum(f, s \ {x})
      BY <2>1, SumPick
    <2>5. Sum(f, s \ {x}) <= Cardinality(s \ {x}) * bound
      BY <2>1
    <2>6. Cardinality(s) \in Nat /\ Cardinality(s \ {x}) = Cardinality(s) - 1
      BY <2>1, <2>3, SmallerSet, FS_CardinalityType
    <2>7. f[x] \in Nat /\ f[x] <= bound /\ Sum(f, s \ {x}) \in Nat
      <3>1. IsFiniteSet(s \ {x}) /\ \A k \in s \ {x} : f[k] \in Nat
        BY <2>1, FS_Subset
      <3> QED BY <3>1, SumOfNats
    <2> DEFINE n == Cardinality(s)
               rest == Sum(f, s \ {x})
    <2>8. (n - 1) * bound + bound = n * bound /\ n \in Nat /\ (n - 1) * bound \in Int
      BY <2>6
    <2>9. rest \in Nat /\ rest <= (n - 1) * bound /\ Sum(f, s) = f[x] + rest
      BY <2>4, <2>5, <2>6, <2>7
    <2> HIDE DEF n, rest
    <2>10. Sum(f, s) <= n * bound
      BY <2>7, <2>8, <2>9
    <2> QED BY <2>10 DEF n
  <1>2. Sum(f, S) <= Cardinality(S) * bound
    BY <1>1
  <1> QED BY <1>2, SumOfNats

================================================================================
