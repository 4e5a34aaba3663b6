-------------------------- MODULE ThresholdsProofs --------------------------
(***************************************************************************)
(* Sums of costs, and what follows for thresholds.  SumFunctionOnSet is a  *)
(* fold with a recursive function; its properties are shown by induction   *)
(* over finite sets, where the induction hypothesis is a set of sets.      *)
(***************************************************************************)
EXTENDS Thresholds, FiniteSetTheorems, WellFoundedInduction, TLAPS

(* Induction *)

\* A set of numbers that is not empty has a least one.
LEMMA LeastNumber ==
  ASSUME NEW K \in SUBSET Nat, K # {} PROVE \E k \in K : \A j \in K : k <= j
<1> DEFINE LT == OpToRel(<, Nat)
<1>1. IsWellFoundedOn(LT, Nat)
  BY NatLessThanWellFounded
<1>2. \A j, k \in Nat : j < k => <<j, k>> \in LT
  BY DEF OpToRel
<1> HIDE DEF LT
<1>3. PICK k \in K : \A j \in K : ~ (<<j, k>> \in LT)
  BY <1>1, WFMin
<1>4. \A j \in K : ~ (j < k)
  BY <1>2, <1>3
<1> QED BY <1>3, <1>4

\* A set of numbers with 0, and with n + 1 for each n, has all of them.
LEMMA NumberInduction ==
  ASSUME NEW A, 0 \in A, \A n \in Nat : n \in A => n + 1 \in A
  PROVE  Nat \subseteq A
<1> SUFFICES ASSUME Nat \ A # {} PROVE FALSE
  OBVIOUS
<1>1. PICK k \in Nat \ A : \A j \in Nat \ A : k <= j
  BY LeastNumber
<1>2. k # 0 /\ k - 1 \in Nat
  BY <1>1
<1>3. k - 1 \in A
  BY <1>1, <1>2
<1>4. (k - 1) + 1 \in A
  BY <1>2, <1>3
<1> QED BY <1>1, <1>4

\* A set of finite sets with {}, and with a set for which it has all sets of one
\* element less, has all subsets of a finite set.
LEMMA SubsetInduction ==
  ASSUME NEW S, IsFiniteSet(S), NEW A, {} \in A,
         \A s \in SUBSET S : s # {} /\ (\A x \in s : s \ {x} \in A) => s \in A
  PROVE  SUBSET S \subseteq A
<1> DEFINE N == {n \in Nat : \A s \in SUBSET S : Cardinality(s) = n => s \in A}
<1>1. \A s \in SUBSET S : IsFiniteSet(s) /\ Cardinality(s) \in Nat
  BY FS_Subset, FS_CardinalityType
<1>2. 0 \in N
  BY <1>1, FS_EmptySet
<1>3. ASSUME NEW n \in Nat, n \in N PROVE n + 1 \in N
  <2> SUFFICES ASSUME NEW s \in SUBSET S, Cardinality(s) = n + 1 PROVE s \in A
    OBVIOUS
  <2>1. s # {}
    BY FS_EmptySet
  <2>2. ASSUME NEW x \in s PROVE s \ {x} \in A
    <3>1. Cardinality(s \ {x}) = n
      BY <1>1, FS_RemoveElement
    <3> QED BY <1>3, <3>1
  <2> QED BY <2>1, <2>2
<1> HIDE DEF N
<1>4. Nat \subseteq N
  BY <1>2, <1>3, NumberInduction
<1> QED BY <1>1, <1>4 DEF N

-----------------------------------------------------------------------------
(* Sums *)

Pick(s) == CHOOSE x \in s : TRUE

\* The function behind the sum, on the sets in D.
SumBody(f, g, s) == IF s = {} THEN 0 ELSE f[Pick(s)] + g[s \ {Pick(s)}]
IsSum(f, D, g)   == g = [s \in D |-> SumBody(f, g, s)]

LEMMA PickFacts == ASSUME NEW s, s # {} PROVE Pick(s) \in s
BY DEF Pick

\* There is such a function: sets with one element more are added at a time.
LEMMA SumExists ==
  ASSUME NEW f, NEW S, IsFiniteSet(S) PROVE \E g : IsSum(f, SUBSET S, g)
<1> DEFINE D(n) == {s \in SUBSET S : Cardinality(s) <= n}
           A    == {n \in Nat : \E g : IsSum(f, D(n), g)}
<1>1. \A s \in SUBSET S : IsFiniteSet(s) /\ Cardinality(s) \in Nat
  BY FS_Subset, FS_CardinalityType
<1>2. 0 \in A
  <2>1. D(0) = {{}}
    BY <1>1, FS_EmptySet
  <2>2. IsSum(f, D(0), [s \in D(0) |-> 0])
    BY <2>1 DEF IsSum, SumBody
  <2> QED BY <2>2
<1>3. ASSUME NEW n \in Nat, n \in A PROVE n + 1 \in A
  <2>1. PICK g : IsSum(f, D(n), g)
    BY <1>3
  <2> DEFINE h == [s \in D(n + 1) |-> SumBody(f, g, s)]
  <2>2. ASSUME NEW s \in D(n + 1), s # {} PROVE s \ {Pick(s)} \in D(n) /\ D(n) \subseteq D(n + 1)
    <3>1. Cardinality(s \ {Pick(s)}) = Cardinality(s) - 1
      BY <1>1, <2>2, PickFacts, FS_RemoveElement
    <3> QED BY <1>1, <3>1
  <2>3. D(n) \subseteq D(n + 1)
    BY <1>1
  <2> HIDE DEF D
  <2>4. \A s \in D(n) : h[s] = g[s]
    BY <2>1, <2>3 DEF IsSum
  <2>5. ASSUME NEW s \in D(n + 1) PROVE SumBody(f, g, s) = SumBody(f, h, s)
    BY <2>2, <2>4 DEF SumBody
  <2>6. h = [s \in D(n + 1) |-> SumBody(f, h, s)]
    BY <2>5
  <2> HIDE DEF h
  <2>7. IsSum(f, D(n + 1), h)
    BY <2>6 DEF IsSum
  <2> QED BY <2>7
<1> HIDE DEF A
<1>4. Nat \subseteq A
  BY <1>2, <1>3, NumberInduction
<1>5. Cardinality(S) \in A
  BY <1>1, <1>4
<1>6. D(Cardinality(S)) = SUBSET S
  BY <1>1, FS_Subset
<1> QED BY <1>5, <1>6 DEF A

\* ... and it is the same for all sets that it is defined on.
LEMMA SumUnique ==
  ASSUME NEW f, NEW S, IsFiniteSet(S), NEW T \in SUBSET S,
         NEW g, IsSum(f, SUBSET S, g), NEW h, IsSum(f, SUBSET T, h)
  PROVE  h[T] = g[T]
<1> DEFINE A == {s \in SUBSET T : h[s] = g[s]}
<1>1. \A s \in SUBSET T : h[s] = SumBody(f, h, s) /\ g[s] = SumBody(f, g, s)
  BY DEF IsSum
<1>2. {} \in A
  BY <1>1 DEF SumBody
<1>3. ASSUME NEW s \in SUBSET T, s # {}, \A x \in s : s \ {x} \in A PROVE s \in A
  BY <1>1, <1>3, PickFacts DEF SumBody
<1>4. IsFiniteSet(T)
  BY FS_Subset
<1> HIDE DEF A
<1>5. SUBSET T \subseteq A
  BY <1>2, <1>3, <1>4, SubsetInduction
<1> QED BY <1>5 DEF A

LEMMA SumIsSum ==
  ASSUME NEW f, NEW S, IsFiniteSet(S)
  PROVE  \E g : IsSum(f, SUBSET S, g) /\ SumFunctionOnSet(f, S) = g[S]
<1> DEFINE g == CHOOSE g : IsSum(f, SUBSET S, g)
<1>1. IsSum(f, SUBSET S, g)
  BY SumExists
<1>2. SumFunctionOnSet(f, S) = g[S]
  BY DEF SumFunctionOnSet, FoldFunctionOnSet, MapThenFoldSet, IsSum, SumBody, Pick
<1> QED BY <1>1, <1>2

LEMMA SumUnfold ==
  ASSUME NEW f, NEW S, IsFiniteSet(S)
  PROVE  SumFunctionOnSet(f, S)
           = IF S = {} THEN 0 ELSE f[Pick(S)] + SumFunctionOnSet(f, S \ {Pick(S)})
<1>1. PICK g : IsSum(f, SUBSET S, g) /\ SumFunctionOnSet(f, S) = g[S]
  BY SumIsSum
<1>2. g[S] = SumBody(f, g, S)
  BY <1>1 DEF IsSum
<1> DEFINE T == S \ {Pick(S)}
<1>3. IsFiniteSet(T) /\ T \in SUBSET S
  BY FS_Subset
<1>4. SumFunctionOnSet(f, T) = g[T]
  <2> HIDE DEF T
  <2>1. PICK h : IsSum(f, SUBSET T, h) /\ SumFunctionOnSet(f, T) = h[T]
    BY <1>3, SumIsSum
  <2>2. h[T] = g[T]
    <3>1. IsSum(f, SUBSET S, g)
      BY <1>1
    <3>2. IsSum(f, SUBSET T, h)
      BY <2>1
    <3> QED BY <1>3, <3>1, <3>2, SumUnique
  <2> QED BY <2>1, <2>2
<1> QED BY <1>1, <1>2, <1>4 DEF SumBody

\* From here on, S is finite and f gives its elements natural numbers.
LEMMA SumEmpty == ASSUME NEW f PROVE SumFunctionOnSet(f, {}) = 0
BY SumUnfold, FS_EmptySet

LEMMA SumType ==
  ASSUME NEW f, NEW S, IsFiniteSet(S), \A x \in S : f[x] \in Nat
  PROVE  SumFunctionOnSet(f, S) \in Nat
<1> DEFINE A == {s \in SUBSET S : SumFunctionOnSet(f, s) \in Nat}
<1>1. {} \in A
  BY SumEmpty
<1>2. ASSUME NEW s \in SUBSET S, s # {}, \A x \in s : s \ {x} \in A PROVE s \in A
  <2>1. SumFunctionOnSet(f, s) = f[Pick(s)] + SumFunctionOnSet(f, s \ {Pick(s)})
    BY <1>2, SumUnfold, FS_Subset
  <2>2. Pick(s) \in s
    BY <1>2, PickFacts
  <2> QED BY <1>2, <2>1, <2>2
<1> HIDE DEF A
<1>3. SUBSET S \subseteq A
  BY <1>1, <1>2, SubsetInduction
<1> QED BY <1>3 DEF A

\* The order of the elements does not matter.
LEMMA SumRemove ==
  ASSUME NEW f, NEW S, IsFiniteSet(S), \A x \in S : f[x] \in Nat, NEW y \in S
  PROVE  SumFunctionOnSet(f, S) = f[y] + SumFunctionOnSet(f, S \ {y})
<1> DEFINE A == {s \in SUBSET S :
                   \A x \in s : SumFunctionOnSet(f, s) = f[x] + SumFunctionOnSet(f, s \ {x})}
<1>1. {} \in A
  OBVIOUS
<1>2. ASSUME NEW s \in SUBSET S, s # {}, \A x \in s : s \ {x} \in A PROVE s \in A
  <2> SUFFICES ASSUME NEW x \in s PROVE SumFunctionOnSet(f, s) = f[x] + SumFunctionOnSet(f, s \ {x})
    OBVIOUS
  <2> DEFINE p == Pick(s)
  <2>1. p \in s /\ f[p] \in Nat /\ f[x] \in Nat
    BY <1>2, PickFacts
  <2>2. SumFunctionOnSet(f, s) = f[p] + SumFunctionOnSet(f, s \ {p})
    BY <1>2, SumUnfold, FS_Subset
  <2> HIDE DEF p
  <2>3. CASE x = p
    BY <2>2, <2>3
  <2>4. CASE x # p
    <3>1. SumFunctionOnSet(f, s \ {p}) = f[x] + SumFunctionOnSet(f, (s \ {p}) \ {x})
      BY <1>2, <2>1, <2>4
    <3>2. SumFunctionOnSet(f, s \ {x}) = f[p] + SumFunctionOnSet(f, (s \ {x}) \ {p})
      BY <1>2, <2>1, <2>4
    <3>3. (s \ {x}) \ {p} = (s \ {p}) \ {x}
      OBVIOUS
    <3>4. SumFunctionOnSet(f, (s \ {p}) \ {x}) \in Nat
      <4>1. IsFiniteSet((s \ {p}) \ {x})
        BY FS_Subset
      <4> QED BY <4>1, SumType
    <3> QED BY <2>1, <2>2, <3>1, <3>2, <3>3, <3>4
  <2> QED BY <2>3, <2>4
<1> HIDE DEF A
<1>3. SUBSET S \subseteq A
  BY <1>1, <1>2, SubsetInduction
<1> QED BY <1>3 DEF A

LEMMA SumAdd ==
  ASSUME NEW f, NEW S, IsFiniteSet(S), \A x \in S : f[x] \in Nat, NEW y, y \notin S, f[y] \in Nat
  PROVE  SumFunctionOnSet(f, S \cup {y}) = f[y] + SumFunctionOnSet(f, S)
<1>1. IsFiniteSet(S \cup {y}) /\ (S \cup {y}) \ {y} = S
  BY FS_AddElement
<1>2. SumFunctionOnSet(f, S \cup {y}) = f[y] + SumFunctionOnSet(f, (S \cup {y}) \ {y})
  BY <1>1, SumRemove
<1> QED BY <1>1, <1>2

\* The sum of a set is the sum of a part and of the rest.
LEMMA SumSplit ==
  ASSUME NEW f, NEW S, IsFiniteSet(S), \A x \in S : f[x] \in Nat, NEW T \in SUBSET S
  PROVE  /\ SumFunctionOnSet(f, S) = SumFunctionOnSet(f, T) + SumFunctionOnSet(f, S \ T)
         /\ SumFunctionOnSet(f, T) \in Nat /\ SumFunctionOnSet(f, S \ T) \in Nat
<1> DEFINE A == {s \in SUBSET S :
                   SumFunctionOnSet(f, S) = SumFunctionOnSet(f, s) + SumFunctionOnSet(f, S \ s)}
<1>1. \A s \in SUBSET S : IsFiniteSet(s) /\ SumFunctionOnSet(f, s) \in Nat
  BY FS_Subset, SumType
<1>2. {} \in A
  <2>1. S \ {} = S
    OBVIOUS
  <2> QED BY <1>1, <2>1, SumEmpty
<1>3. ASSUME NEW s \in SUBSET S, s # {}, \A x \in s : s \ {x} \in A PROVE s \in A
  <2>1. PICK x \in s : s \ {x} \in A
    BY <1>3
  <2>2. SumFunctionOnSet(f, s) = f[x] + SumFunctionOnSet(f, s \ {x})
    BY <1>1, SumRemove
  <2>3. S \ (s \ {x}) = (S \ s) \cup {x} /\ x \notin S \ s /\ S \ s \in SUBSET S
    OBVIOUS
  <2>4. SumFunctionOnSet(f, (S \ s) \cup {x}) = f[x] + SumFunctionOnSet(f, S \ s)
    BY <1>1, <2>3, SumAdd
  <2>5. /\ f[x] \in Nat /\ SumFunctionOnSet(f, s \ {x}) \in Nat
        /\ SumFunctionOnSet(f, S \ s) \in Nat
    BY <1>1
  <2>6. SumFunctionOnSet(f, S) = SumFunctionOnSet(f, s \ {x}) + SumFunctionOnSet(f, S \ (s \ {x}))
    BY <2>1
  <2>7. SumFunctionOnSet(f, S) = SumFunctionOnSet(f, s \ {x}) + (f[x] + SumFunctionOnSet(f, S \ s))
    BY <2>3, <2>4, <2>6
  <2>8. SumFunctionOnSet(f, S) = SumFunctionOnSet(f, s) + SumFunctionOnSet(f, S \ s)
    BY <2>2, <2>5, <2>7
  <2> QED BY <2>8
<1> HIDE DEF A
<1>4. SUBSET S \subseteq A
  BY <1>2, <1>3, SubsetInduction
<1>5. T \in A /\ S \ T \in SUBSET S
  BY <1>4
<1> QED BY <1>1, <1>5 DEF A

LEMMA SumMonotone ==
  ASSUME NEW f, NEW S, IsFiniteSet(S), \A x \in S : f[x] \in Nat, NEW T \in SUBSET S
  PROVE  SumFunctionOnSet(f, T) <= SumFunctionOnSet(f, S)
<1>1. /\ SumFunctionOnSet(f, S) = SumFunctionOnSet(f, T) + SumFunctionOnSet(f, S \ T)
      /\ SumFunctionOnSet(f, T) \in Nat /\ SumFunctionOnSet(f, S \ T) \in Nat
  BY SumSplit
<1> QED BY <1>1

LEMMA SumElement ==
  ASSUME NEW f, NEW S, IsFiniteSet(S), \A x \in S : f[x] \in Nat, NEW y \in S
  PROVE  f[y] <= SumFunctionOnSet(f, S)
<1>1. SumFunctionOnSet(f, S \ {y}) \in Nat
  BY SumSplit
<1> QED BY <1>1, SumRemove

\* Only what the function is on the set matters.
LEMMA SumEqual ==
  ASSUME NEW f, NEW g, NEW S, IsFiniteSet(S), \A x \in S : f[x] \in Nat /\ g[x] = f[x]
  PROVE  SumFunctionOnSet(g, S) = SumFunctionOnSet(f, S)
<1> DEFINE A == {s \in SUBSET S : SumFunctionOnSet(g, s) = SumFunctionOnSet(f, s)}
<1>1. {} \in A
  BY SumEmpty
<1>2. ASSUME NEW s \in SUBSET S, s # {}, \A x \in s : s \ {x} \in A PROVE s \in A
  <2>1. PICK x \in s : s \ {x} \in A
    BY <1>2
  <2>2. IsFiniteSet(s) /\ \A y \in s : f[y] \in Nat /\ g[y] \in Nat
    BY FS_Subset
  <2>3. SumFunctionOnSet(f, s) = f[x] + SumFunctionOnSet(f, s \ {x})
    BY <2>2, SumRemove
  <2>4. SumFunctionOnSet(g, s) = g[x] + SumFunctionOnSet(g, s \ {x})
    BY <2>2, SumRemove
  <2> QED BY <2>1, <2>3, <2>4
<1> HIDE DEF A
<1>3. SUBSET S \subseteq A
  BY <1>1, <1>2, SubsetInduction
<1> QED BY <1>3 DEF A

-----------------------------------------------------------------------------
(* Thresholds *)

\* A list of costs.
IsCosts(s) == IsFiniteSet(DOMAIN s) /\ \A k \in DOMAIN s : s[k] \in Nat

LEMMA TimesMonotone ==
  ASSUME NEW d \in Nat, NEW a \in Nat, NEW b \in Nat, a <= b
  PROVE  d * a <= d * b /\ a * d <= b * d /\ d * a \in Nat /\ a * d \in Nat
OBVIOUS

\* What is kept, and its cost, are finite, and are more with a larger threshold.
LEMMA KeptFacts ==
  ASSUME NEW s, IsCosts(s), NEW t
  PROVE  /\ Kept(s, t) \in SUBSET (DOMAIN s) /\ IsFiniteSet(Kept(s, t))
         /\ KeptNumber(s, t) \in Nat /\ KeptCost(s, t) \in Nat
         /\ TotalCost(s) \in Nat /\ Cardinality(DOMAIN s) \in Nat
         /\ KeptCost(s, t) <= TotalCost(s) /\ KeptNumber(s, t) <= Cardinality(DOMAIN s)
<1>1. Kept(s, t) \in SUBSET (DOMAIN s)
  BY DEF Kept
<1>2. IsFiniteSet(Kept(s, t)) /\ KeptNumber(s, t) <= Cardinality(DOMAIN s)
  BY <1>1, FS_Subset DEF IsCosts, KeptNumber
<1>3. KeptNumber(s, t) \in Nat /\ Cardinality(DOMAIN s) \in Nat
  BY <1>2, FS_CardinalityType DEF IsCosts, KeptNumber
<1>4. \A k \in Kept(s, t) : s[k] \in Nat
  BY <1>1 DEF IsCosts
<1>5. KeptCost(s, t) \in Nat
  BY <1>2, <1>4, SumType DEF KeptCost
<1>6. TotalCost(s) \in Nat
  BY SumType DEF IsCosts, TotalCost
<1>7. KeptCost(s, t) <= TotalCost(s)
  BY <1>1, SumMonotone DEF IsCosts, KeptCost, TotalCost
<1> QED BY <1>1, <1>2, <1>3, <1>5, <1>6, <1>7

LEMMA CostBelowTotal ==
  ASSUME NEW s, IsCosts(s), NEW k \in DOMAIN s PROVE s[k] \in Nat /\ s[k] <= TotalCost(s)
BY SumElement DEF IsCosts, TotalCost

LEMMA TotalPositive ==
  ASSUME NEW s, IsCosts(s), TotalCost(s) > 0 PROVE \E k \in DOMAIN s : s[k] > 0
<1> SUFFICES ASSUME \A k \in DOMAIN s : s[k] = 0 PROVE FALSE
  BY DEF IsCosts
<1> DEFINE A == {S \in SUBSET (DOMAIN s) : SumFunctionOnSet(s, S) = 0}
<1>1. {} \in A
  BY SumEmpty
<1>2. ASSUME NEW S \in SUBSET (DOMAIN s), S # {}, \A x \in S : S \ {x} \in A PROVE S \in A
  <2>1. PICK x \in S : S \ {x} \in A
    BY <1>2
  <2>2. IsFiniteSet(S)
    BY FS_Subset DEF IsCosts
  <2>3. SumFunctionOnSet(s, S) = s[x] + SumFunctionOnSet(s, S \ {x})
    BY <2>2, SumRemove
  <2> QED BY <2>1, <2>3
<1> HIDE DEF A
<1>3. SUBSET (DOMAIN s) \subseteq A
  BY <1>1, <1>2, SubsetInduction DEF IsCosts
<1>4. DOMAIN s \in A
  BY <1>3
<1> QED BY <1>4 DEF A, TotalCost

\* There is a largest cost.
LEMMA LargestCost ==
  ASSUME NEW s, IsCosts(s), DOMAIN s # {}
  PROVE  \E v \in Range(s) : v \in Nat /\ \A w \in Range(s) : w \in Nat /\ w <= v
<1> DEFINE B == {b \in Nat : \A w \in Range(s) : w <= b}
<1>1. \A w \in Range(s) : w \in Nat /\ w <= TotalCost(s)
  BY CostBelowTotal DEF Range
<1>2. TotalCost(s) \in B
  BY <1>1, KeptFacts
<1>3. PICK b \in B : \A c \in B : b <= c
  BY <1>2, LeastNumber
<1>4. PICK w \in Range(s) : TRUE
  BY DEF Range
<1>5. b \in Range(s)
  <2> SUFFICES ASSUME b \notin Range(s) PROVE FALSE
    OBVIOUS
  <2>1. \A x \in Range(s) : x < b
    BY <1>1, <1>3
  <2>2. b - 1 \in B
    BY <1>1, <1>4, <2>1
  <2> QED BY <1>3, <2>2
<1> QED BY <1>1, <1>3, <1>5

\* A threshold that keeps everything honours every level.
LEMMA AllHonours ==
  ASSUME NEW s, IsCosts(s), NEW l \in 0..Den, NEW m, NEW t, Kept(s, t) = DOMAIN s
  PROVE  Honours(m, s, l, t)
<1>1. KeptNumber(s, t) = Cardinality(DOMAIN s) /\ KeptCost(s, t) = TotalCost(s)
  BY DEF KeptNumber, KeptCost, TotalCost
<1>2. l \in Nat /\ Den \in Nat /\ l <= Den
  BY DenAssumption
<1>3. l * Cardinality(DOMAIN s) <= Den * Cardinality(DOMAIN s)
  BY <1>2, KeptFacts, TimesMonotone
<1>4. l * TotalCost(s) <= Den * TotalCost(s)
  BY <1>2, KeptFacts, TimesMonotone
<1>5. /\ l * Cardinality(DOMAIN s) \in Nat /\ Den * Cardinality(DOMAIN s) \in Nat
      /\ l * TotalCost(s) \in Nat /\ Den * TotalCost(s) \in Nat
  BY <1>2, KeptFacts
<1> QED BY <1>1, <1>3, <1>4, <1>5 DEF Honours

\* Among the costs and one more than the largest there is a threshold, so that
\* ThresholdFor is one.
LEMMA ThresholdForFacts ==
  ASSUME NEW s, IsCosts(s), DOMAIN s # {}, NEW l \in 0..Den, NEW m
  PROVE  /\ IsThreshold(m, s, l, ThresholdFor(m, s, l))
         /\ \/ ThresholdFor(m, s, l) \in Range(s)
            \/ \E v \in Range(s) : ThresholdFor(m, s, l) = v + 1
<1> DEFINE C == Range(s) \cup {v + 1 : v \in {w \in Range(s) : \A x \in Range(s) : x <= w}}
           H == {t \in C : Honours(m, s, l, t) /\ (m # "sanity" => t > 0)}
<1>1. PICK v \in Range(s) : v \in Nat /\ \A w \in Range(s) : w \in Nat /\ w <= v
  BY LargestCost
<1>2. C \subseteq Nat
  <2>1. ASSUME NEW c \in C PROVE c \in Nat
    <3>1. c \in Range(s) \/ \E w \in Range(s) : c = w + 1
      OBVIOUS
    <3>2. \A w \in Range(s) : w \in Nat
      BY <1>1
    <3> HIDE DEF C
    <3> QED BY <3>1, <3>2
  <2> HIDE DEF C
  <2> QED BY <2>1
<1>3. Kept(s, v + 1) = DOMAIN s
  <2>1. \A k \in DOMAIN s : s[k] \in Range(s)
    BY DEF Range
  <2>2. \A k \in DOMAIN s : s[k] < v + 1
    <3> HIDE DEF C, H
    <3>1. \A w \in Range(s) : w < v + 1
      <4> TAKE w \in Range(s)
      <4>1. v \in Nat /\ w \in Nat /\ w <= v
        BY <1>1
      <4> QED BY <4>1
    <3> QED BY <2>1, <3>1
  <2> QED BY <2>2 DEF Kept
<1>4. v + 1 \in H
  <2>1. v \in {w \in Range(s) : \A x \in Range(s) : x <= w}
    BY <1>1
  <2>2. v + 1 \in C
    BY <2>1
  <2>3. Honours(m, s, l, v + 1)
    BY <1>3, AllHonours
  <2>4. v + 1 > 0
    BY <1>1
  <2> QED BY <2>2, <2>3, <2>4
<1>5. PICK t \in H : \A u \in H : t <= u
  <2>1. H \in SUBSET Nat /\ H # {}
    BY <1>2, <1>4
  <2> HIDE DEF H
  <2> QED BY <2>1, LeastNumber
<1>6. IsLowest(m, s, l, t)
  <2> SUFFICES ASSUME NEW k \in DOMAIN s, s[k] < t, m = "sanity" \/ s[k] > 0, Honours(m, s, l, s[k])
      PROVE  FALSE
    BY DEF IsLowest
  <2>1. s[k] \in C
    BY DEF Range
  <2>2. s[k] \in H
    BY <2>1
  <2>3. s[k] \in Nat /\ t \in Nat /\ t <= s[k]
    BY <1>2, <1>5, <2>1, <2>2
  <2> QED BY <2>3
<1>7. IsThreshold(m, s, l, t) /\ t \in C
  BY <1>5, <1>6 DEF IsThreshold
<1>8. ThresholdFor(m, s, l) = CHOOSE u \in C : IsThreshold(m, s, l, u)
  BY DEF ThresholdFor
<1> HIDE DEF C
<1>9. ThresholdFor(m, s, l) \in C /\ IsThreshold(m, s, l, ThresholdFor(m, s, l))
  BY <1>7, <1>8
<1> QED BY <1>9 DEF C

\* A higher threshold keeps more.
LEMMA HonoursMonotone ==
  ASSUME NEW s, IsCosts(s), NEW l \in Nat, NEW m, NEW t \in Nat, NEW u \in Nat, t <= u, Honours(m, s, l, t)
  PROVE  Honours(m, s, l, u)
<1>1. /\ KeptNumber(s, t) \in Nat /\ KeptNumber(s, u) \in Nat /\ Cardinality(DOMAIN s) \in Nat
      /\ KeptCost(s, t) \in Nat /\ KeptCost(s, u) \in Nat /\ TotalCost(s) \in Nat
      /\ IsFiniteSet(Kept(s, u)) /\ Den \in Nat
  BY KeptFacts, DenAssumption
<1>2. \A k \in DOMAIN s : s[k] \in Nat
  BY DEF IsCosts
<1>3. Kept(s, t) \in SUBSET Kept(s, u)
  BY <1>2 DEF Kept
<1>4. KeptNumber(s, t) <= KeptNumber(s, u)
  BY <1>1, <1>3, FS_Subset DEF KeptNumber
<1>5. KeptCost(s, t) <= KeptCost(s, u)
  <2>1. \A k \in Kept(s, u) : s[k] \in Nat
    BY <1>2 DEF Kept
  <2> QED BY <1>1, <1>3, <2>1, SumMonotone DEF KeptCost
<1>6. /\ Den * KeptNumber(s, t) <= Den * KeptNumber(s, u) /\ Den * KeptCost(s, t) <= Den * KeptCost(s, u)
      /\ Den * KeptNumber(s, t) \in Nat /\ Den * KeptNumber(s, u) \in Nat
      /\ Den * KeptCost(s, t) \in Nat /\ Den * KeptCost(s, u) \in Nat
  BY <1>1, <1>4, <1>5, TimesMonotone
<1>7. l * Cardinality(DOMAIN s) \in Nat /\ l * TotalCost(s) \in Nat
  BY <1>1, TimesMonotone
<1>8. CASE m = "sanity"
  <2>1. Den * KeptNumber(s, t) >= l * Cardinality(DOMAIN s)
    BY <1>8 DEF Honours
  <2>2. Den * KeptNumber(s, u) >= l * Cardinality(DOMAIN s)
    BY <1>6, <1>7, <2>1
  <2> QED BY <1>8, <2>2 DEF Honours
<1>9. CASE m # "sanity"
  <2>1. Den * KeptCost(s, t) >= l * TotalCost(s)
    BY <1>9 DEF Honours
  <2>2. Den * KeptCost(s, u) >= l * TotalCost(s)
    BY <1>6, <1>7, <2>1
  <2> QED BY <1>9, <2>2 DEF Honours
<1> QED BY <1>8, <1>9

\* Of two thresholds, the lowest one removes no more.
LEMMA LowestKeeps ==
  ASSUME NEW s, IsCosts(s), NEW l \in Nat, NEW m, NEW t \in Nat, NEW u \in Nat, t <= u,
         Honours(m, s, l, t), IsLowest(m, s, l, u),
         m # "sanity" => \A k \in DOMAIN s : s[k] >= t => s[k] > 0
  PROVE  Kept(s, t) = Kept(s, u)
<1>1. \A k \in DOMAIN s : s[k] \in Nat
  BY DEF IsCosts
<1>2. ASSUME NEW k \in DOMAIN s, s[k] < u, s[k] >= t PROVE FALSE
  <2>1. Honours(m, s, l, s[k])
    BY <1>1, <1>2, HonoursMonotone
  <2>2. m = "sanity" \/ s[k] > 0
    BY <1>2
  <2> QED BY <1>2, <2>1, <2>2 DEF IsLowest
<1>3. \A k \in DOMAIN s : s[k] < t <=> s[k] < u
  BY <1>1, <1>2
<1> QED BY <1>3 DEF Kept

\* All thresholds keep the same checks: it is no matter which one a model takes.
LEMMA OneThreshold ==
  ASSUME NEW s, IsCosts(s), NEW l \in Nat, NEW m, NEW t \in Nat, NEW u \in Nat,
         Honours(m, s, l, t), IsLowest(m, s, l, t),
         Honours(m, s, l, u), IsLowest(m, s, l, u),
         m # "sanity" => \A k \in DOMAIN s : s[k] = 0 => k \in Kept(s, t) /\ k \in Kept(s, u)
  PROVE  Kept(s, t) = Kept(s, u)
<1>1. \A k \in DOMAIN s : s[k] \in Nat
  BY DEF IsCosts
<1>2. m # "sanity" => \A k \in DOMAIN s : (s[k] >= t => s[k] > 0) /\ (s[k] >= u => s[k] > 0)
  BY <1>1 DEF Kept
<1>3. CASE t <= u
  BY <1>2, <1>3, LowestKeeps
<1>4. CASE u <= t
  BY <1>2, <1>4, LowestKeeps
<1> QED BY <1>3, <1>4

=============================================================================
