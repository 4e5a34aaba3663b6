------------------------------ MODULE CostProofs ------------------------------
(***************************************************************************)
(* The costs behind the check removal.  The loops that compute a cost      *)
(* threshold find the right one, for every list of costs and every level.  *)
(* The costs that the coverage analysis finds in the log of the profiling  *)
(* jobs belong to the calls it gives them to, for every program, every     *)
(* number of jobs and every set of guards that they passed.                *)
(***************************************************************************)
EXTENDS CostThreshold, CoverageCost, ThresholdsProofs

\* A list that the loops walk.
LEMMA ListFacts ==
  ASSUME NEW c \in CostLists
  PROVE  /\ DOMAIN c = 1..Len(c) /\ Len(c) \in Nat /\ IsCosts(c)
         /\ \A k \in 1..Len(c) : c[k] \in Nat
         /\ \A j, k \in 1..Len(c) : j <= k => c[j] >= c[k]
         /\ Cardinality(1..Len(c)) = Len(c)
<1>1. c \in Seq(Nat) /\ \A j, k \in 1..Len(c) : j <= k => c[j] >= c[k]
  BY CostListsSorted
<1>2. DOMAIN c = 1..Len(c) /\ Len(c) \in Nat /\ \A k \in 1..Len(c) : c[k] \in Nat
  BY <1>1
<1>3. IsFiniteSet(1..Len(c)) /\ Cardinality(1..Len(c)) = Len(c)
  BY <1>2, FS_Interval
<1> QED BY <1>1, <1>2, <1>3 DEF IsCosts

\* A part of the list, from one check to another.
LEMMA PartSum ==
  ASSUME NEW c \in CostLists, NEW a \in Nat \ {0}, NEW b \in 0..Len(c)
  PROVE  /\ a..b \in SUBSET (DOMAIN c) /\ IsFiniteSet(a..b)
         /\ \A k \in a..b : c[k] \in Nat
         /\ SumFunctionOnSet(c, a..b) \in 0..TotalCost(c)
<1>1. a..b \in SUBSET (DOMAIN c)
  BY ListFacts
<1>2. IsFiniteSet(a..b)
  BY ListFacts, FS_Interval
<1>3. \A k \in a..b : c[k] \in Nat
  BY <1>1, ListFacts
<1>4. SumFunctionOnSet(c, a..b) \in Nat
  BY <1>2, <1>3, SumType
<1>5. SumFunctionOnSet(c, a..b) <= TotalCost(c)
  BY <1>1, ListFacts, SumMonotone DEF IsCosts, TotalCost
<1>6. TotalCost(c) \in Nat
  BY ListFacts, KeptFacts
<1> QED BY <1>1, <1>2, <1>3, <1>4, <1>5, <1>6

\* One more check at the end, or at the beginning, of the part.
LEMMA PartStep ==
  ASSUME NEW c \in CostLists, NEW j \in 1..Len(c)
  PROVE  /\ SumFunctionOnSet(c, 1..j) = SumFunctionOnSet(c, 1..(j - 1)) + c[j]
         /\ SumFunctionOnSet(c, j..Len(c)) = SumFunctionOnSet(c, (j + 1)..Len(c)) + c[j]
<1>1. Len(c) \in Nat /\ c[j] \in Nat
  BY ListFacts
<1>2. /\ 1..j = (1..(j - 1)) \cup {j} /\ j \notin 1..(j - 1)
      /\ j..Len(c) = ((j + 1)..Len(c)) \cup {j} /\ j \notin (j + 1)..Len(c)
  BY <1>1
<1>3. /\ IsFiniteSet(1..(j - 1)) /\ \A k \in 1..(j - 1) : c[k] \in Nat
      /\ SumFunctionOnSet(c, 1..(j - 1)) \in Nat
  <2>1. j - 1 \in 0..Len(c) /\ 1 \in Nat \ {0}
    BY <1>1
  <2>2. TotalCost(c) \in Nat
    BY ListFacts, KeptFacts
  <2>3. /\ IsFiniteSet(1..(j - 1)) /\ \A k \in 1..(j - 1) : c[k] \in Nat
        /\ SumFunctionOnSet(c, 1..(j - 1)) \in 0..TotalCost(c)
    BY <2>1, PartSum
  <2> QED BY <2>2, <2>3
<1>4. /\ IsFiniteSet((j + 1)..Len(c)) /\ \A k \in (j + 1)..Len(c) : c[k] \in Nat
      /\ SumFunctionOnSet(c, (j + 1)..Len(c)) \in Nat
  <2>1. Len(c) \in 0..Len(c) /\ j + 1 \in Nat \ {0}
    BY <1>1
  <2>2. TotalCost(c) \in Nat
    BY ListFacts, KeptFacts
  <2>3. /\ IsFiniteSet((j + 1)..Len(c)) /\ \A k \in (j + 1)..Len(c) : c[k] \in Nat
        /\ SumFunctionOnSet(c, (j + 1)..Len(c)) \in 0..TotalCost(c)
    BY <2>1, PartSum
  <2> QED BY <2>2, <2>3
<1>5. SumFunctionOnSet(c, (1..(j - 1)) \cup {j}) = c[j] + SumFunctionOnSet(c, 1..(j - 1))
  BY <1>1, <1>2, <1>3, SumAdd
<1>6. SumFunctionOnSet(c, ((j + 1)..Len(c)) \cup {j}) = c[j] + SumFunctionOnSet(c, (j + 1)..Len(c))
  BY <1>1, <1>2, <1>4, SumAdd
<1>7. SumFunctionOnSet(c, 1..j) = SumFunctionOnSet(c, 1..(j - 1)) + c[j]
  <2> DEFINE a == SumFunctionOnSet(c, 1..(j - 1))
  <2>1. SumFunctionOnSet(c, 1..j) = c[j] + a
    BY <1>2, <1>5
  <2>2. a \in Nat
    BY <1>3
  <2> HIDE DEF a
  <2>3. SumFunctionOnSet(c, 1..j) = a + c[j]
    BY <1>1, <2>1, <2>2
  <2> QED BY <2>3 DEF a
<1>8. SumFunctionOnSet(c, j..Len(c)) = SumFunctionOnSet(c, (j + 1)..Len(c)) + c[j]
  <2> DEFINE a == SumFunctionOnSet(c, (j + 1)..Len(c))
  <2>1. SumFunctionOnSet(c, j..Len(c)) = c[j] + a
    BY <1>2, <1>6
  <2>2. a \in Nat
    BY <1>4
  <2> HIDE DEF a
  <2>3. SumFunctionOnSet(c, j..Len(c)) = a + c[j]
    BY <1>1, <2>1, <2>2
  <2> QED BY <2>3 DEF a
<1> QED BY <1>7, <1>8

\* If the next check costs less, then removing what costs c[j] or more removes the
\* first j checks.
LEMMA KeptBehind ==
  ASSUME NEW c \in CostLists, NEW j \in 1..Len(c), ~ (j < Len(c) /\ c[j + 1] = c[j])
  PROVE  /\ Kept(c, c[j]) = (j + 1)..Len(c)
         /\ KeptNumber(c, c[j]) = Len(c) - j
         /\ KeptCost(c, c[j]) = TotalCost(c) - SumFunctionOnSet(c, 1..j)
<1>1. Len(c) \in Nat /\ DOMAIN c = 1..Len(c)
  BY ListFacts
<1>2. ASSUME NEW k \in 1..Len(c) PROVE c[k] < c[j] <=> k > j
  <2>1. CASE k <= j
    BY <2>1, ListFacts
  <2>2. CASE k > j
    <3>1. j + 1 \in 1..Len(c) /\ j + 1 <= k /\ c[j + 1] # c[j]
      BY <1>1, <2>2
    <3>2. c[j + 1] <= c[j] /\ c[k] <= c[j + 1] /\ c[k] \in Nat /\ c[j] \in Nat /\ c[j + 1] \in Nat
      BY <3>1, ListFacts
    <3> QED BY <2>2, <3>1, <3>2
  <2> QED BY <1>1, <2>1, <2>2
<1>3. Kept(c, c[j]) = (j + 1)..Len(c)
  BY <1>1, <1>2 DEF Kept
<1>4. Cardinality((j + 1)..Len(c)) = Len(c) - j
  BY <1>1, FS_Interval
<1>5. (1..Len(c)) \ (1..j) = (j + 1)..Len(c) /\ 1..j \in SUBSET (1..Len(c))
  BY <1>1
<1>6. /\ SumFunctionOnSet(c, DOMAIN c) = SumFunctionOnSet(c, 1..j) + SumFunctionOnSet(c, (DOMAIN c) \ (1..j))
      /\ SumFunctionOnSet(c, 1..j) \in Nat /\ SumFunctionOnSet(c, (DOMAIN c) \ (1..j)) \in Nat
  <2>1. IsFiniteSet(DOMAIN c) /\ \A k \in DOMAIN c : c[k] \in Nat
    BY ListFacts DEF IsCosts
  <2>2. 1..j \in SUBSET (DOMAIN c)
    BY <1>1, <1>5
  <2> QED BY <2>1, <2>2, SumSplit
<1>7. SumFunctionOnSet(c, (j + 1)..Len(c)) = TotalCost(c) - SumFunctionOnSet(c, 1..j)
  <2> DEFINE a == SumFunctionOnSet(c, 1..j)
             b == SumFunctionOnSet(c, (j + 1)..Len(c))
  <2>1. TotalCost(c) = a + b /\ a \in Nat /\ b \in Nat
    <3>1. (DOMAIN c) \ (1..j) = (j + 1)..Len(c)
      BY <1>1, <1>5
    <3> QED BY <1>6, <3>1 DEF TotalCost
  <2> HIDE DEF a, b
  <2>2. b = TotalCost(c) - a
    BY <2>1
  <2> QED BY <2>2 DEF a, b
<1> QED BY <1>3, <1>4, <1>7 DEF KeptNumber, KeptCost

\* The condition of each loop is what the threshold is for.
LEMMA LoopCondition ==
  ASSUME NEW c \in CostLists, NEW j \in 1..Len(c), ~ (j < Len(c) /\ c[j + 1] = c[j]), NEW l \in Nat
  PROVE  /\ Honours("sanity", c, l, c[j]) <=> Den * (Len(c) - j) >= Len(c) * l
         /\ Honours("cost", c, l, c[j])
              <=> Den * (TotalCost(c) - SumFunctionOnSet(c, 1..j)) >= TotalCost(c) * l
<1>1. /\ KeptNumber(c, c[j]) = Len(c) - j
      /\ KeptCost(c, c[j]) = TotalCost(c) - SumFunctionOnSet(c, 1..j)
  BY KeptBehind
<1>2. Cardinality(DOMAIN c) = Len(c) /\ Len(c) \in Nat /\ TotalCost(c) \in Nat
  BY ListFacts, KeptFacts
<1>3. l * Len(c) = Len(c) * l /\ l * TotalCost(c) = TotalCost(c) * l
  BY <1>2
<1> QED BY <1>1, <1>2, <1>3 DEF Honours

-----------------------------------------------------------------------------
(* The invariant of the loops *)

\* The loops of compute_cost_threshold: the checks before i are looked at, and their
\* cost is added up; there is at least one check.
AsapLoop ==
  pc = "loop" /\ mode # "fprec" =>
    /\ i \in 1..(Len(costs) + 1) /\ costs # <<>>
    /\ sum = IF mode = "cost" THEN SumFunctionOnSet(costs, 1..(i - 1)) ELSE 0
    /\ cost_threshold > 0 \/ mode = "sanity"

\* The threshold so far is right, and no check before i gives a lower one; check i
\* decides for those that cost the same.
SoFar ==
  pc = "loop" /\ mode # "fprec" /\ level <= Den =>
    /\ Honours(mode, costs, level, cost_threshold)
    /\ \A k \in 1..(i - 1) :
         /\ costs[k] < cost_threshold /\ (mode = "sanity" \/ costs[k] > 0)
         /\ i <= Len(costs) => costs[i] # costs[k]
         => ~ Honours(mode, costs, level, costs[k])

\* The loop of get_threshold_for_costlevel: the checks behind i are added up, and are
\* not enough.
FprecLoop ==
  pc = "loop" /\ mode = "fprec" =>
    /\ i \in 0..Len(costs)
    /\ sum = SumFunctionOnSet(costs, (i + 1)..Len(costs))
    /\ i < Len(costs) \/ (level > 0 /\ TotalCost(costs) > 0) => ~ ReachesTarget(sum)

\* The threshold that CoverageCost takes from this script.
FprecResult ==
  pc = "done" /\ mode = "fprec" =>
    /\ cost_threshold - 1 \in Range(costs)
    /\ \A v \in Range(costs) :
         Den * KeptCost(costs, v + 1) >= level * TotalCost(costs) <=> v >= cost_threshold - 1

CTInv ==
  /\ CTTypeOK
  /\ pc = "read" => i = 0 /\ sum = 0
  /\ AsapLoop /\ SoFar /\ FprecLoop /\ FprecResult /\ ThresholdIsRight

LEMMA CTInvInit == CTInit => CTInv
<1> SUFFICES ASSUME CTInit PROVE CTInv
  OBVIOUS
<1>1. TotalCost(costs) \in Nat /\ Len(costs) \in Nat
  BY ListFacts, KeptFacts DEF CTInit
<1> QED BY <1>1 DEF CTInit, CTInv, CTTypeOK, AsapLoop, SoFar, FprecLoop, FprecResult, ThresholdIsRight

\* A level in the invariant's range, and the facts of the list.
LEMMA CTFacts ==
  ASSUME CTTypeOK
  PROVE  /\ costs \in CostLists /\ DOMAIN costs = 1..Len(costs) /\ Len(costs) \in Nat
         /\ \A k \in 1..Len(costs) : costs[k] \in Nat
         /\ \A j, k \in 1..Len(costs) : j <= k => costs[j] >= costs[k]
         /\ TotalCost(costs) \in Nat /\ IsCosts(costs)
         /\ level \in Nat /\ Den \in Nat \ {0} /\ cost_threshold \in Nat
         /\ mode \in {"sanity", "cost", "fprec"}
         /\ level <= Den => level \in 0..Den
<1>1. level \in Nat
  BY CostListsSorted DEF CTTypeOK
<1> QED BY <1>1, ListFacts, KeptFacts, DenAssumption DEF CTTypeOK, Modes

\* Begin of compute_cost_threshold: everything is kept.
LEMMA AsapBegins ==
  ASSUME CTInv, Begin, mode # "fprec" PROVE CTInv'
<1>0. CTTypeOK /\ pc = "read" /\ sum = 0
  BY DEF CTInv, Begin
<1>1. /\ pc' = "loop" /\ i' = 1 /\ cost_threshold' = costs[1] + 1
      /\ UNCHANGED <<mode, level, costs, sum>> /\ TotalCost(costs) # 0
  BY DEF Begin, Raises
<1>2. costs # <<>> /\ 1 \in 1..Len(costs)
  <2>1. DOMAIN costs = {} => TotalCost(costs) = 0
    BY SumEmpty DEF TotalCost
  <2>2. Len(costs) # 0
    BY <1>0, <1>1, <2>1, CTFacts
  <2>3. Len(costs) \in Nat /\ DOMAIN costs = 1..Len(costs)
    BY <1>0, CTFacts
  <2> DEFINE n == Len(costs)
  <2>4. n \in Nat /\ n # 0
    BY <2>2, <2>3
  <2> HIDE DEF n
  <2>5. 1 \in 1..n
    BY <2>4
  <2>6. 1 \in 1..Len(costs) /\ DOMAIN costs # {}
    BY <2>3, <2>5 DEF n
  <2> QED BY <2>6
<1>3. costs[1] \in Nat
  BY <1>0, <1>2, CTFacts
<1>4. CTTypeOK'
  BY <1>0, <1>1, <1>2, <1>3, CTFacts DEF CTTypeOK
<1>5. AsapLoop'
  <2>1. 1..(1 - 1) = {}
    OBVIOUS
  <2>2. SumFunctionOnSet(costs, 1..(1 - 1)) = 0
    BY <2>1, SumEmpty
  <2>3. 1 \in 1..(Len(costs) + 1)
    BY <1>2
  <2> QED BY <1>0, <1>1, <1>2, <1>3, <2>2, <2>3 DEF AsapLoop
<1>6. SoFar'
  <2>1. Kept(costs, costs[1] + 1) = DOMAIN costs
    <3>1. \A k \in 1..Len(costs) : costs[k] < costs[1] + 1
      BY <1>0, <1>2, <1>3, CTFacts
    <3> QED BY <1>0, <3>1, CTFacts DEF Kept
  <2>2. level <= Den => Honours(mode, costs, level, costs[1] + 1)
    BY <1>0, <2>1, CTFacts, AllHonours
  <2>3. 1..(1 - 1) = {}
    OBVIOUS
  <2> QED BY <1>1, <2>2, <2>3 DEF SoFar
<1> QED BY <1>1, <1>4, <1>5, <1>6 DEF CTInv, FprecLoop, FprecResult, ThresholdIsRight

\* One check of compute_cost_threshold: h is what its condition says of the cost of
\* check i, which only counts if the next check costs less.
LEMMA SoFarStep ==
  ASSUME CTInv, pc = "loop", mode # "fprec", i <= Len(costs), level <= Den,
         NEW t, t = (IF ~ SameAsNext /\ Honours(mode, costs, level, costs[i]) THEN costs[i] ELSE cost_threshold)
  PROVE  /\ Honours(mode, costs, level, t)
         /\ \A k \in 1..i :
              /\ costs[k] < t /\ (mode = "sanity" \/ costs[k] > 0)
              /\ i + 1 <= Len(costs) => costs[i + 1] # costs[k]
              => ~ Honours(mode, costs, level, costs[k])
<1>0. CTTypeOK /\ AsapLoop /\ SoFar
  BY DEF CTInv
<1>1. i \in 1..Len(costs)
  BY <1>0, CTFacts DEF AsapLoop
<1>2. Honours(mode, costs, level, t)
  BY <1>0 DEF SoFar
<1>3. ASSUME NEW k \in 1..i, costs[k] < t, mode = "sanity" \/ costs[k] > 0,
             i + 1 <= Len(costs) => costs[i + 1] # costs[k], Honours(mode, costs, level, costs[k])
      PROVE  FALSE
  <2>0. k \in 1..Len(costs) /\ costs[k] \in Nat /\ costs[i] \in Nat /\ costs[k] >= costs[i]
    <3>1. k \in 1..Len(costs) /\ k <= i
      BY <1>1
    <3> QED BY <1>0, <1>1, <3>1, CTFacts
  <2>1. CASE SameAsNext
    <3>1. t = cost_threshold /\ i + 1 <= Len(costs) /\ costs[i + 1] = costs[i]
      BY <1>1, <2>1 DEF SameAsNext
    <3>2. costs[i] # costs[k]
      BY <1>3, <3>1
    <3>3. k \in 1..(i - 1)
      BY <1>1, <3>2
    <3> QED BY <1>0, <1>3, <3>1, <3>2, <3>3 DEF SoFar
  <2>2. CASE ~ SameAsNext /\ Honours(mode, costs, level, costs[i])
    <3>1. t = costs[i]
      BY <2>2
    <3> QED BY <1>3, <2>0, <3>1
  <2>3. CASE ~ SameAsNext /\ ~ Honours(mode, costs, level, costs[i])
    <3>1. costs[i] # costs[k]
      BY <1>3, <2>3
    <3>2. k \in 1..(i - 1) /\ t = cost_threshold
      BY <1>1, <2>3, <3>1
    <3> QED BY <1>0, <1>3, <3>1, <3>2 DEF SoFar
  <2> QED BY <2>1, <2>2, <2>3
<1> QED BY <1>2, <1>3

LEMMA SanityStepKeeps == ASSUME CTInv, SanityStep PROVE CTInv'
<1>0. CTTypeOK /\ AsapLoop /\ pc = "loop" /\ mode = "sanity" /\ i <= Len(costs)
  BY DEF CTInv, SanityStep
<1>1. i \in 1..Len(costs) /\ sum = 0 /\ costs # <<>>
  BY <1>0, CTFacts DEF AsapLoop
<1>2. UNCHANGED <<mode, level, costs, pc, sum>> /\ i' = i + 1
  BY DEF SanityStep
<1>3. cost_threshold' = IF ~ SameAsNext /\ Honours(mode, costs, level, costs[i])
                        THEN costs[i] ELSE cost_threshold
  <2>1. ~ SameAsNext => (Honours("sanity", costs, level, costs[i]) <=> Den * Left >= Len(costs) * level)
    BY <1>0, <1>1, LoopCondition, CTFacts DEF SameAsNext, Left
  <2> QED BY <1>0, <2>1 DEF SanityStep
<1>4. CTTypeOK'
  <2>1. costs[i] \in Nat /\ i + 1 \in 0..(Len(costs) + 1)
    BY <1>0, <1>1, CTFacts
  <2>2. cost_threshold' \in Nat
    BY <1>0, <1>3, <2>1 DEF CTTypeOK
  <2> QED BY <1>0, <1>2, <2>1, <2>2 DEF CTTypeOK
<1>5. AsapLoop'
  <2>1. i + 1 \in 1..(Len(costs) + 1)
    BY <1>1
  <2> QED BY <1>0, <1>1, <1>2, <2>1 DEF AsapLoop
<1>6. SoFar'
  <2> SUFFICES ASSUME level <= Den
      PROVE  /\ Honours(mode, costs, level, cost_threshold')
             /\ \A k \in 1..((i + 1) - 1) :
                  /\ costs[k] < cost_threshold' /\ (mode = "sanity" \/ costs[k] > 0)
                  /\ i + 1 <= Len(costs) => costs[i + 1] # costs[k]
                  => ~ Honours(mode, costs, level, costs[k])
    BY <1>2 DEF SoFar
  <2>1. (i + 1) - 1 = i
    BY <1>1
  <2> QED BY <1>0, <1>3, <2>1, SoFarStep
<1> QED BY <1>0, <1>2, <1>4, <1>5, <1>6 DEF CTInv, FprecLoop, FprecResult, ThresholdIsRight

\* The loop for a cost level.  It ends early at the last check, if that costs nothing.
LEMMA CostStepKeeps == ASSUME CTInv, CostStep PROVE CTInv'
<1>0. CTTypeOK /\ AsapLoop /\ SoFar /\ pc = "loop" /\ mode = "cost" /\ i <= Len(costs)
  BY DEF CTInv, CostStep
<1>1. /\ i \in 1..Len(costs) /\ costs # <<>> /\ cost_threshold > 0
      /\ sum = SumFunctionOnSet(costs, 1..(i - 1))
  BY <1>0, CTFacts DEF AsapLoop
<1>2. /\ UNCHANGED <<mode, level, costs>> /\ i' = i + 1 /\ sum' = sum + costs[i]
      /\ pc' = IF BreaksAtZero THEN "done" ELSE "loop"
  BY <1>0 DEF CostStep
<1>3. /\ sum' = SumFunctionOnSet(costs, 1..i)
      /\ sum' \in 0..TotalCost(costs)
  <2>1. costs \in CostLists
    BY <1>0, CTFacts
  <2>2. sum' = SumFunctionOnSet(costs, 1..i)
    BY <1>1, <1>2, <2>1, PartStep
  <2>3. i \in 0..Len(costs) /\ 1 \in Nat \ {0}
    BY <1>1
  <2> QED BY <2>1, <2>2, <2>3, PartSum
<1>4. costs[i] \in Nat /\ Len(costs) \in Nat
  BY <1>0, <1>1, CTFacts
<1>5. cost_threshold' = IF ~ SameAsNext /\ ~ BreaksAtZero /\ Honours(mode, costs, level, costs[i])
                        THEN costs[i] ELSE cost_threshold
  <2>1. ~ SameAsNext =>
          (Honours("cost", costs, level, costs[i])
             <=> Den * (TotalCost(costs) - SumFunctionOnSet(costs, 1..i)) >= TotalCost(costs) * level)
    BY <1>0, <1>1, LoopCondition, CTFacts DEF SameAsNext
  <2>2. cost_threshold' =
          IF ~ SameAsNext /\ ~ BreaksAtZero
               /\ Den * (TotalCost(costs) - sum') >= TotalCost(costs) * level
          THEN costs[i] ELSE cost_threshold
    BY DEF CostStep
  <2> QED BY <1>0, <1>3, <2>1, <2>2
<1>6. CTTypeOK'
  <2>1. i + 1 \in 0..(Len(costs) + 1)
    BY <1>1, <1>4
  <2>2. cost_threshold' \in Nat
    BY <1>0, <1>4, <1>5 DEF CTTypeOK
  <2> QED BY <1>0, <1>2, <1>3, <2>1, <2>2 DEF CTTypeOK
<1>7. CASE BreaksAtZero
  <2>1. costs[i] = 0 /\ ~ SameAsNext /\ pc' = "done" /\ cost_threshold' = cost_threshold
    BY <1>2, <1>5, <1>7 DEF BreaksAtZero
  <2>2. i = Len(costs)
    <3> SUFFICES ASSUME i # Len(costs) PROVE FALSE
      OBVIOUS
    <3>1. i + 1 \in 1..Len(costs) /\ i < Len(costs) /\ i <= i + 1
      BY <1>1, <1>4
    <3>2. costs[i + 1] <= costs[i] /\ costs[i + 1] \in Nat
      BY <1>0, <1>1, <3>1, CTFacts
    <3> QED BY <2>1, <3>1, <3>2 DEF SameAsNext
  <2>3. ASSUME level <= Den PROVE IsLowest(mode, costs, level, cost_threshold)
    <3> SUFFICES ASSUME NEW k \in DOMAIN costs, costs[k] < cost_threshold, mode = "sanity" \/ costs[k] > 0
        PROVE  ~ Honours(mode, costs, level, costs[k])
      BY DEF IsLowest
    <3>1. k \in 1..Len(costs) /\ costs[k] > 0
      BY <1>0, CTFacts
    <3>2. k \in 1..(i - 1) /\ costs[i] # costs[k]
      BY <1>1, <1>4, <2>1, <2>2, <3>1
    <3> QED BY <1>0, <2>3, <3>1, <3>2 DEF SoFar
  <2>4. level <= Den => Honours(mode, costs, level, cost_threshold)
    BY <1>0 DEF SoFar
  <2>5. \A k \in DOMAIN costs : costs[k] = 0 => k \in Kept(costs, cost_threshold)
    BY <1>1 DEF Kept
  <2>6. ThresholdIsRight'
    BY <1>2, <2>1, <2>3, <2>4, <2>5 DEF ThresholdIsRight
  <2> QED BY <1>0, <1>2, <1>6, <2>1, <2>6 DEF CTInv, AsapLoop, SoFar, FprecLoop, FprecResult
<1>8. CASE ~ BreaksAtZero
  <2>1. /\ pc' = "loop"
        /\ cost_threshold' = IF ~ SameAsNext /\ Honours(mode, costs, level, costs[i])
                             THEN costs[i] ELSE cost_threshold
    BY <1>2, <1>5, <1>8
  <2>2. AsapLoop'
    <3>1. i + 1 \in 1..(Len(costs) + 1) /\ (i + 1) - 1 = i
      BY <1>1, <1>4
    <3>2. ~ SameAsNext => costs[i] > 0
      BY <1>4, <1>8 DEF BreaksAtZero
    <3>3. cost_threshold' > 0
      BY <1>1, <2>1, <3>2
    <3> QED BY <1>0, <1>1, <1>2, <1>3, <3>1, <3>3 DEF AsapLoop
  <2>3. SoFar'
    <3> SUFFICES ASSUME level <= Den
        PROVE  /\ Honours(mode, costs, level, cost_threshold')
               /\ \A k \in 1..((i + 1) - 1) :
                    /\ costs[k] < cost_threshold' /\ (mode = "sanity" \/ costs[k] > 0)
                    /\ i + 1 <= Len(costs) => costs[i + 1] # costs[k]
                    => ~ Honours(mode, costs, level, costs[k])
      BY <1>2 DEF SoFar
    <3>1. (i + 1) - 1 = i
      BY <1>1
    <3> QED BY <1>0, <2>1, <3>1, SoFarStep
  <2> QED BY <1>0, <1>2, <1>6, <2>1, <2>2, <2>3 DEF CTInv, FprecLoop, FprecResult, ThresholdIsRight
<1> QED BY <1>7, <1>8

LEMMA LoopEndKeeps == ASSUME CTInv, LoopEnd PROVE CTInv'
<1>0. CTTypeOK /\ AsapLoop /\ SoFar /\ pc = "loop" /\ mode # "fprec" /\ i > Len(costs)
  BY DEF CTInv, LoopEnd
<1>1. /\ pc' = "done" /\ UNCHANGED <<mode, level, costs, i, cost_threshold, sum>>
  BY DEF LoopEnd
<1>2. i = Len(costs) + 1 /\ (i - 1) = Len(costs) /\ DOMAIN costs = 1..Len(costs)
  BY <1>0, CTFacts DEF AsapLoop
<1>3. ASSUME level <= Den
      PROVE  /\ Honours(mode, costs, level, cost_threshold)
             /\ IsLowest(mode, costs, level, cost_threshold)
  <2>1. /\ Honours(mode, costs, level, cost_threshold)
        /\ \A k \in 1..(i - 1) :
             /\ costs[k] < cost_threshold /\ (mode = "sanity" \/ costs[k] > 0)
             /\ i <= Len(costs) => costs[i] # costs[k]
             => ~ Honours(mode, costs, level, costs[k])
    BY <1>0, <1>3 DEF SoFar
  <2>2. ~ (i <= Len(costs))
    BY <1>0, <1>2, CTFacts
  <2> QED BY <1>2, <2>1, <2>2 DEF IsLowest
<1>4. mode # "sanity" => \A k \in DOMAIN costs : costs[k] = 0 => k \in Kept(costs, cost_threshold)
  BY <1>0 DEF AsapLoop, Kept
<1>5. CTTypeOK'
  BY <1>0, <1>1 DEF CTTypeOK
<1>6. ThresholdIsRight'
  BY <1>1, <1>3, <1>4 DEF ThresholdIsRight
<1> QED BY <1>0, <1>1, <1>5, <1>6 DEF CTInv, AsapLoop, SoFar, FprecLoop, FprecResult

LEMMA FprecBegins == ASSUME CTInv, Begin, mode = "fprec" PROVE CTInv'
<1>0. CTTypeOK /\ pc = "read" /\ sum = 0
  BY DEF CTInv, Begin
<1>1. /\ pc' = "loop" /\ i' = Len(costs) /\ cost_threshold' = 0
      /\ UNCHANGED <<mode, level, costs, sum>>
  BY DEF Begin
<1>2. Len(costs) \in Nat /\ TotalCost(costs) \in Nat /\ level \in Nat /\ Den \in Nat
  BY <1>0, CTFacts
<1>3. CTTypeOK'
  BY <1>0, <1>1, <1>2 DEF CTTypeOK
<1>4. FprecLoop'
  <2>1. (Len(costs) + 1)..Len(costs) = {}
    BY <1>2
  <2>2. SumFunctionOnSet(costs, (Len(costs) + 1)..Len(costs)) = 0
    BY <2>1, SumEmpty
  <2>3. level > 0 /\ TotalCost(costs) > 0 => ~ (Den * 0 >= level * TotalCost(costs))
    <3> DEFINE T == TotalCost(costs)
    <3>1. T \in Nat
      BY <1>2
    <3> HIDE DEF T
    <3>2. level > 0 /\ T > 0 => level * T > 0
      BY <1>2, <3>1
    <3>3. level * T \in Nat /\ Den * 0 = 0
      BY <1>2, <3>1
    <3>4. level > 0 /\ T > 0 => ~ (Den * 0 >= level * T)
      BY <3>2, <3>3
    <3> QED BY <3>4 DEF T
  <2>4. Len(costs) \in 0..Len(costs) /\ ~ (Len(costs) < Len(costs))
    BY <1>2
  <2> QED BY <1>0, <1>1, <2>2, <2>3, <2>4 DEF FprecLoop, ReachesTarget
<1> QED BY <1>1, <1>3, <1>4 DEF CTInv, AsapLoop, SoFar, FprecResult, ThresholdIsRight

LEMMA ReachMonotone ==
  ASSUME CTTypeOK, NEW a \in Nat, NEW b \in Nat, a <= b, ReachesTarget(a) PROVE ReachesTarget(b)
<1>1. level * TotalCost(costs) \in Nat /\ Den \in Nat
  <2>1. level \in Nat /\ TotalCost(costs) \in Nat /\ Den \in Nat
    BY CTFacts
  <2> QED BY <2>1
<1>2. Den * a <= Den * b /\ Den * a \in Nat /\ Den * b \in Nat
  BY <1>1, TimesMonotone
<1> QED BY <1>1, <1>2 DEF ReachesTarget

\* get_threshold_for_costlevel: what costs less than check i is behind it.
LEMMA FprecStepKeeps == ASSUME CTInv, FprecStep PROVE CTInv'
<1>0. CTTypeOK /\ FprecLoop /\ pc = "loop" /\ mode = "fprec" /\ i >= 1
  BY DEF CTInv, FprecStep
<1>1. /\ costs \in CostLists /\ Len(costs) \in Nat /\ DOMAIN costs = 1..Len(costs)
      /\ \A k \in 1..Len(costs) : costs[k] \in Nat
      /\ \A j, k \in 1..Len(costs) : j <= k => costs[j] >= costs[k]
      /\ IsCosts(costs) /\ TotalCost(costs) \in Nat
  BY <1>0, CTFacts
<1>2. i \in 1..Len(costs) /\ costs[i] \in Nat /\ sum = SumFunctionOnSet(costs, (i + 1)..Len(costs))
  BY <1>0, <1>1 DEF FprecLoop
<1>3. UNCHANGED <<mode, level, costs>> /\ i' = i - 1 /\ sum' = sum + costs[i]
  BY DEF FprecStep
<1>4. sum' = SumFunctionOnSet(costs, i..Len(costs)) /\ sum' \in 0..TotalCost(costs)
  <2>1. sum' = SumFunctionOnSet(costs, i..Len(costs))
    BY <1>1, <1>2, <1>3, PartStep
  <2>2. Len(costs) \in 0..Len(costs) /\ i \in Nat \ {0}
    BY <1>1, <1>2
  <2> QED BY <1>1, <2>1, <2>2, PartSum
<1>5. i - 1 \in 0..Len(costs) /\ (i - 1) + 1 = i
  BY <1>1, <1>2
<1>6. CASE ~ ReachesTarget(sum')
  <2>1. UNCHANGED <<pc, cost_threshold>>
    BY <1>6 DEF FprecStep
  <2>2. CTTypeOK'
    BY <1>0, <1>3, <1>4, <1>5, <2>1 DEF CTTypeOK
  <2>3. FprecLoop'
    BY <1>0, <1>3, <1>4, <1>5, <1>6, <2>1 DEF FprecLoop, ReachesTarget
  <2> QED BY <1>0, <1>3, <2>1, <2>2, <2>3 DEF CTInv, AsapLoop, SoFar, FprecResult, ThresholdIsRight
<1>7. CASE ReachesTarget(sum')
  <2>1. pc' = "done" /\ cost_threshold' = costs[i] + 1
    BY <1>7 DEF FprecStep
  <2>2. CTTypeOK'
    BY <1>0, <1>2, <1>3, <1>4, <1>5, <2>1 DEF CTTypeOK
  <2>3. ASSUME NEW t \in Nat, t > costs[i] PROVE ReachesTarget(KeptCost(costs, t))
    <3>1. i..Len(costs) \subseteq Kept(costs, t)
      <4>1. \A k \in i..Len(costs) : k \in 1..Len(costs) /\ i <= k
        BY <1>1, <1>2
      <4>2. \A k \in i..Len(costs) : costs[k] < t
        BY <1>1, <1>2, <2>3, <4>1
      <4> QED BY <1>1, <4>1, <4>2 DEF Kept
    <3>2. IsFiniteSet(Kept(costs, t)) /\ \A k \in Kept(costs, t) : costs[k] \in Nat
      BY <1>1, KeptFacts DEF Kept
    <3>3. sum' <= KeptCost(costs, t)
      BY <1>4, <3>1, <3>2, SumMonotone DEF KeptCost
    <3>4. sum' \in Nat /\ KeptCost(costs, t) \in Nat
      BY <1>1, <1>4, KeptFacts
    <3> QED BY <1>0, <1>7, <3>3, <3>4, ReachMonotone
  <2>4. ASSUME NEW t \in Nat, t <= costs[i]
        PROVE  /\ Kept(costs, t) \subseteq (i + 1)..Len(costs)
               /\ ReachesTarget(KeptCost(costs, t)) => ReachesTarget(sum)
    <3>1. Kept(costs, t) \subseteq (i + 1)..Len(costs)
      <4> SUFFICES ASSUME NEW k \in 1..Len(costs), costs[k] < t PROVE k \in (i + 1)..Len(costs)
        BY <1>1 DEF Kept
      <4>1. ~ (k <= i)
        BY <1>1, <1>2, <2>4
      <4> QED BY <1>1, <1>2, <4>1
    <3>2. /\ IsFiniteSet((i + 1)..Len(costs)) /\ \A k \in (i + 1)..Len(costs) : costs[k] \in Nat
          /\ sum \in Nat
      <4>1. Len(costs) \in 0..Len(costs) /\ i + 1 \in Nat \ {0}
        BY <1>1, <1>2
      <4> QED BY <1>1, <1>2, <4>1, PartSum
    <3>3. KeptCost(costs, t) <= sum
      BY <1>2, <3>1, <3>2, SumMonotone DEF KeptCost
    <3>4. KeptCost(costs, t) \in Nat
      BY <1>1, KeptFacts
    <3> QED BY <1>0, <3>1, <3>2, <3>3, <3>4, ReachMonotone
  <2>5. \A t : Honours("fprec", costs, level, t) <=> ReachesTarget(KeptCost(costs, t))
    BY DEF Honours, ReachesTarget
  <2>6. FprecResult'
    <3>1. (costs[i] + 1) - 1 = costs[i] /\ costs[i] \in Range(costs)
      BY <1>1, <1>2 DEF Range
    <3>2. ASSUME NEW v \in Range(costs) PROVE ReachesTarget(KeptCost(costs, v + 1)) <=> v >= costs[i]
      <4>1. PICK k \in 1..Len(costs) : v = costs[k]
        BY <1>1 DEF Range
      <4>2. v \in Nat /\ v + 1 \in Nat
        BY <1>1, <4>1
      <4>3. CASE v >= costs[i]
        <5>1. v + 1 > costs[i]
          BY <1>2, <4>2, <4>3
        <5> QED BY <2>3, <4>2, <4>3, <5>1
      <4>4. CASE v < costs[i]
        <5>1. v + 1 <= costs[i] /\ costs[k] < v + 1 /\ ~ (v >= costs[i])
          BY <1>2, <4>1, <4>2, <4>4
        <5>2. k \in Kept(costs, v + 1)
          BY <1>1, <5>1 DEF Kept
        <5>3. k \in (i + 1)..Len(costs)
          BY <2>4, <4>2, <5>1, <5>2
        <5>4. i < Len(costs)
          BY <1>1, <1>2, <5>3
        <5>5. ~ ReachesTarget(sum)
          BY <1>0, <5>4 DEF FprecLoop
        <5> QED BY <2>4, <4>2, <5>1, <5>5
      <4> QED BY <1>2, <4>2, <4>3, <4>4
    <3> QED BY <1>3, <2>1, <3>1, <3>2 DEF FprecResult, ReachesTarget
  <2>7. Honours(mode, costs, level, costs[i] + 1)
    <3>1. costs[i] + 1 \in Nat /\ costs[i] + 1 > costs[i]
      BY <1>2
    <3> QED BY <1>0, <2>3, <2>5, <3>1
  <2>8. ASSUME level > 0 PROVE IsLowest(mode, costs, level, costs[i] + 1)
    <3> SUFFICES ASSUME NEW k \in DOMAIN costs, costs[k] < costs[i] + 1, costs[k] > 0
        PROVE  ~ ReachesTarget(KeptCost(costs, costs[k]))
      BY <1>0, <2>5 DEF IsLowest
    <3>1. costs[k] \in Nat /\ costs[k] <= costs[i]
      BY <1>1, <1>2
    <3>2. TotalCost(costs) > 0
      BY <1>1, <3>1, CostBelowTotal
    <3>3. ~ ReachesTarget(sum)
      BY <1>0, <2>8, <3>2 DEF FprecLoop
    <3> QED BY <2>4, <3>1, <3>3
  <2>9. \A k \in DOMAIN costs : costs[k] = 0 => k \in Kept(costs, costs[i] + 1)
    BY <1>2 DEF Kept
  <2>10. ThresholdIsRight'
    BY <1>0, <1>3, <2>1, <2>7, <2>8, <2>9 DEF ThresholdIsRight
  <2> QED BY <1>0, <1>3, <2>1, <2>2, <2>6, <2>10 DEF CTInv, AsapLoop, SoFar, FprecLoop
<1> QED BY <1>6, <1>7

\* "No threshold found": all checks together reach the target.
LEMMA FprecFailsKeeps == ASSUME CTInv, FprecFails PROVE CTInv'
<1>0. CTTypeOK /\ FprecLoop /\ pc = "loop" /\ mode = "fprec" /\ i = 0
  BY DEF CTInv, FprecFails
<1>1. /\ pc' = "aborted" /\ UNCHANGED <<mode, level, costs, i, cost_threshold, sum>>
  BY DEF FprecFails
<1>2. CTTypeOK'
  BY <1>0, <1>1 DEF CTTypeOK
<1>3. ASSUME level <= Den PROVE costs = <<>>
  <2>1. /\ costs \in CostLists /\ Len(costs) \in Nat /\ DOMAIN costs = 1..Len(costs)
        /\ TotalCost(costs) \in Nat /\ level \in Nat /\ Den \in Nat
    BY <1>0, CTFacts
  <2>2. sum = TotalCost(costs)
    <3>1. sum = SumFunctionOnSet(costs, (0 + 1)..Len(costs))
      BY <1>0 DEF FprecLoop
    <3>2. (0 + 1)..Len(costs) = DOMAIN costs
      BY <2>1
    <3> QED BY <3>1, <3>2 DEF TotalCost
  <2>3. level * TotalCost(costs) <= Den * TotalCost(costs)
    BY <1>3, <2>1, TimesMonotone
  <2>4. ReachesTarget(sum)
    <3> DEFINE a == level * TotalCost(costs)
               b == Den * TotalCost(costs)
    <3>1. a \in Int /\ b \in Int /\ a <= b
      BY <2>1, <2>3
    <3> HIDE DEF a, b
    <3>2. b >= a
      BY <3>1
    <3> QED BY <2>2, <3>2 DEF ReachesTarget, a, b
  <2>5. ~ (0 < Len(costs))
    BY <1>0, <2>4 DEF FprecLoop
  <2>6. Len(costs) = 0
    BY <2>1, <2>5
  <2>7. costs \in Seq(Nat)
    BY <2>1, CostListsSorted
  <2> QED BY <2>6, <2>7
<1>4. ThresholdIsRight'
  BY <1>1, <1>3 DEF ThresholdIsRight
<1> QED BY <1>0, <1>1, <1>2, <1>4 DEF CTInv, AsapLoop, SoFar, FprecLoop, FprecResult

LEMMA CTInvNext == CTInv /\ [CTNext]_ctVars => CTInv'
<1> SUFFICES ASSUME CTInv, [CTNext]_ctVars PROVE CTInv'
  OBVIOUS
<1>1. CASE Raise
  <2>1. /\ pc' = "raised" /\ UNCHANGED <<mode, level, costs, i, cost_threshold, sum>>
    BY <1>1 DEF Raise
  <2>2. CTTypeOK'
    BY <2>1 DEF CTInv, CTTypeOK
  <2> QED BY <2>1, <2>2 DEF CTInv, AsapLoop, SoFar, FprecLoop, FprecResult, ThresholdIsRight
<1>2. CASE Begin
  BY <1>2, AsapBegins, FprecBegins
<1>3. CASE SanityStep
  BY <1>3, SanityStepKeeps
<1>4. CASE CostStep
  BY <1>4, CostStepKeeps
<1>5. CASE LoopEnd
  BY <1>5, LoopEndKeeps
<1>6. CASE FprecStep
  BY <1>6, FprecStepKeeps
<1>7. CASE FprecFails
  BY <1>7, FprecFailsKeeps
<1>8. CASE UNCHANGED ctVars
  <2>1. UNCHANGED <<mode, level, costs, pc, i, cost_threshold, sum>>
    BY <1>8 DEF ctVars
  <2> QED BY <2>1 DEF CTInv, CTTypeOK, AsapLoop, SoFar, FprecLoop, FprecResult, ThresholdIsRight, IsLowest,
       Honours, KeptNumber, KeptCost, TotalCost, Kept, ReachesTarget
<1> QED BY <1>1, <1>2, <1>3, <1>4, <1>5, <1>6, <1>7, <1>8 DEF CTNext, CTEnded

\* The loop counters stay in the list, and what the loops add up is never more than
\* the total cost.
THEOREM CTTypes == CTSpec => []CTTypeOK
<1>1. CTInv => CTTypeOK
  BY DEF CTInv
<1> QED BY <1>1, CTInvInit, CTInvNext, PTL DEF CTSpec

\* Both scripts find the threshold for every sorted list of costs, with any ties and
\* zeros, and for every level up to 1: it honours the level and is the lowest that
\* does, checks that were not executed are kept, and "No threshold found" is reached
\* only for an empty list.
THEOREM ThresholdAlwaysRight == CTSpec => []ThresholdIsRight
<1>1. CTInv => ThresholdIsRight
  BY DEF CTInv
<1> QED BY <1>1, CTInvInit, CTInvNext, PTL DEF CTSpec

\* What get_threshold_for_costlevel returns, without its loop: one more than the
\* least cost up to which the checks reach the target.
THEOREM FprecLoopResult == CTSpec => []FprecResult
<1>1. CTInv => FprecResult
  BY DEF CTInv
<1> QED BY <1>1, CTInvInit, CTInvNext, PTL DEF CTSpec

\* AsapClang takes ThresholdFor in place of the loops: the checks that are kept are
\* those that the loops keep.
LoopsKeepThose ==
  pc = "done" /\ level <= Den /\ (mode = "fprec" => level > 0) =>
    Kept(costs, cost_threshold) = Kept(costs, ThresholdFor(mode, costs, level))

\* For every list of costs and every level up to 1, the loops of compute_cost_threshold
\* and of get_threshold_for_costlevel remove the checks that ThresholdFor removes.
THEOREM LoopsAgreeWithModel == CTSpec => []LoopsKeepThose
<1>1. CTInv => LoopsKeepThose
  <2> SUFFICES ASSUME CTInv, pc = "done", level <= Den, mode = "fprec" => level > 0
               PROVE  Kept(costs, cost_threshold) = Kept(costs, ThresholdFor(mode, costs, level))
    BY DEF LoopsKeepThose
  <2> DEFINE t == ThresholdFor(mode, costs, level)
  <2>1. /\ IsCosts(costs) /\ level \in Nat /\ level \in 0..Den /\ cost_threshold \in Nat
        /\ \A k \in DOMAIN costs : costs[k] \in Nat
    BY CTFacts DEF CTInv
  <2>2. CASE DOMAIN costs = {}
    BY <2>2 DEF Kept
  <2>3. CASE DOMAIN costs # {}
    <3>1. IsThreshold(mode, costs, level, t) /\ (t \in Range(costs) \/ \E v \in Range(costs) : t = v + 1)
      BY <2>1, <2>3, ThresholdForFacts
    <3>2. \A v \in Range(costs) : v \in Nat
      BY <2>1 DEF Range
    <3> HIDE DEF t
    <3>3. t \in Nat
      BY <3>1, <3>2
    <3>4. Honours(mode, costs, level, t) /\ IsLowest(mode, costs, level, t) /\ (mode # "sanity" => t > 0)
      BY <3>1 DEF IsThreshold
    <3>5. mode # "sanity" => \A k \in DOMAIN costs : costs[k] = 0 => k \in Kept(costs, t)
      BY <3>3, <3>4 DEF Kept
    <3>6. /\ Honours(mode, costs, level, cost_threshold) /\ IsLowest(mode, costs, level, cost_threshold)
          /\ mode # "sanity" => \A k \in DOMAIN costs : costs[k] = 0 => k \in Kept(costs, cost_threshold)
      BY DEF CTInv, ThresholdIsRight
    <3>7. Kept(costs, cost_threshold) = Kept(costs, t)
      BY <2>1, <3>3, <3>4, <3>5, <3>6, OneThreshold
    <3> QED BY <3>7 DEF t
  <2> QED BY <2>2, <2>3
<1> QED BY <1>1, CTInvInit, CTInvNext, PTL DEF CTSpec

-----------------------------------------------------------------------------
(* Coverage costs *)

\* A line of the log has the number of its guard.
LogLine    == [guard : Guards, index : 1..Cardinality(Guards), cost : 1..MaxHits]
LineFor(l) == l \in LogLine /\ l.index = Numbers[l.guard]

\* The jobs count only behind guards with their number.
JobsInv ==
  /\ number \in [Jobs -> {[g \in Guards |-> 0], Numbers}]
  /\ counters \in [Jobs -> [Guards -> 0..MaxHits]]
  /\ \A j \in Jobs, g \in Guards : counters[j][g] > 0 => number[j] = Numbers
  /\ running \subseteq Jobs

\* The log is complete when it is used; the functions that the pass has seen are
\* compiled with its threshold.
CompileInv ==
  /\ log \in Seq(LogLine) /\ \A n \in DOMAIN log : LineFor(log[n])
  /\ stage = "compile" => log # <<>> /\ threshold = FprecThreshold
  /\ stage # "compile" => todo = Funs
  /\ todo \subseteq Funs
  /\ offset = [k \in Funs |-> IF k \in todo THEN 0 ELSE GuardIndexOffset(k)]
  /\ removed = {g \in Guards : g[1] \notin todo /\ TooExpensive(CostOf(g[1], g[2], offset[g[1]]))}

CCInv ==
  /\ program \in Programs /\ costlevel \in CostLevels
  /\ stage \in {"fuzz", "compile", "failed"}
  /\ threshold \in Nat
  /\ JobsInv /\ CompileInv

LEMMA MinFacts ==
  ASSUME NEW S \in SUBSET Nat, S # {} PROVE Min(S) \in S /\ \A y \in S : Min(S) <= y
<1>1. \E x \in S : \A y \in S : x <= y
  BY LeastNumber
<1> QED BY <1>1 DEF Min

LEMMA MaxFacts ==
  ASSUME NEW S \in SUBSET Nat, S # {}, NEW b \in Nat, \A y \in S : y <= b
  PROVE  Max(S) \in S /\ \A y \in S : Max(S) >= y
<1> DEFINE B == {n \in Nat : \A y \in S : y <= n}
<1>1. B \in SUBSET Nat /\ B # {}
  OBVIOUS
<1>2. PICK m \in B : \A n \in B : m <= n
  BY <1>1, LeastNumber
<1>3. m \in S
  <2> SUFFICES ASSUME m \notin S PROVE FALSE
    OBVIOUS
  <2>1. \A y \in S : y < m
    BY <1>2
  <2>2. m - 1 \in Nat
    <3>1. PICK y \in S : y < m
      BY <2>1
    <3>2. y \in Nat /\ m \in Nat
      BY <1>2
    <3> QED BY <3>1, <3>2
  <2>3. \A y \in S : y <= m - 1
    <3> SUFFICES ASSUME NEW y \in S PROVE y <= m - 1
      OBVIOUS
    <3>1. y \in Nat /\ m \in Nat /\ y < m
      BY <1>2, <2>1
    <3> QED BY <3>1
  <2>4. m - 1 \in B /\ ~ (m <= m - 1)
    BY <1>2, <2>2, <2>3
  <2> QED BY <1>2, <2>4
<1>4. \E x \in S : \A y \in S : x >= y
  BY <1>2, <1>3
<1> QED BY <1>4 DEF Max

LEMMA SeqElement ==
  ASSUME NEW T, NEW s \in Seq(T), NEW n \in 1..Len(s) PROVE s[n] \in T
OBVIOUS

\* The guards of the program: finitely many, those of one function in a row.
LEMMA FunFacts ==
  ASSUME program \in Programs
  PROVE  /\ Len(program) \in Nat /\ Funs = 1..Len(program)
         /\ \A k \in Funs : Len(program[k].locs) \in Nat
         /\ \A k \in Funs : DOMAIN program[k].locs = 1..Len(program[k].locs)
         /\ \A k \in Funs : \A c \in Indices(k) : Loc(<<k, c>>) \in [line : Nat, disc : Nat]
<1>1. program \in Seq([name : STRING, module : STRING, locs : Seq([line : Nat, disc : Nat])])
  BY CoverageAssumption
<1>2. Len(program) \in Nat /\ Funs = 1..Len(program)
  BY <1>1 DEF Funs
<1>3. ASSUME NEW k \in Funs
      PROVE  program[k].locs \in Seq([line : Nat, disc : Nat])
  <2>1. program[k] \in [name : STRING, module : STRING, locs : Seq([line : Nat, disc : Nat])]
    BY <1>1, <1>2, SeqElement
  <2> QED BY <2>1
<1>4. ASSUME NEW k \in Funs, NEW c \in Indices(k)
      PROVE  Loc(<<k, c>>) \in [line : Nat, disc : Nat]
  <2>1. c + 1 \in 1..Len(program[k].locs)
    BY <1>3 DEF Indices
  <2>2. program[k].locs[c + 1] \in [line : Nat, disc : Nat]
    BY <1>3, <2>1, SeqElement
  <2> QED BY <2>2 DEF Loc
<1> QED BY <1>2, <1>3, <1>4

LEMMA GuardFacts ==
  ASSUME program \in Programs
  PROVE  /\ IsFiniteSet(Guards) /\ Cardinality(Guards) \in Nat
         /\ \A g \in Guards : g = <<g[1], g[2]>> /\ g[1] \in Funs /\ g[2] \in Indices(g[1])
         /\ \A k \in Funs : \A c \in Indices(k) : <<k, c>> \in Guards
<1> DEFINE Rows == {{k} \X Indices(k) : k \in Funs}
<1>1. IsFiniteSet(Rows)
  <2>1. IsFiniteSet(Funs)
    BY FunFacts, FS_Interval
  <2> DEFINE f == [k \in Funs |-> {k} \X Indices(k)]
  <2>2. f \in Surjection(Funs, Rows)
    BY DEF Surjection
  <2> QED BY <2>1, <2>2, FS_Surjection
<1>2. ASSUME NEW k \in Funs PROVE IsFiniteSet({k} \X Indices(k))
  <2>1. IsFiniteSet(Indices(k)) /\ IsFiniteSet({k})
    <3>1. 0 \in Int /\ Len(program[k].locs) - 1 \in Int
      BY FunFacts
    <3>2. IsFiniteSet(0..(Len(program[k].locs) - 1))
      BY <3>1, FS_Interval
    <3> QED BY <3>2, FS_Singleton DEF Indices
  <2> QED BY <2>1, FS_Product
<1>3. Guards = UNION Rows
  BY DEF Guards
<1>4. \A T \in Rows : IsFiniteSet(T)
  BY <1>2
<1>5. IsFiniteSet(Guards)
  BY <1>1, <1>3, <1>4, FS_UNION
<1>6. ASSUME NEW g \in Guards PROVE g = <<g[1], g[2]>> /\ g[1] \in Funs /\ g[2] \in Indices(g[1])
  <2>1. PICK k \in Funs : g \in {k} \X Indices(k)
    BY DEF Guards
  <2> QED BY <2>1
<1>7. ASSUME NEW k \in Funs, NEW c \in Indices(k) PROVE <<k, c>> \in Guards
  BY DEF Guards
<1> QED BY <1>5, <1>6, <1>7, FS_CardinalityType

\* The guards of function k come behind those of the functions before it, and before
\* those of the functions behind it.
LEMMA RowFacts ==
  ASSUME program \in Programs, NEW k \in Funs
  PROVE  /\ NumGuardsBefore(k) \in Nat
         /\ NumGuardsBefore(k) + Len(program[k].locs) <= Cardinality(Guards)
         /\ \A h \in Funs : k < h => NumGuardsBefore(k) + Len(program[k].locs) <= NumGuardsBefore(h)
<1> DEFINE Before(h) == {g \in Guards : g[1] < h}
           Row       == {k} \X Indices(k)
           L         == Len(program[k].locs)
<1>1. IsFiniteSet(Before(k)) /\ Cardinality(Before(k)) \in Nat
  BY GuardFacts, FS_Subset, FS_CardinalityType
<1>2. IsFiniteSet(Row) /\ Cardinality(Row) = L
  <2>1. L \in Nat
    BY FunFacts
  <2> HIDE DEF L
  <2>2. IsFiniteSet(0..(L - 1)) /\ Cardinality(0..(L - 1)) = L
    BY <2>1, FS_Interval
  <2>3. Indices(k) = 0..(L - 1)
    BY DEF Indices, L
  <2>4. IsFiniteSet({k}) /\ Cardinality({k}) = 1
    BY FS_Singleton
  <2>5. IsFiniteSet(Row) /\ Cardinality(Row) = Cardinality({k}) * Cardinality(Indices(k))
    BY <2>2, <2>3, <2>4, FS_Product
  <2> QED BY <2>1, <2>2, <2>3, <2>4, <2>5
<1>3. Before(k) \cap Row = {}
  BY FunFacts
<1>4. IsFiniteSet(Before(k) \cup Row) /\ Cardinality(Before(k) \cup Row) = Cardinality(Before(k)) + L
  <2>1. L \in Nat
    BY FunFacts
  <2> HIDE DEF L, Before, Row
  <2>2. /\ IsFiniteSet(Before(k) \cup Row)
        /\ Cardinality(Before(k) \cup Row)
             = Cardinality(Before(k)) + Cardinality(Row) - Cardinality(Before(k) \cap Row)
    BY <1>1, <1>2, FS_Union
  <2>3. Cardinality(Before(k) \cap Row) = 0
    BY <1>3, FS_EmptySet
  <2> QED BY <1>1, <1>2, <2>1, <2>2, <2>3
<1>5. ASSUME NEW S \in SUBSET Guards, Before(k) \cup Row \subseteq S
      PROVE  Cardinality(Before(k)) + L <= Cardinality(S)
  <2>1. IsFiniteSet(S)
    BY GuardFacts, FS_Subset
  <2> HIDE DEF Before, Row, L
  <2>2. Cardinality(Before(k) \cup Row) <= Cardinality(S)
    BY <1>5, <2>1, FS_Subset
  <2> QED BY <1>4, <2>2
<1>6. Row \subseteq Guards
  BY DEF Guards
<1>7. Cardinality(Before(k)) + L <= Cardinality(Guards)
  BY <1>5, <1>6
<1>8. ASSUME NEW h \in Funs, k < h PROVE Cardinality(Before(k)) + L <= Cardinality(Before(h))
  <2>1. Before(k) \subseteq Before(h)
    <3> SUFFICES ASSUME NEW g \in Guards, g[1] < k PROVE g[1] < h
      OBVIOUS
    <3>1. g[1] \in Nat /\ k \in Nat /\ h \in Nat
      BY GuardFacts, FunFacts
    <3> QED BY <1>8, <3>1
  <2>2. Row \subseteq Before(h)
    BY <1>6, <1>8
  <2> QED BY <1>5, <2>1, <2>2
<1> QED BY <1>1, <1>7, <1>8 DEF NumGuardsBefore

\* HandleInit gives every guard a number of its own.
LEMMA NumbersFacts ==
  ASSUME program \in Programs
  PROVE  /\ Numbers \in [Guards -> 1..Cardinality(Guards)]
         /\ \A g \in Guards : /\ Numbers[g] = NumGuardsBefore(g[1]) + g[2] + 1
                              /\ NumGuardsBefore(g[1]) < Numbers[g]
                              /\ Numbers[g] <= NumGuardsBefore(g[1]) + Len(program[g[1]].locs)
         /\ \A g, h \in Guards : g[1] < h[1] => Numbers[g] <= NumGuardsBefore(h[1])
         /\ \A g, h \in Guards : Numbers[g] = Numbers[h] => g = h
<1>1. ASSUME NEW g \in Guards
      PROVE  /\ Numbers[g] = NumGuardsBefore(g[1]) + g[2] + 1 /\ g[1] \in Funs
             /\ g[2] \in Nat /\ NumGuardsBefore(g[1]) \in Nat /\ Len(program[g[1]].locs) \in Nat
             /\ NumGuardsBefore(g[1]) < Numbers[g]
             /\ Numbers[g] <= NumGuardsBefore(g[1]) + Len(program[g[1]].locs)
             /\ Numbers[g] \in 1..Cardinality(Guards)
  <2>1. Numbers[g] = NumGuardsBefore(g[1]) + g[2] + 1
    BY DEF Numbers
  <2>2. g[1] \in Funs /\ g[2] \in Indices(g[1]) /\ Cardinality(Guards) \in Nat
    BY GuardFacts
  <2>3. Len(program[g[1]].locs) \in Nat
    BY <2>2, FunFacts
  <2>4. g[2] \in Nat /\ g[2] < Len(program[g[1]].locs)
    BY <2>2, <2>3 DEF Indices
  <2>5. /\ NumGuardsBefore(g[1]) \in Nat
        /\ NumGuardsBefore(g[1]) + Len(program[g[1]].locs) <= Cardinality(Guards)
    BY <2>2, RowFacts
  <2> DEFINE before == NumGuardsBefore(g[1])
             len == Len(program[g[1]].locs)
             all == Cardinality(Guards)
             num == Numbers[g]
             ix  == g[2]
  <2>6. /\ num = before + ix + 1 /\ ix \in Nat /\ ix < len /\ len \in Nat
        /\ before \in Nat /\ before + len <= all /\ all \in Nat
    BY <2>1, <2>2, <2>3, <2>4, <2>5
  <2> HIDE DEF before, len, all, num, ix
  <2>7. before < num /\ num <= before + len /\ num \in 1..all
    BY <2>6
  <2> QED BY <2>1, <2>2, <2>3, <2>4, <2>5, <2>7 DEF before, len, all, num
<1>2. Numbers \in [Guards -> 1..Cardinality(Guards)]
  BY <1>1 DEF Numbers
<1>3. ASSUME NEW g \in Guards, NEW h \in Guards, g[1] < h[1] PROVE Numbers[g] <= NumGuardsBefore(h[1])
  <2>1. NumGuardsBefore(g[1]) + Len(program[g[1]].locs) <= NumGuardsBefore(h[1])
    BY <1>1, <1>3, RowFacts
  <2>2. Numbers[g] \in Nat
    BY <1>1
  <2> QED BY <1>1, <2>1, <2>2
<1>4. ASSUME NEW g \in Guards, NEW h \in Guards, Numbers[g] = Numbers[h] PROVE g = h
  <2>1. g[1] \in Nat /\ h[1] \in Nat
    BY <1>1, FunFacts
  <2>2. ~ (g[1] < h[1]) /\ ~ (h[1] < g[1])
    <3>1. /\ Numbers[g] \in Nat /\ NumGuardsBefore(h[1]) \in Nat /\ NumGuardsBefore(g[1]) \in Nat
          /\ NumGuardsBefore(h[1]) < Numbers[h] /\ NumGuardsBefore(g[1]) < Numbers[g]
      BY <1>1
    <3> QED BY <1>3, <1>4, <3>1
  <2>3. g[1] = h[1]
    BY <2>1, <2>2
  <2>4. g[2] = h[2]
    BY <1>1, <1>4, <2>3
  <2> QED BY <2>3, <2>4, GuardFacts
<1> QED BY <1>1, <1>2, <1>3, <1>4

\* A finite set can be put in the order of its elements' numbers.
LEMMA SortedExists ==
  ASSUME NEW S, IsFiniteSet(S), NEW f, \A x \in S : f[x] \in Nat,
         \A x, y \in S : f[x] = f[y] => x = y
  PROVE  \E s \in [1..Cardinality(S) -> S] : \A m, n \in DOMAIN s : m < n => f[s[m]] < f[s[n]]
<1> DEFINE Sorts(s, T) == /\ s \in [1..Cardinality(T) -> T]
                          /\ \A m, n \in 1..Cardinality(T) : m < n => f[s[m]] < f[s[n]]
           A == {T \in SUBSET S : \E s : Sorts(s, T)}
<1>1. {} \in A
  <2>1. Sorts([n \in 1..0 |-> 0], {})
    BY FS_EmptySet
  <2> QED BY <2>1
<1>2. ASSUME NEW T \in SUBSET S, T # {}, \A x \in T : T \ {x} \in A PROVE T \in A
  <2>1. IsFiniteSet(T)
    BY FS_Subset
  <2>2. PICK x \in T : \A y \in T : f[y] <= f[x]
    <3> DEFINE g == [y \in T |-> f[y]]
    <3>1. IsCosts(g) /\ DOMAIN g # {}
      BY <1>2, <2>1 DEF IsCosts
    <3> HIDE DEF g
    <3>2. PICK v \in Range(g) : \A w \in Range(g) : w <= v
      BY <3>1, LargestCost
    <3>3. PICK x \in T : v = f[x]
      BY DEF Range, g
    <3>4. \A y \in T : f[y] \in Range(g)
      BY DEF Range, g
    <3> QED BY <3>2, <3>3, <3>4
  <2> DEFINE R == T \ {x}
             c == Cardinality(R)
  <2>3. R \in A
    BY <1>2
  <2>4. PICK s : Sorts(s, R)
    BY <2>3
  <2>5. c \in Nat /\ Cardinality(T) = c + 1
    <3>1. IsFiniteSet(R) /\ Cardinality(R) = Cardinality(T) - 1
      BY <2>1, FS_RemoveElement
    <3>2. Cardinality(T) \in Nat /\ Cardinality(R) \in Nat
      BY <2>1, <3>1, FS_CardinalityType
    <3> QED BY <3>1, <3>2
  <2>6. \A n \in 1..c : s[n] \in T /\ s[n] # x
    BY <2>4
  <2>7. \A n \in 1..c : f[s[n]] < f[x]
    <3> SUFFICES ASSUME NEW n \in 1..c PROVE f[s[n]] < f[x]
      OBVIOUS
    <3>1. s[n] \in S /\ x \in S /\ s[n] # x /\ f[s[n]] <= f[x]
      BY <2>2, <2>6
    <3>2. f[s[n]] # f[x] /\ f[s[n]] \in Nat /\ f[x] \in Nat
      BY <3>1
    <3> QED BY <3>1, <3>2
  <2> DEFINE u == [n \in 1..(c + 1) |-> IF n = c + 1 THEN x ELSE s[n]]
  <2>8. \A n \in 1..(c + 1) : n = c + 1 \/ n \in 1..c
    BY <2>5
  <2>9. \A m, n \in 1..c : m < n => f[s[m]] < f[s[n]]
    BY <2>4
  <2> HIDE DEF c, R, A, Sorts
  <2>10. u \in [1..(c + 1) -> T]
    BY <2>6, <2>8
  <2>11. ASSUME NEW m \in 1..(c + 1), NEW n \in 1..(c + 1), m < n PROVE f[u[m]] < f[u[n]]
    <3>1. m \in 1..c /\ u[m] = s[m]
      BY <2>5, <2>11
    <3>2. CASE n = c + 1
      BY <2>7, <3>1, <3>2
    <3>3. CASE n \in 1..c
      <4>1. u[n] = s[n]
        BY <2>5, <3>3
      <4> QED BY <2>9, <2>11, <3>1, <3>3, <4>1
    <3> QED BY <2>8, <3>2, <3>3
  <2>12. Sorts(u, T)
    BY <2>5, <2>10, <2>11 DEF Sorts
  <2> QED BY <2>12 DEF A
<1> HIDE DEF A, Sorts
<1>3. SUBSET S \subseteq A
  BY <1>1, <1>2, SubsetInduction
<1>4. PICK s : Sorts(s, S)
  BY <1>3 DEF A
<1> QED BY <1>4 DEF Sorts

LEMMA FunctionIsSeq ==
  ASSUME NEW T, NEW n \in Nat, NEW f \in [1..n -> T] PROVE f \in Seq(T)
OBVIOUS

\* What a job prints.
LEMMA CounterLinesFacts ==
  ASSUME program \in Programs, JobsInv, NEW j \in Jobs
  PROVE  /\ CounterLines(j) \in Seq(LogLine)
         /\ \A n \in DOMAIN CounterLines(j) : LineFor(CounterLines(j)[n])
<1> DEFINE covered == {g \in Guards : counters[j][g] > 0}
           sorted  == CHOOSE s \in [1..Cardinality(covered) -> covered] :
                        \A m, n \in DOMAIN s : m < n => number[j][s[m]] < number[j][s[n]]
           N       == Cardinality(covered)
<1>1. IsFiniteSet(covered) /\ N \in Nat
  BY GuardFacts, FS_Subset, FS_CardinalityType
<1>2. covered # {} => number[j] = Numbers
  BY DEF JobsInv
<1>3. ASSUME NEW g \in covered PROVE number[j][g] = Numbers[g] /\ Numbers[g] \in 1..Cardinality(Guards)
  BY <1>2, NumbersFacts
<1>4. \A g, h \in covered : number[j][g] = number[j][h] => g = h
  BY <1>3, NumbersFacts
<1>5. sorted \in [1..N -> covered]
  <2>1. \A g \in covered : number[j][g] \in Nat
    BY <1>3
  <2> HIDE DEF covered
  <2>2. \E s \in [1..Cardinality(covered) -> covered] :
          \A m, n \in DOMAIN s : m < n => number[j][s[m]] < number[j][s[n]]
    BY <1>1, <1>4, <2>1, SortedExists
  <2> QED BY <2>2
<1>6. /\ DOMAIN CounterLines(j) = 1..N
      /\ \A n \in 1..N : CounterLines(j)[n] = [guard |-> sorted[n], index |-> number[j][sorted[n]],
                                                cost |-> counters[j][sorted[n]]]
  <2>1. CounterLines(j) = [n \in DOMAIN sorted |->
                             [guard |-> sorted[n], index |-> number[j][sorted[n]],
                              cost |-> counters[j][sorted[n]]]]
    BY DEF CounterLines
  <2> HIDE DEF sorted
  <2> QED BY <1>5, <2>1
<1> HIDE DEF sorted
<1>7. ASSUME NEW n \in 1..N PROVE LineFor(CounterLines(j)[n]) /\ CounterLines(j)[n] \in LogLine
  <2>1. sorted[n] \in covered
    BY <1>5
  <2>2. counters[j][sorted[n]] \in 1..MaxHits
    BY <2>1, CoverageAssumption DEF JobsInv
  <2> QED BY <1>3, <1>6, <2>1, <2>2 DEF LineFor, LogLine
<1>8. CounterLines(j) \in [1..N -> LogLine]
  BY <1>6, <1>7 DEF CounterLines
<1> HIDE DEF N
<1>9. CounterLines(j) \in Seq(LogLine)
  BY <1>1, <1>8, FunctionIsSeq
<1> QED BY <1>6, <1>7, <1>9

\* The costs that alltimecounter_statistics.py adds up: no line of the log costs more
\* than its guard.
LEMMA CostsFacts ==
  ASSUME program \in Programs, log \in Seq(LogLine)
  PROVE  /\ IsFiniteSet(DOMAIN log) /\ DOMAIN log \in SUBSET (Nat \ {0})
         /\ \A n \in DOMAIN log : log[n] \in LogLine /\ log[n].cost \in Nat
         /\ DOMAIN Costs = {log[n].guard : n \in DOMAIN log} /\ DOMAIN Costs \subseteq Guards
         /\ IsCosts(Costs)
         /\ \A n \in DOMAIN log : log[n].cost <= Costs[log[n].guard]
<1>1. /\ DOMAIN log = 1..Len(log) /\ Len(log) \in Nat /\ IsFiniteSet(DOMAIN log)
      /\ DOMAIN log \in SUBSET (Nat \ {0})
  <2>1. DOMAIN log = 1..Len(log) /\ Len(log) \in Nat
    OBVIOUS
  <2>2. IsFiniteSet(1..Len(log))
    BY <2>1, FS_Interval
  <2>3. 1..Len(log) \in SUBSET (Nat \ {0})
    BY <2>1
  <2> QED BY <2>1, <2>2, <2>3
<1>2. ASSUME NEW n \in DOMAIN log
      PROVE  /\ log[n] \in LogLine /\ log[n].cost \in Nat /\ log[n].guard \in Guards
  <2>1. log[n] \in LogLine
    BY <1>1, SeqElement
  <2> QED BY <2>1, CoverageAssumption DEF LogLine
<1>3. DOMAIN Costs = {log[n].guard : n \in DOMAIN log} /\ DOMAIN Costs \subseteq Guards
  BY <1>2 DEF Costs
<1> DEFINE cost     == [n \in DOMAIN log |-> log[n].cost]
           Lines(g) == {n \in DOMAIN log : log[n].guard = g}
<1>4. \A g : /\ Lines(g) \in SUBSET (DOMAIN log) /\ IsFiniteSet(Lines(g))
             /\ \A n \in Lines(g) : cost[n] \in Nat /\ cost[n] = log[n].cost
  BY <1>1, <1>2, FS_Subset
<1>5. ASSUME NEW g \in DOMAIN Costs PROVE Costs[g] = SumFunctionOnSet(cost, Lines(g))
  BY DEF Costs
<1> HIDE DEF cost, Lines
<1>6. ASSUME NEW g \in DOMAIN Costs PROVE Costs[g] \in Nat
  BY <1>4, <1>5, SumType
<1>7. ASSUME NEW n \in DOMAIN log PROVE log[n].cost <= Costs[log[n].guard]
  <2>1. log[n].guard \in DOMAIN Costs /\ n \in Lines(log[n].guard)
    BY <1>3 DEF Lines
  <2>2. cost[n] <= SumFunctionOnSet(cost, Lines(log[n].guard))
    BY <1>4, <2>1, SumElement
  <2> QED BY <1>4, <1>5, <2>1, <2>2
<1>8. IsCosts(Costs)
  BY <1>3, <1>6, GuardFacts, FS_Subset DEF IsCosts
<1> QED BY <1>1, <1>2, <1>3, <1>7, <1>8

\* A guard with one line costs what the line says.
LEMMA OneLine ==
  ASSUME program \in Programs, log \in Seq(LogLine), NEW n \in DOMAIN log,
         \A m \in DOMAIN log : log[m].guard = log[n].guard => m = n
  PROVE  Costs[log[n].guard] = log[n].cost
<1> DEFINE cost == [m \in DOMAIN log |-> log[m].cost]
           g    == log[n].guard
<1>1. Costs[g] = SumFunctionOnSet(cost, {m \in DOMAIN log : log[m].guard = g})
  BY DEF Costs
<1>2. {m \in DOMAIN log : log[m].guard = g} = {n}
  OBVIOUS
<1>3. cost[n] = log[n].cost /\ cost[n] \in Nat
  BY CostsFacts
<1> HIDE DEF cost, g
<1>4. n \notin {} /\ {} \cup {n} = {n}
  OBVIOUS
<1>5. SumFunctionOnSet(cost, {} \cup {n}) = cost[n] + SumFunctionOnSet(cost, {})
  BY <1>3, <1>4, SumAdd, FS_EmptySet
<1>6. SumFunctionOnSet(cost, {n}) = cost[n]
  BY <1>3, <1>4, <1>5, SumEmpty
<1> QED BY <1>1, <1>2, <1>3, <1>6 DEF g

\* The script's threshold is positive and honours the level.
LEMMA FprecThresholdFacts ==
  ASSUME program \in Programs, costlevel \in CostLevels, log \in Seq(LogLine), log # <<>>
  PROVE  /\ FprecThreshold \in Nat \ {0}
         /\ Den * KeptCost(Costs, FprecThreshold) >= costlevel * TotalCost(Costs)
<1> DEFINE V == {v \in Range(Costs) : Den * KeptCost(Costs, v + 1) >= costlevel * TotalCost(Costs)}
<1>1. IsCosts(Costs) /\ DOMAIN Costs # {}
  <2>1. 1 \in DOMAIN log
    OBVIOUS
  <2> QED BY <2>1, CostsFacts
<1>2. PICK v \in Range(Costs) : v \in Nat /\ \A w \in Range(Costs) : w \in Nat /\ w <= v
  BY <1>1, LargestCost
<1>3. Kept(Costs, v + 1) = DOMAIN Costs
  <2>1. \A g \in DOMAIN Costs : Costs[g] < v + 1
    <3> SUFFICES ASSUME NEW g \in DOMAIN Costs PROVE Costs[g] < v + 1
      OBVIOUS
    <3>1. Costs[g] \in Range(Costs)
      BY DEF Range
    <3>2. Costs[g] \in Nat /\ Costs[g] <= v /\ v \in Nat
      BY <1>2, <3>1
    <3> QED BY <3>2
  <2> QED BY <2>1 DEF Kept
<1>4. costlevel \in 0..Den
  BY CoverageAssumption
<1>5. Honours("cost", Costs, costlevel, v + 1)
  BY <1>1, <1>3, <1>4, AllHonours
<1>6. v \in V
  BY <1>5 DEF Honours
<1>7. V \in SUBSET Nat /\ V # {}
  BY <1>2, <1>6
<1>8. FprecThreshold = 1 + Min(V)
  BY DEF FprecThreshold
<1>9. Min(V) \in V
  <2> HIDE DEF V
  <2> QED BY <1>7, MinFacts
<1>10. Min(V) \in Nat /\ Den * KeptCost(Costs, Min(V) + 1) >= costlevel * TotalCost(Costs)
  BY <1>7, <1>9
<1> HIDE DEF V
<1>11. Min(V) + 1 = 1 + Min(V)
  BY <1>10
<1> QED BY <1>8, <1>10, <1>11

-----------------------------------------------------------------------------
(* The offset of a function *)

\* The pairs that agree on offset o.
Pairs(k) ==
  {p \in Indices(k) \X Covered(k) :
     /\ Loc(<<k, p[1]>>) # NoLoc
     /\ log[p[2]].index - p[1] >= RangeFirst(k) /\ log[p[2]].index - p[1] < RangeSecond(k)
     /\ locationsMatch(Loc(<<k, p[1]>>), Loc(log[p[2]].guard))}
Agree(k, o) == {p \in Pairs(k) : log[p[2]].index - p[1] = o}

\* At most one call agrees for each line.
LEMMA AgreeFacts ==
  ASSUME program \in Programs, log \in Seq(LogLine), NEW k \in Funs, NEW o \in Nat
  PROVE  /\ IsFiniteSet(Covered(k)) /\ IsFiniteSet(Agree(k, o))
         /\ Cardinality(Agree(k, o)) \in Nat /\ Cardinality(Covered(k)) \in Nat
         /\ Cardinality(Agree(k, o)) <= Cardinality(Covered(k))
         /\ Cardinality(Agree(k, o)) = Cardinality(Covered(k))
              => \A n \in Covered(k) : \E p \in Agree(k, o) : p[2] = n
<1>1. Covered(k) \subseteq DOMAIN log /\ IsFiniteSet(Covered(k))
  BY CostsFacts, FS_Subset DEF Covered
<1>2. ASSUME NEW p \in Agree(k, o)
      PROVE  /\ p = <<p[1], p[2]>> /\ p[1] \in Nat /\ p[2] \in Covered(k)
             /\ log[p[2]].index \in Nat /\ p[1] = log[p[2]].index - o
  <2>1. p \in Indices(k) \X Covered(k) /\ log[p[2]].index - p[1] = o
    BY DEF Agree, Pairs
  <2>2. p[1] \in Nat
    BY <2>1, FunFacts DEF Indices
  <2>3. log[p[2]].index \in Nat
    BY <1>1, <2>1, CostsFacts, GuardFacts DEF LogLine
  <2> QED BY <2>1, <2>2, <2>3
<1> DEFINE f == [p \in Agree(k, o) |-> p[2]]
<1>3. f \in Injection(Agree(k, o), Covered(k))
  <2>1. f \in [Agree(k, o) -> Covered(k)]
    BY <1>2
  <2>2. ASSUME NEW p \in Agree(k, o), NEW q \in Agree(k, o), f[p] = f[q] PROVE p = q
    <3>1. p[2] = q[2]
      BY <2>2
    <3>2. p[1] = q[1]
      BY <1>2, <3>1
    <3> QED BY <1>2, <3>1, <3>2
  <2> QED BY <2>1, <2>2 DEF Injection, IsInjective
<1>4. /\ IsFiniteSet(Agree(k, o))
      /\ Cardinality(Agree(k, o)) <= Cardinality(Covered(k))
      /\ Cardinality(Agree(k, o)) = Cardinality(Covered(k)) <=> f \in Surjection(Agree(k, o), Covered(k))
  BY <1>1, <1>3, FS_Injection
<1>5. f \in Surjection(Agree(k, o), Covered(k))
        => \A n \in Covered(k) : \E p \in Agree(k, o) : p[2] = n
  BY DEF Surjection
<1> QED BY <1>1, <1>4, <1>5, FS_CardinalityType

\* computeTracePCGuardIndexOffset returns the first offset on which most pairs agree.
LEMMA OffsetFacts ==
  ASSUME program \in Programs, log \in Seq(LogLine), NEW k \in Funs
  PROVE  /\ GuardIndexOffset(k) \in 0..Cardinality(Guards)
         /\ \A t \in 1..Cardinality(Guards) :
              Covered(k) # {} /\ Cardinality(Agree(k, t)) > 0 =>
                /\ GuardIndexOffset(k) \in 1..Cardinality(Guards)
                /\ Cardinality(Agree(k, t)) <= Cardinality(Agree(k, GuardIndexOffset(k)))
                /\ Cardinality(Agree(k, t)) = Cardinality(Agree(k, GuardIndexOffset(k)))
                     => GuardIndexOffset(k) <= t
<1> DEFINE N     == Cardinality(Guards)
           count == Offsets(k)
           most  == Max(Range(count))
           First == {o \in DOMAIN count : count[o] = most}
<1>1. N \in Nat
  BY GuardFacts
<1>2. DOMAIN count = 1..N /\ \A o \in 1..N : count[o] = Cardinality(Agree(k, o))
  BY DEF Offsets, Agree, Pairs
<1>3. \A o \in 1..N : count[o] \in Nat /\ count[o] <= Cardinality(Covered(k))
  <2> SUFFICES ASSUME NEW o \in 1..N PROVE count[o] \in Nat /\ count[o] <= Cardinality(Covered(k))
    OBVIOUS
  <2>1. o \in Nat
    BY <1>1
  <2> QED BY <1>2, <2>1, AgreeFacts
<1>4. GuardIndexOffset(k) = IF Covered(k) = {} THEN 0 ELSE IF most = 0 THEN 0 ELSE Min(First)
  BY DEF GuardIndexOffset
<1> HIDE DEF count
<1>5. ASSUME Covered(k) # {}
      PROVE  /\ most \in Nat /\ First \in SUBSET (1..N) /\ First # {}
             /\ \A o \in 1..N : count[o] <= most
  <2>1. PICK n \in Covered(k) : n \in DOMAIN log
    BY <1>5 DEF Covered
  <2>2. log[n].index \in 1..N
    BY <2>1, CostsFacts DEF LogLine
  <2>3. Range(count) \in SUBSET Nat /\ Range(count) # {}
    BY <1>2, <1>3, <2>2 DEF Range
  <2>4. Cardinality(Covered(k)) \in Nat /\ \A y \in Range(count) : y <= Cardinality(Covered(k))
    <3>1. Cardinality(Covered(k)) \in Nat
      <4>1. 0 \in Nat
        OBVIOUS
      <4> QED BY <4>1, AgreeFacts
    <3> QED BY <1>2, <1>3, <3>1 DEF Range
  <2>5. most \in Range(count) /\ \A y \in Range(count) : most >= y
    BY <2>3, <2>4, MaxFacts
  <2> HIDE DEF most
  <2>6. \A o \in 1..N : count[o] \in Range(count)
    BY <1>2 DEF Range
  <2>7. First # {} /\ First \in SUBSET (1..N)
    BY <1>2, <2>5 DEF Range
  <2>8. \A o \in 1..N : count[o] <= most
    <3> SUFFICES ASSUME NEW o \in 1..N PROVE count[o] <= most
      OBVIOUS
    <3>1. count[o] \in Nat /\ most \in Nat /\ most >= count[o]
      BY <2>3, <2>5, <2>6
    <3> QED BY <3>1
  <2> QED BY <2>3, <2>5, <2>7, <2>8
<1> HIDE DEF most
<1>6. ASSUME Covered(k) # {} PROVE Min(First) \in First /\ \A y \in First : Min(First) <= y
  <2>1. First \in SUBSET Nat /\ First # {}
    BY <1>1, <1>5, <1>6
  <2> HIDE DEF First
  <2> QED BY <2>1, MinFacts
<1>7. GuardIndexOffset(k) \in 0..N
  <2>1. CASE Covered(k) = {} \/ most = 0
    BY <1>1, <1>4, <2>1
  <2>2. CASE Covered(k) # {} /\ most # 0
    <3>1. GuardIndexOffset(k) = Min(First) /\ Min(First) \in 1..N
      BY <1>4, <1>5, <1>6, <2>2
    <3> QED BY <1>1, <3>1
  <2> QED BY <2>1, <2>2
<1>8. ASSUME Covered(k) # {}, NEW t \in 1..N, Cardinality(Agree(k, t)) > 0
      PROVE  /\ GuardIndexOffset(k) \in 1..N
             /\ Cardinality(Agree(k, t)) <= Cardinality(Agree(k, GuardIndexOffset(k)))
             /\ Cardinality(Agree(k, t)) = Cardinality(Agree(k, GuardIndexOffset(k)))
                  => GuardIndexOffset(k) <= t
  <2>1. count[t] = Cardinality(Agree(k, t)) /\ count[t] <= most /\ count[t] \in Nat /\ most \in Nat
    BY <1>2, <1>3, <1>5, <1>8
  <2>2. most # 0
    BY <1>8, <2>1
  <2>3. GuardIndexOffset(k) = Min(First)
    BY <1>4, <1>8, <2>2
  <2>4. Min(First) \in 1..N /\ count[Min(First)] = most
    BY <1>2, <1>6, <1>8
  <2>5. Cardinality(Agree(k, Min(First))) = most
    BY <1>2, <2>4
  <2>6. count[t] = most => Min(First) <= t
    BY <1>2, <1>6, <1>8
  <2> QED BY <2>1, <2>3, <2>4, <2>5, <2>6
<1> QED BY <1>7, <1>8

\* Without two functions of the same name, the lines of a function are those of its
\* guards.
LEMMA CoveredFacts ==
  ASSUME program \in Programs, CompileInv, Unambiguous, NEW k \in Funs
  PROVE  /\ \A n \in DOMAIN log : n \in Covered(k) <=> log[n].guard[1] = k
         /\ \A n \in Covered(k) :
              /\ n \in DOMAIN log /\ log[n].guard \in Guards /\ log[n].guard[2] \in Indices(k)
              /\ log[n].guard = <<k, log[n].guard[2]>>
              /\ log[n].index = NumGuardsBefore(k) + log[n].guard[2] + 1
<1>1. ASSUME NEW n \in DOMAIN log
      PROVE  /\ log[n] \in LogLine /\ log[n].guard \in Guards /\ log[n].index = Numbers[log[n].guard]
  BY DEF CompileInv, LineFor, LogLine
<1>2. ASSUME NEW n \in DOMAIN log PROVE n \in Covered(k) <=> log[n].guard[1] = k
  <2> DEFINE g     == log[n].guard
             found == {h \in Funs : program[h].module = program[k].module /\ program[h].name = program[g[1]].name}
  <2>1. g[1] \in Funs
    BY <1>1, GuardFacts
  <2>2. \A h \in found : h = g[1]
    BY <2>1 DEF Unambiguous
  <2>3. FunctionIn(program[k].module, g) = IF found = {} THEN 0 ELSE Min(found)
    BY DEF FunctionIn
  <2>4. n \in Covered(k) <=> FunctionIn(program[k].module, g) = k
    BY <1>1 DEF Covered, Unambiguous
  <2>5. k \in Nat \ {0} /\ Funs \subseteq Nat
    BY FunFacts
  <2>6. found \in SUBSET Nat
    BY <2>5
  <2>7. found # {} => Min(found) \in found
    <3> HIDE DEF found
    <3> QED BY <2>6, MinFacts
  <2>8. CASE g[1] = k
    <3>1. k \in found
      BY <2>8
    <3>2. Min(found) = k
      BY <2>2, <2>7, <2>8, <3>1
    <3> QED BY <2>3, <2>4, <2>8, <3>1, <3>2
  <2>9. CASE g[1] # k
    <3> HIDE DEF found
    <3> QED BY <2>2, <2>3, <2>4, <2>5, <2>7, <2>9
  <2> QED BY <2>8, <2>9
<1>3. ASSUME NEW n \in Covered(k)
      PROVE  /\ n \in DOMAIN log /\ log[n].guard \in Guards /\ log[n].guard[2] \in Indices(k)
             /\ log[n].guard = <<k, log[n].guard[2]>>
             /\ log[n].index = NumGuardsBefore(k) + log[n].guard[2] + 1
  <2>1. n \in DOMAIN log
    BY DEF Covered
  <2>2. log[n].guard \in Guards /\ log[n].index = Numbers[log[n].guard] /\ log[n].guard[1] = k
    BY <1>1, <1>2, <2>1
  <2>3. /\ log[n].guard = <<log[n].guard[1], log[n].guard[2]>> /\ log[n].guard[2] \in Indices(log[n].guard[1])
    BY <2>2, GuardFacts
  <2>4. Numbers[log[n].guard] = NumGuardsBefore(log[n].guard[1]) + log[n].guard[2] + 1
    BY <2>2, NumbersFacts
  <2> QED BY <2>1, <2>2, <2>3, <2>4
<1> QED BY <1>2, <1>3

\* The lines around function k leave room for its true offset.
LEMMA RangeFacts ==
  ASSUME program \in Programs, CompileInv, Unambiguous, NEW k \in Funs, Covered(k) # {}
  PROVE  /\ NumGuardsBefore(k) + 1 \in 1..Cardinality(Guards)
         /\ RangeFirst(k) <= NumGuardsBefore(k) + 1
         /\ NumGuardsBefore(k) + 1 < RangeSecond(k)
<1> DEFINE B == NumGuardsBefore(k)
           N == Cardinality(Guards)
<1>1. /\ B \in Nat /\ N \in Nat /\ B + Len(program[k].locs) <= N /\ Len(program[k].locs) \in Nat
  BY RowFacts, GuardFacts, FunFacts
<1>2. ASSUME NEW h \in Funs, NEW m \in NumbersOf(h)
      PROVE  \E g \in Guards : g[1] = h /\ m = Numbers[g] /\ m \in 1..N
  <2>1. PICK n \in Covered(h) : m = log[n].index
    BY DEF NumbersOf
  <2>2. n \in DOMAIN log /\ log[n].guard \in Guards /\ log[n].guard[1] = h
    BY CoveredFacts
  <2>3. log[n].index = Numbers[log[n].guard]
    BY <2>2 DEF CompileInv, LineFor
  <2> QED BY <2>1, <2>2, <2>3, NumbersFacts
<1>3. \A m \in NumbersOf(k) : m \in 1..N /\ B < m /\ m <= B + Len(program[k].locs)
  BY <1>2, NumbersFacts
<1>4. NumbersOf(k) # {} /\ NumbersOf(k) \in SUBSET Nat
  BY <1>3 DEF NumbersOf
<1>5. /\ Min(NumbersOf(k)) \in NumbersOf(k) /\ \A m \in NumbersOf(k) : Min(NumbersOf(k)) <= m
  BY <1>4, MinFacts
<1>6. /\ Max(NumbersOf(k)) \in NumbersOf(k) /\ \A m \in NumbersOf(k) : Max(NumbersOf(k)) >= m
  <2>1. \A m \in NumbersOf(k) : m <= N
    BY <1>1, <1>3
  <2> QED BY <1>1, <1>4, <2>1, MaxFacts
<1>7. B + 1 \in 1..N
  <2>1. PICK m \in NumbersOf(k) : m \in 1..N /\ B < m
    BY <1>3, <1>4
  <2> QED BY <1>1, <2>1
<1>8. ASSUME NEW m \in NumbersAround(k)
      PROVE  m \in 1..N /\ (m < Min(NumbersOf(k)) => m <= B) /\ (m > Max(NumbersOf(k)) => m > B + 1)
  <2>1. PICK h \in Funs : m \in NumbersOf(h)
    BY DEF NumbersAround
  <2>2. PICK g \in Guards : g[1] = h /\ m = Numbers[g] /\ m \in 1..N
    BY <1>2, <2>1
  <2>3. h \in Nat /\ k \in Nat
    BY FunFacts
  <2>4. ASSUME m < Min(NumbersOf(k)) PROVE m <= B
    <3>1. h # k
      <4>1. Min(NumbersOf(k)) \in Nat /\ m \in Nat
        BY <1>4, <1>5, <2>2
      <4> QED BY <1>5, <2>1, <2>4, <4>1
    <3>2. PICK x \in Guards : x[1] = k /\ Min(NumbersOf(k)) = Numbers[x]
      BY <1>2, <1>5
    <3>3. ~ (k < h)
      <4> SUFFICES ASSUME k < h PROVE FALSE
        OBVIOUS
      <4>1. Numbers[x] <= NumGuardsBefore(h) /\ NumGuardsBefore(h) < Numbers[g]
        BY <2>2, <3>2, NumbersFacts
      <4>2. Numbers[x] \in Nat /\ Numbers[g] \in Nat /\ NumGuardsBefore(h) \in Nat
        BY <2>2, NumbersFacts, RowFacts
      <4> QED BY <2>2, <2>4, <3>2, <4>1, <4>2
    <3>4. h < k
      BY <2>3, <3>1, <3>3
    <3>5. g[1] < x[1]
      BY <2>2, <3>2, <3>4
    <3>6. Numbers[g] <= NumGuardsBefore(x[1])
      BY <3>5, NumbersFacts
    <3> QED BY <2>2, <3>2, <3>6
  <2>5. ASSUME m > Max(NumbersOf(k)) PROVE m > B + 1
    BY <1>1, <1>3, <1>6, <2>2, <2>5
  <2> QED BY <2>2, <2>4, <2>5
<1>9. RangeFirst(k) <= B + 1
  <2> DEFINE before == {n \in NumbersAround(k) : n < Min(NumbersOf(k))}
  <2>1. RangeFirst(k) = IF before = {} THEN 0 ELSE Max(before) + 1
    BY DEF RangeFirst
  <2>2. before \in SUBSET Nat /\ \A m \in before : m <= B
    BY <1>8
  <2> HIDE DEF before
  <2>3. before # {} => Max(before) \in before
    BY <1>1, <2>2, MaxFacts
  <2>4. before # {} => Max(before) \in Nat /\ Max(before) <= B
    BY <2>2, <2>3
  <2> QED BY <1>1, <2>1, <2>4
<1>10. B + 1 < RangeSecond(k)
  <2> DEFINE after == {n \in NumbersAround(k) : n > Max(NumbersOf(k))}
  <2>1. RangeSecond(k) = IF after = {} THEN N + 1 ELSE Min(after)
    BY DEF RangeSecond
  <2>2. after \in SUBSET Nat /\ \A m \in after : m > B + 1
    BY <1>8
  <2> HIDE DEF after
  <2>3. after # {} => Min(after) \in after
    BY <2>2, MinFacts
  <2>4. after # {} => Min(after) \in Nat /\ Min(after) > B + 1
    BY <2>2, <2>3
  <2> QED BY <1>1, <1>7, <2>1, <2>4
<1> QED BY <1>7, <1>9, <1>10

\* Every line of function k agrees with its true offset, so the offset that is found
\* agrees with every line, too.
LEMMA FoundOffset ==
  ASSUME program \in Programs, CompileInv, Unambiguous, NEW k \in Funs, Covered(k) # {}
  PROVE  /\ GuardIndexOffset(k) \in 1..(NumGuardsBefore(k) + 1)
         /\ \A n \in Covered(k) :
              /\ log[n].index - GuardIndexOffset(k) \in Indices(k)
              /\ SameLocation(<<k, log[n].index - GuardIndexOffset(k)>>, log[n].guard)
<1> DEFINE B == NumGuardsBefore(k)
           N == Cardinality(Guards)
           o == GuardIndexOffset(k)
<1>1. log \in Seq(LogLine)
  BY DEF CompileInv
<1>2. B \in Nat /\ N \in Nat /\ B + 1 \in 1..N /\ B + 1 \in Nat
  BY RowFacts, GuardFacts, RangeFacts
<1>3. ASSUME NEW n \in Covered(k)
      PROVE  /\ log[n].guard[2] \in Nat /\ log[n].index - log[n].guard[2] = B + 1
             /\ <<log[n].guard[2], n>> \in Agree(k, B + 1)
  <2> DEFINE c == log[n].guard[2]
  <2>1. /\ c \in Indices(k) /\ log[n].index = B + c + 1 /\ log[n].guard = <<k, c>>
        /\ log[n].guard \in Guards
    BY CoveredFacts
  <2>2. c \in Nat
    BY <2>1, FunFacts DEF Indices
  <2>3. log[n].index - c = B + 1
    BY <1>2, <2>1, <2>2
  <2>4. Loc(<<k, c>>) # NoLoc
    BY <2>1 DEF Unambiguous
  <2>5. locationsMatch(Loc(<<k, c>>), Loc(log[n].guard))
    BY <2>1 DEF locationsMatch
  <2>6. log[n].index - c >= RangeFirst(k) /\ log[n].index - c < RangeSecond(k)
    <3>1. RangeFirst(k) <= B + 1 /\ B + 1 < RangeSecond(k)
      BY RangeFacts
    <3> QED BY <2>3, <3>1
  <2> HIDE DEF c
  <2>7. <<c, n>> \in Agree(k, B + 1)
    BY <2>1, <2>3, <2>4, <2>5, <2>6 DEF Agree, Pairs
  <2> QED BY <2>2, <2>3, <2>7 DEF c
<1>4. Cardinality(Covered(k)) <= Cardinality(Agree(k, B + 1))
  <2> DEFINE f == [n \in Covered(k) |-> <<log[n].guard[2], n>>]
  <2>1. f \in Injection(Covered(k), Agree(k, B + 1))
    BY <1>3 DEF Injection, IsInjective
  <2>2. IsFiniteSet(Agree(k, B + 1))
    BY <1>1, <1>2, AgreeFacts
  <2> QED BY <2>1, <2>2, FS_Injection
<1>5. /\ Cardinality(Covered(k)) \in Nat /\ Cardinality(Agree(k, B + 1)) = Cardinality(Covered(k))
      /\ Cardinality(Agree(k, B + 1)) > 0
  <2>1. /\ IsFiniteSet(Covered(k)) /\ Cardinality(Covered(k)) \in Nat /\ Cardinality(Agree(k, B + 1)) \in Nat
        /\ Cardinality(Agree(k, B + 1)) <= Cardinality(Covered(k))
    BY <1>1, <1>2, AgreeFacts
  <2>2. Cardinality(Covered(k)) # 0
    BY <2>1, FS_EmptySet
  <2> QED BY <1>4, <2>1, <2>2
<1>6. /\ o \in 1..N
      /\ Cardinality(Agree(k, B + 1)) <= Cardinality(Agree(k, o))
      /\ Cardinality(Agree(k, B + 1)) = Cardinality(Agree(k, o)) => o <= B + 1
  BY <1>1, <1>2, <1>5, OffsetFacts
<1>7. o \in Nat /\ Cardinality(Agree(k, o)) = Cardinality(Covered(k)) /\ o \in 1..(B + 1)
  <2>1. o \in Nat
    BY <1>2, <1>6
  <2> HIDE DEF o
  <2>2. Cardinality(Agree(k, o)) <= Cardinality(Covered(k)) /\ Cardinality(Agree(k, o)) \in Nat
    BY <1>1, <2>1, AgreeFacts
  <2>3. Cardinality(Agree(k, o)) = Cardinality(Covered(k))
    BY <1>5, <1>6, <2>2
  <2> QED BY <1>2, <1>5, <1>6, <2>1, <2>3
<1> HIDE DEF o
<1>8. ASSUME NEW n \in Covered(k)
      PROVE  /\ log[n].index - o \in Indices(k)
             /\ SameLocation(<<k, log[n].index - o>>, log[n].guard)
  <2>1. PICK p \in Agree(k, o) : p[2] = n
    BY <1>1, <1>7, AgreeFacts
  <2>2. /\ p[1] \in Indices(k) /\ log[n].index - p[1] = o
        /\ locationsMatch(Loc(<<k, p[1]>>), Loc(log[n].guard))
    BY <2>1 DEF Agree, Pairs
  <2>3. p[1] \in Nat /\ log[n].index \in Nat
    <3>1. n \in DOMAIN log
      BY DEF Covered
    <3> QED BY <1>1, <1>2, <2>2, <3>1, FunFacts, CostsFacts DEF Indices, LogLine
  <2>4. log[n].index - o = p[1]
    BY <1>7, <2>2, <2>3
  <2>5. log[n].guard[1] = k
    BY CoveredFacts
  <2>6. SameLocation(<<k, p[1]>>, log[n].guard)
    BY <2>2, <2>5 DEF SameLocation, locationsMatch
  <2> QED BY <2>2, <2>4, <2>6
<1> QED BY <1>7, <1>8 DEF o

-----------------------------------------------------------------------------
(* The steps from the counters to the compiled functions *)

LEMMA ProgramFrame ==
  ASSUME UNCHANGED program
  PROVE  /\ Funs' = Funs /\ Guards' = Guards /\ Numbers' = Numbers /\ LogLine' = LogLine
         /\ \A k : Indices(k)' = Indices(k)
         /\ \A l : LineFor(l)' <=> LineFor(l)
<1>1. Funs' = Funs /\ \A k : Indices(k)' = Indices(k)
  BY DEF Funs, Indices
<1>2. Guards' = Guards
  BY <1>1 DEF Guards
<1>3. \A k : NumGuardsBefore(k)' = NumGuardsBefore(k)
  BY <1>2 DEF NumGuardsBefore
<1>4. Numbers' = Numbers /\ LogLine' = LogLine
  BY <1>2, <1>3 DEF Numbers, LogLine
<1> QED BY <1>1, <1>2, <1>4 DEF LineFor

LEMMA LogFrame ==
  ASSUME UNCHANGED <<program, log>>
  PROVE  /\ \A k : GuardIndexOffset(k)' = GuardIndexOffset(k)
         /\ \A k, c, o : CostOf(k, c, o)' = CostOf(k, c, o)
         /\ UNCHANGED costlevel => FprecThreshold' = FprecThreshold
<1>1. \A k : Covered(k)' = Covered(k)
  BY DEF Covered, FunctionIn, Funs, Loc
<1>2. \A k : NumbersOf(k)' = NumbersOf(k)
  BY <1>1 DEF NumbersOf
<1>3. \A k : NumbersAround(k)' = NumbersAround(k)
  BY <1>2 DEF NumbersAround, Funs
<1>4. \A k : RangeFirst(k)' = RangeFirst(k) /\ RangeSecond(k)' = RangeSecond(k)
  BY <1>2, <1>3, ProgramFrame DEF RangeFirst, RangeSecond
<1>5. \A g : Loc(g)' = Loc(g)
  BY DEF Loc
<1>6. ASSUME NEW k PROVE Offsets(k)' = Offsets(k)
  <2>1. Indices(k)' = Indices(k) /\ Cardinality(Guards)' = Cardinality(Guards)
    BY ProgramFrame
  <2>2. Pairs(k)' = Pairs(k)
    <3>1. Covered(k)' = Covered(k) /\ RangeFirst(k)' = RangeFirst(k) /\ RangeSecond(k)' = RangeSecond(k)
      BY <1>1, <1>4
    <3> QED BY <2>1, <3>1 DEF Pairs, locationsMatch, Loc
  <2>3. \A o : Agree(k, o)' = Agree(k, o)
    BY <2>2 DEF Agree
  <2>4. Offsets(k) = [o \in 1..Cardinality(Guards) |-> Cardinality(Agree(k, o))]
    BY DEF Offsets, Agree, Pairs
  <2>5. Offsets(k)' = [o \in 1..Cardinality(Guards) |-> Cardinality(Agree(k, o))]'
    BY DEF Offsets, Agree, Pairs
  <2> QED BY <2>1, <2>3, <2>4, <2>5
<1>7. \A k : GuardIndexOffset(k)' = GuardIndexOffset(k)
  BY <1>1, <1>6 DEF GuardIndexOffset
<1>8. \A k, c, o : LineOf(k, c, o)' = LineOf(k, c, o)
  BY <1>1 DEF LineOf
<1>9. \A k, c, o : CostOf(k, c, o)' = CostOf(k, c, o)
  BY <1>8 DEF CostOf
<1>10. Costs' = Costs
  BY DEF Costs
<1>11. UNCHANGED costlevel => FprecThreshold' = FprecThreshold
  BY <1>10 DEF FprecThreshold
<1> QED BY <1>7, <1>9, <1>11

LEMMA CCInvInit == CCInit => CCInv
<1> SUFFICES ASSUME CCInit PROVE CCInv
  OBVIOUS
<1>1. program \in Programs
  BY DEF CCInit
<1>2. JobsInv
  BY CoverageAssumption DEF CCInit, JobsInv
<1>3. CompileInv
  <2>1. log \in Seq(LogLine) /\ DOMAIN log = {} /\ stage = "fuzz" /\ todo = Funs /\ removed = {}
    BY DEF CCInit
  <2>2. \A g \in Guards : g[1] \in Funs
    BY <1>1, GuardFacts
  <2>3. offset = [k \in Funs |-> IF k \in todo THEN 0 ELSE GuardIndexOffset(k)]
    BY <2>1 DEF CCInit
  <2> QED BY <2>1, <2>2, <2>3 DEF CompileInv
<1> QED BY <1>1, <1>2, <1>3 DEF CCInit, CCInv

\* While the jobs run, no function is compiled.
LEMMA NothingCompiled ==
  ASSUME program \in Programs, todo = Funs
  PROVE  /\ [k \in Funs |-> IF k \in todo THEN 0 ELSE GuardIndexOffset(k)] = [k \in Funs |-> 0]
         /\ {g \in Guards : g[1] \notin todo /\ TooExpensive(CostOf(g[1], g[2], offset[g[1]]))} = {}
BY GuardFacts

\* The jobs only append lines to the log.
LEMMA JobStep ==
  ASSUME CCInv, stage # "compile", stage' # "compile", JobsInv', log' \in Seq(LogLine),
         \A n \in DOMAIN log' : LineFor(log'[n]),
         UNCHANGED <<program, costlevel, threshold, todo, offset, removed>>,
         stage' \in {"fuzz", "failed"}
  PROVE  CCInv'
<1>1. todo = Funs /\ Funs' = Funs /\ Guards' = Guards /\ LogLine' = LogLine /\ todo' = Funs
  BY ProgramFrame DEF CCInv, CompileInv
<1>2. \A n \in DOMAIN log' : LineFor(log[n])'
  BY ProgramFrame DEF LineFor
<1>3. offset = [k \in Funs |-> 0] /\ removed = {}
  BY <1>1, NothingCompiled DEF CCInv, CompileInv
<1>4. \A g \in Guards : g[1] \in Funs
  BY GuardFacts DEF CCInv
<1>5. offset' = [k \in Funs |-> IF k \in todo THEN 0 ELSE GuardIndexOffset(k)]'
  BY <1>1, <1>3
<1>6. removed' = {g \in Guards : g[1] \notin todo /\ TooExpensive(CostOf(g[1], g[2], offset[g[1]]))}'
  BY <1>1, <1>3, <1>4
<1>7. CompileInv'
  BY <1>1, <1>2, <1>5, <1>6 DEF CompileInv
<1> QED BY <1>7 DEF CCInv

LEMMA CompileFrame ==
  ASSUME CompileInv, UNCHANGED <<program, costlevel, stage, log, threshold, todo, offset, removed>>
  PROVE  CompileInv'
<1>1. Funs' = Funs /\ Guards' = Guards /\ LogLine' = LogLine
  BY ProgramFrame
<1>2. \A n \in DOMAIN log : LineFor(log[n])'
  BY ProgramFrame DEF CompileInv, LineFor
<1>3. FprecThreshold' = FprecThreshold
  BY LogFrame
<1>4. offset' = [k \in Funs |-> IF k \in todo THEN 0 ELSE GuardIndexOffset(k)]'
  BY <1>1, LogFrame DEF CompileInv
<1>5. removed' = {g \in Guards : g[1] \notin todo /\ TooExpensive(CostOf(g[1], g[2], offset[g[1]]))}'
  BY <1>1, LogFrame DEF CompileInv, TooExpensive
<1> QED BY <1>1, <1>2, <1>3, <1>4, <1>5 DEF CompileInv

LEMMA JobsFrame ==
  ASSUME JobsInv, UNCHANGED <<program, number, counters, running>> PROVE JobsInv'
BY ProgramFrame DEF JobsInv

LEMMA HandleInitKeeps ==
  ASSUME CCInv, NEW j \in Jobs, HandleInit(j) PROVE CCInv'
<1>1. CompileInv'
  BY CompileFrame DEF HandleInit, CCInv
<1>2. Guards' = Guards /\ Numbers' = Numbers
  BY ProgramFrame DEF HandleInit
<1>3. JobsInv'
  BY <1>2 DEF HandleInit, CCInv, JobsInv
<1> QED BY <1>1, <1>3 DEF HandleInit, CCInv

LEMMA HandleTraceKeeps ==
  ASSUME CCInv, NEW j \in Jobs, HandleTrace(j) PROVE CCInv'
<1>1. CompileInv'
  BY CompileFrame DEF HandleTrace, CCInv
<1>2. Guards' = Guards /\ Numbers' = Numbers
  BY ProgramFrame DEF HandleTrace
<1>3. PICK g \in Guards : number[j][g] # 0 /\ counters' = [counters EXCEPT ![j][g] = @ + 1]
  BY DEF HandleTrace
<1>4. counters[j] \in [Guards -> 0..MaxHits] /\ MaxHits \in Nat
  BY CoverageAssumption DEF CCInv, JobsInv
<1>5. IsCosts(counters[j])
  BY <1>4, GuardFacts DEF CCInv, IsCosts
<1>6. counters[j][g] \in Nat /\ counters[j][g] <= TotalCost(counters[j]) /\ TotalCost(counters[j]) \in Nat
  BY <1>3, <1>4, <1>5, CostBelowTotal, KeptFacts
<1>7. counters[j][g] + 1 \in 0..MaxHits
  BY <1>4, <1>6 DEF HandleTrace
<1>8. counters' \in [Jobs -> [Guards -> 0..MaxHits]]
  BY <1>3, <1>7 DEF CCInv, JobsInv
<1>9. number[j] = Numbers
  <2>1. number[j] \in {[h \in Guards |-> 0], Numbers}
    BY DEF CCInv, JobsInv
  <2> QED BY <1>3, <2>1
<1>10. \A a \in Jobs, h \in Guards : counters'[a][h] > 0 => number[a] = Numbers
  <2> SUFFICES ASSUME NEW a \in Jobs, NEW h \in Guards, counters'[a][h] > 0 PROVE number[a] = Numbers
    OBVIOUS
  <2>1. CASE a = j
    BY <1>9, <2>1
  <2>2. CASE a # j
    <3>1. counters'[a] = counters[a]
      BY <1>3, <2>2 DEF CCInv, JobsInv
    <3> QED BY <3>1 DEF CCInv, JobsInv
  <2> QED BY <2>1, <2>2
<1>11. JobsInv'
  BY <1>2, <1>8, <1>10 DEF HandleTrace, CCInv, JobsInv
<1> QED BY <1>1, <1>11 DEF HandleTrace, CCInv

\* The memory of a job is gone when it ends.
LEMMA EndsKeeps ==
  ASSUME JobsInv, NEW j \in Jobs, Ends(j), UNCHANGED program PROVE JobsInv'
<1>1. Guards' = Guards /\ Numbers' = Numbers
  BY ProgramFrame
<1>2. [g \in Guards |-> 0] \in [Guards -> 0..MaxHits]
  BY CoverageAssumption
<1>3. number' \in [Jobs -> {[g \in Guards |-> 0], Numbers}] /\ counters' \in [Jobs -> [Guards -> 0..MaxHits]]
  BY <1>2 DEF Ends, JobsInv
<1>4. \A a \in Jobs, h \in Guards : counters'[a][h] > 0 => number'[a] = Numbers
  BY DEF Ends, JobsInv
<1> QED BY <1>1, <1>3, <1>4 DEF Ends, JobsInv

LEMMA JobEndsKeeps ==
  ASSUME CCInv, NEW j \in Jobs, JobEnds(j) PROVE CCInv'
<1>1. JobsInv'
  BY EndsKeeps DEF JobEnds, CCInv
<1>2. log \in Seq(LogLine) /\ \A n \in DOMAIN log : LineFor(log[n])
  BY DEF CCInv, CompileInv
<1>3. CounterLines(j) \in Seq(LogLine) /\ \A n \in DOMAIN CounterLines(j) : LineFor(CounterLines(j)[n])
  BY CounterLinesFacts DEF CCInv
<1>4. log' \in Seq(LogLine) /\ \A n \in DOMAIN log' : LineFor(log'[n])
  <2> DEFINE more == CounterLines(j)
  <2>1. log' = log \o more
    BY DEF JobEnds
  <2> HIDE DEF more
  <2>2. more \in Seq(LogLine) /\ \A n \in DOMAIN more : LineFor(more[n])
    BY <1>3 DEF more
  <2>3. log' \in Seq(LogLine) /\ DOMAIN log' = 1..(Len(log) + Len(more))
    BY <1>2, <2>1, <2>2
  <2>4. ASSUME NEW n \in DOMAIN log' PROVE LineFor(log'[n])
    <3>1. log'[n] = IF n <= Len(log) THEN log[n] ELSE more[n - Len(log)]
      BY <1>2, <2>1, <2>2, <2>3, <2>4
    <3>2. CASE n <= Len(log)
      BY <1>2, <2>3, <3>1, <3>2
    <3>3. CASE n > Len(log)
      <4>1. n - Len(log) \in DOMAIN more
        BY <1>2, <2>2, <2>3, <3>3
      <4> QED BY <1>2, <2>2, <2>3, <3>1, <3>3, <4>1
    <3> QED BY <1>2, <2>3, <3>2, <3>3
  <2> QED BY <2>3, <2>4
<1> QED BY <1>1, <1>4, JobStep DEF JobEnds

LEMMA JobKilledKeeps ==
  ASSUME CCInv, NEW j \in Jobs, JobKilled(j) PROVE CCInv'
<1>1. JobsInv'
  BY EndsKeeps DEF JobKilled, CCInv
<1>2. log' \in Seq(LogLine) /\ \A n \in DOMAIN log' : LineFor(log'[n])
  BY DEF JobKilled, CCInv, CompileInv
<1> QED BY <1>1, <1>2, JobStep DEF JobKilled

LEMMA EstimateThresholdKeeps ==
  ASSUME CCInv, EstimateThreshold PROVE CCInv'
<1>1. JobsInv'
  BY JobsFrame DEF EstimateThreshold, CCInv
<1>2. CASE log = <<>>
  <2>1. log' \in Seq(LogLine) /\ \A n \in DOMAIN log' : LineFor(log'[n])
    BY DEF EstimateThreshold, CCInv, CompileInv
  <2> QED BY <1>1, <1>2, <2>1, JobStep DEF EstimateThreshold
<1>3. CASE log # <<>>
  <2>1. Funs' = Funs /\ Guards' = Guards /\ LogLine' = LogLine /\ todo = Funs /\ todo' = Funs
    BY ProgramFrame DEF EstimateThreshold, CCInv, CompileInv
  <2>2. \A n \in DOMAIN log' : LineFor(log[n])'
    BY ProgramFrame DEF EstimateThreshold, CCInv, CompileInv, LineFor
  <2>3. threshold' = FprecThreshold' /\ threshold' \in Nat /\ stage' = "compile"
    BY <1>3, LogFrame, FprecThresholdFacts DEF EstimateThreshold, CCInv, CompileInv
  <2>4. \A g \in Guards : g[1] \in Funs
    BY GuardFacts DEF CCInv
  <2>5. offset = [k \in Funs |-> 0] /\ removed = {}
    BY <2>1, NothingCompiled DEF CCInv, CompileInv
  <2>6. offset' = [k \in Funs |-> IF k \in todo THEN 0 ELSE GuardIndexOffset(k)]'
    BY <2>1, <2>5 DEF EstimateThreshold
  <2>7. removed' = {g \in Guards : g[1] \notin todo /\ TooExpensive(CostOf(g[1], g[2], offset[g[1]]))}'
    BY <2>1, <2>4, <2>5 DEF EstimateThreshold
  <2>8. CompileInv'
    BY <1>3, <2>1, <2>2, <2>3, <2>6, <2>7 DEF EstimateThreshold, CCInv, CompileInv
  <2> QED BY <1>1, <2>3, <2>8 DEF EstimateThreshold, CCInv
<1> QED BY <1>2, <1>3

LEMMA RunOnFunctionKeeps ==
  ASSUME CCInv, NEW k \in Funs, RunOnFunction(k) PROVE CCInv'
<1>1. JobsInv'
  BY JobsFrame DEF RunOnFunction, CCInv
<1>2. Funs' = Funs /\ Guards' = Guards /\ LogLine' = LogLine
  BY ProgramFrame DEF RunOnFunction
<1>3. \A n \in DOMAIN log' : LineFor(log[n])'
  BY ProgramFrame DEF RunOnFunction, CCInv, CompileInv, LineFor
<1>4. /\ FprecThreshold' = FprecThreshold
      /\ \A h : GuardIndexOffset(h)' = GuardIndexOffset(h)
      /\ \A h, c, o : CostOf(h, c, o)' = CostOf(h, c, o)
  BY LogFrame DEF RunOnFunction
<1>5. /\ offset = [h \in Funs |-> IF h \in todo THEN 0 ELSE GuardIndexOffset(h)]
      /\ removed = {g \in Guards : g[1] \notin todo /\ TooExpensive(CostOf(g[1], g[2], offset[g[1]]))}
      /\ k \in todo /\ todo \subseteq Funs /\ todo' = todo \ {k}
  BY DEF CCInv, CompileInv, RunOnFunction
<1>6. offset' = [offset EXCEPT ![k] = GuardIndexOffset(k)]
  BY DEF RunOnFunction
<1>7. offset' = [h \in Funs |-> IF h \in todo' THEN 0 ELSE GuardIndexOffset(h)]
  BY <1>5, <1>6
<1>8. removed' = {g \in Guards : g[1] \notin todo' /\ TooExpensive(CostOf(g[1], g[2], offset'[g[1]]))}
  <2> DEFINE new == {g \in {k} \X Indices(k) : TooExpensive(CostOf(k, g[2], GuardIndexOffset(k)))}
  <2>1. removed' = removed \cup new
    BY DEF RunOnFunction
  <2>2. \A g \in Guards : g = <<g[1], g[2]>> /\ g[1] \in Funs /\ g[2] \in Indices(g[1])
    BY GuardFacts DEF CCInv
  <2>3. \A c \in Indices(k) : <<k, c>> \in Guards
    BY GuardFacts DEF CCInv
  <2>4. new = {g \in Guards : g[1] = k /\ TooExpensive(CostOf(g[1], g[2], GuardIndexOffset(k)))}
    BY <2>2, <2>3
  <2> HIDE DEF new
  <2>5. \A g \in Guards : offset'[g[1]] = IF g[1] = k THEN GuardIndexOffset(k) ELSE offset[g[1]]
    BY <1>5, <1>6, <2>2
  <2> QED BY <1>5, <2>1, <2>4, <2>5
<1>9. offset' = [h \in Funs |-> IF h \in todo THEN 0 ELSE GuardIndexOffset(h)]'
  BY <1>2, <1>4, <1>7
<1>10. removed' = {g \in Guards : g[1] \notin todo /\ TooExpensive(CostOf(g[1], g[2], offset[g[1]]))}'
  <2>1. threshold' = threshold
    BY DEF RunOnFunction
  <2> QED BY <1>2, <1>4, <1>8, <2>1 DEF TooExpensive
<1>11. CompileInv'
  BY <1>2, <1>3, <1>4, <1>5, <1>9, <1>10 DEF RunOnFunction, CCInv, CompileInv
<1> QED BY <1>1, <1>11 DEF RunOnFunction, CCInv

LEMMA CCInvNext == CCInv /\ [CCNext]_ccVars => CCInv'
<1> SUFFICES ASSUME CCInv, [CCNext]_ccVars PROVE CCInv'
  OBVIOUS
<1>1. CASE UNCHANGED ccVars
  <2>1. JobsInv' /\ CompileInv'
    BY <1>1, JobsFrame, CompileFrame DEF CCInv, ccVars
  <2> QED BY <1>1, <2>1 DEF CCInv, ccVars
<1>2. CASE \E j \in Jobs : HandleInit(j) \/ HandleTrace(j) \/ JobEnds(j) \/ JobKilled(j)
  BY <1>2, HandleInitKeeps, HandleTraceKeeps, JobEndsKeeps, JobKilledKeeps
<1>3. CASE EstimateThreshold
  BY <1>3, EstimateThresholdKeeps
<1>4. CASE \E k \in Funs : RunOnFunction(k)
  BY <1>4, RunOnFunctionKeeps
<1>5. CASE Done
  BY <1>1, <1>5 DEF Done
<1> QED BY <1>1, <1>2, <1>3, <1>4, <1>5 DEF CCNext

\* The variables of the counting jobs, of the log and of the compiled functions
\* keep their types: a line of the log has the number of a guard and a cost that
\* a job can have counted, and an offset is 0 or the number of a guard.
THEOREM CCTypes == CCSpec => []CCTypeOK
<1>1. CCInv => CCTypeOK
  <2> SUFFICES ASSUME CCInv PROVE CCTypeOK
    OBVIOUS
  <2>1. Numbers \in [Guards -> 1..Cardinality(Guards)]
    BY NumbersFacts DEF CCInv
  <2>2. \A j \in Jobs : number[j] \in [Guards -> {0}] \/ number[j] \in [Guards -> 1..Cardinality(Guards)]
    <3> SUFFICES ASSUME NEW j \in Jobs
                 PROVE  number[j] \in [Guards -> {0}] \/ number[j] \in [Guards -> 1..Cardinality(Guards)]
      OBVIOUS
    <3>1. number[j] \in {[g \in Guards |-> 0], Numbers}
      BY DEF CCInv, JobsInv
    <3> QED BY <2>1, <3>1
  <2>3. log \in Seq(LogLine) /\ \A l \in Range(log) : l \in LogLine
    BY SeqElement DEF CCInv, CompileInv, Range
  <2>4. offset \in [Funs -> 0..Cardinality(Guards)]
    <3>1. \A k \in Funs : GuardIndexOffset(k) \in 0..Cardinality(Guards)
      BY <2>3, OffsetFacts DEF CCInv
    <3>2. 0 \in 0..Cardinality(Guards)
      BY GuardFacts DEF CCInv
    <3> QED BY <3>1, <3>2 DEF CCInv, CompileInv
  <2>5. removed \subseteq Guards /\ todo \subseteq Funs
    BY DEF CCInv, CompileInv
  <2> QED BY <2>2, <2>3, <2>4, <2>5 DEF CCInv, JobsInv, CCTypeOK, LogLine
<1> QED BY <1>1, CCInvInit, CCInvNext, PTL DEF CCSpec

\* The offset and the line that a call of a compiled function gets.
LEMMA LineFacts ==
  ASSUME CCInv, Unambiguous, NEW k \in Funs, Compiled(k), NEW c \in Indices(k),
         LineOf(k, c, offset[k]) # 0
  PROVE  /\ offset[k] = GuardIndexOffset(k) /\ LineOf(k, c, offset[k]) \in Covered(k)
         /\ log[LineOf(k, c, offset[k])].index = c + offset[k]
         /\ SameLocation(<<k, c>>, log[LineOf(k, c, offset[k])].guard)
<1> DEFINE o == GuardIndexOffset(k)
           lines == {n \in Covered(k) : log[n].index = c + o}
           L == LineOf(k, c, o)
<1>1. offset[k] = o
  BY DEF CCInv, CompileInv, Compiled
<1>2. lines \in SUBSET Nat
  BY CostsFacts DEF CCInv, CompileInv, Covered
<1>3. L = IF o = 0 \/ lines = {} THEN 0 ELSE Min(lines)
  BY DEF LineOf
<1>4. L # 0
  BY <1>1
<1> HIDE DEF L
<1>5. L \in lines
  BY <1>2, <1>3, <1>4, MinFacts
<1>6. L \in Covered(k) /\ log[L].index = c + o
  BY <1>5
<1>7. SameLocation(<<k, log[L].index - o>>, log[L].guard) /\ o \in 1..(NumGuardsBefore(k) + 1)
  BY <1>6, FoundOffset DEF CCInv
<1>8. c \in Int /\ o \in Int
  <2>1. NumGuardsBefore(k) \in Nat
    BY RowFacts DEF CCInv
  <2> QED BY <1>7, <2>1 DEF Indices
<1> HIDE DEF o
<1>9. log[L].index - o = c
  BY <1>6, <1>8
<1> QED BY <1>1, <1>6, <1>7, <1>9 DEF L, o

\* The guess of computeTracePCGuardIndexOffset is never larger than the true offset,
\* and the cost of a call was counted at a call of the same function with the same
\* location: for every program, every number of jobs and every set of covered guards.
THEOREM CostsAlwaysFromSameLocation == CCSpec => []CostsFromSameLocation
<1>1. CCInv => CostsFromSameLocation
  <2> SUFFICES ASSUME CCInv, Unambiguous, NEW k \in Funs, Compiled(k), Covered(k) # {}
               PROVE  /\ offset[k] \in 1..(NumGuardsBefore(k) + 1)
                      /\ \A c \in Indices(k) : LineOf(k, c, offset[k]) # 0 =>
                           SameLocation(<<k, c>>, log[LineOf(k, c, offset[k])].guard)
    BY DEF CostsFromSameLocation
  <2>1. offset[k] = GuardIndexOffset(k)
    BY DEF CCInv, CompileInv, Compiled
  <2>2. offset[k] \in 1..(NumGuardsBefore(k) + 1)
    BY <2>1, FoundOffset DEF CCInv
  <2> QED BY <2>2, LineFacts
<1> QED BY <1>1, CCInvInit, CCInvNext, PTL DEF CCSpec

\* If the calls can be told apart, the line that a call gets is a line of that call,
\* and every call with a line gets one.
LEMMA ExactLine ==
  ASSUME CCInv, Distinguishable, stage = "compile", todo = {}, NEW g \in Guards
  PROVE  /\ LineOf(g[1], g[2], offset[g[1]]) # 0 =>
              /\ LineOf(g[1], g[2], offset[g[1]]) \in DOMAIN log
              /\ log[LineOf(g[1], g[2], offset[g[1]])].guard = g
         /\ (\E n \in DOMAIN log : log[n].guard = g) => LineOf(g[1], g[2], offset[g[1]]) # 0
<1> DEFINE k == g[1]
           L == LineOf(k, g[2], offset[k])
<1>1. k \in Funs /\ g[2] \in Indices(k) /\ g = <<k, g[2]>> /\ Compiled(k) /\ Unambiguous
  BY GuardFacts DEF CCInv, Compiled, Distinguishable
<1>2. program \in Programs /\ CompileInv /\ log \in Seq(LogLine)
  BY DEF CCInv, CompileInv
<1>3. ASSUME L # 0 PROVE L \in DOMAIN log /\ log[L].guard = g
  <2>1. L \in Covered(k) /\ SameLocation(<<k, g[2]>>, log[L].guard)
    BY <1>1, <1>3, LineFacts
  <2>2. L \in DOMAIN log /\ log[L].guard \in Guards
    BY <1>1, <1>2, <2>1, CoveredFacts
  <2> QED BY <1>1, <2>1, <2>2 DEF Distinguishable
<1>4. ASSUME NEW n \in DOMAIN log, log[n].guard = g PROVE L # 0
  <2> DEFINE o == offset[k]
             d == log[n].index - o
             lines == {m \in Covered(k) : log[m].index = g[2] + o}
  <2>1. n \in Covered(k) /\ log[n].index = NumGuardsBefore(k) + g[2] + 1
    BY <1>1, <1>2, <1>4, CoveredFacts
  <2>2. o = GuardIndexOffset(k)
    BY <1>1, <1>2 DEF CompileInv, Compiled
  <2>3. o \in 1..(NumGuardsBefore(k) + 1) /\ d \in Indices(k) /\ SameLocation(<<k, d>>, log[n].guard)
    BY <1>1, <1>2, <2>1, <2>2, FoundOffset
  <2>4. NumGuardsBefore(k) \in Nat /\ g[2] \in Nat
    BY <1>1, <1>2, RowFacts DEF Indices
  <2> HIDE DEF o, d
  <2>5. <<k, d>> \in Guards
    BY <1>1, <1>2, <2>3, GuardFacts
  <2>6. <<k, d>> = g
    BY <1>4, <2>3, <2>5 DEF Distinguishable
  <2>7. d = g[2]
    BY <1>1, <2>6
  <2>8. log[n].index = g[2] + o
    BY <2>1, <2>3, <2>4, <2>7 DEF d
  <2>9. n \in lines /\ lines \in SUBSET (Nat \ {0})
    BY <1>2, <2>1, <2>8, CostsFacts DEF Covered
  <2>10. L = IF o = 0 \/ lines = {} THEN 0 ELSE Min(lines)
    BY DEF LineOf, o
  <2>11. o # 0
    BY <2>3, <2>4
  <2>12. Min(lines) \in lines
    BY <2>9, MinFacts
  <2> HIDE DEF lines
  <2> QED BY <2>9, <2>10, <2>11, <2>12
<1> QED BY <1>3, <1>4

LEMMA RemovedFacts ==
  ASSUME CCInv, Distinguishable, stage = "compile", todo = {}
  PROVE  /\ \A g \in removed : TotalOf(g) >= threshold
         /\ Den * SumFunctionOnSet(Costs, DOMAIN Costs \ removed) >= costlevel * TotalCost(Costs)
         /\ IsInjective([n \in DOMAIN log |-> log[n].guard]) =>
              \A g \in Guards : TotalOf(g) >= threshold => g \in removed
<1> DEFINE Line(g) == LineOf(g[1], g[2], offset[g[1]])
<1>1. program \in Programs /\ log \in Seq(LogLine) /\ log # <<>> /\ costlevel \in CostLevels
  BY DEF CCInv, CompileInv
<1>2. /\ threshold \in Nat \ {0}
      /\ Den * KeptCost(Costs, threshold) >= costlevel * TotalCost(Costs)
  BY <1>1, FprecThresholdFacts DEF CCInv, CompileInv
<1>3. /\ IsCosts(Costs) /\ DOMAIN Costs = {log[n].guard : n \in DOMAIN log}
      /\ \A n \in DOMAIN log : log[n].cost \in Nat /\ log[n].cost <= Costs[log[n].guard]
  BY <1>1, CostsFacts
<1>4. removed = {g \in Guards : TooExpensive(CostOf(g[1], g[2], offset[g[1]]))}
  BY DEF CCInv, CompileInv
<1>5. \A g \in Guards : CostOf(g[1], g[2], offset[g[1]]) = IF Line(g) = 0 THEN 0 ELSE log[Line(g)].cost
  BY DEF CostOf
<1>6. \A g \in Guards : /\ Line(g) # 0 => Line(g) \in DOMAIN log /\ log[Line(g)].guard = g
                        /\ (\E n \in DOMAIN log : log[n].guard = g) => Line(g) # 0
  BY ExactLine
<1> HIDE DEF Line
<1>7. ASSUME NEW g \in removed PROVE g \in DOMAIN Costs /\ Costs[g] \in Nat /\ Costs[g] >= threshold
  <2>1. g \in Guards /\ CostOf(g[1], g[2], offset[g[1]]) >= threshold
    BY <1>4 DEF TooExpensive
  <2>2. Line(g) # 0
    BY <1>2, <1>5, <2>1
  <2>3. Line(g) \in DOMAIN log /\ log[Line(g)].guard = g
    BY <1>6, <2>1, <2>2
  <2>4. log[Line(g)].cost >= threshold /\ log[Line(g)].cost \in Nat /\ log[Line(g)].cost <= Costs[g]
    BY <1>3, <1>5, <2>1, <2>2, <2>3
  <2>5. g \in DOMAIN Costs
    BY <1>3, <2>3
  <2>6. Costs[g] \in Nat
    BY <1>3, <2>5, CostBelowTotal
  <2> QED BY <1>2, <2>4, <2>5, <2>6
<1>8. \A g \in removed : TotalOf(g) >= threshold
  BY <1>7 DEF TotalOf
<1>9. Den * SumFunctionOnSet(Costs, DOMAIN Costs \ removed) >= costlevel * TotalCost(Costs)
  <2> DEFINE rest == DOMAIN Costs \ removed
             kept == Kept(Costs, threshold)
  <2>1. kept \in SUBSET rest
    <3>1. \A g \in kept : g \in DOMAIN Costs /\ Costs[g] < threshold
      BY DEF Kept
    <3> QED BY <1>2, <1>7, <3>1
  <2>2. IsFiniteSet(DOMAIN Costs) /\ \A g \in DOMAIN Costs : Costs[g] \in Nat
    BY <1>3 DEF IsCosts
  <2>3. IsFiniteSet(rest) /\ \A g \in rest : Costs[g] \in Nat
    BY <2>2, FS_Subset
  <2> HIDE DEF rest, kept
  <2>4. SumFunctionOnSet(Costs, kept) <= SumFunctionOnSet(Costs, rest)
    BY <2>1, <2>3, SumMonotone
  <2>5. SumFunctionOnSet(Costs, kept) \in Nat /\ SumFunctionOnSet(Costs, rest) \in Nat
    <3>1. IsFiniteSet(kept) /\ \A g \in kept : Costs[g] \in Nat
      BY <2>1, <2>3, FS_Subset
    <3> QED BY <2>3, <3>1, SumType
  <2>6. /\ Den * SumFunctionOnSet(Costs, kept) <= Den * SumFunctionOnSet(Costs, rest)
        /\ Den * SumFunctionOnSet(Costs, kept) \in Nat /\ Den * SumFunctionOnSet(Costs, rest) \in Nat
    BY <2>4, <2>5, TimesMonotone, DenAssumption
  <2>7. costlevel * TotalCost(Costs) \in Nat
    <3>1. costlevel \in Nat
      BY <1>1, CoverageAssumption, DenAssumption
    <3>2. TotalCost(Costs) \in Nat
      BY <1>3, KeptFacts
    <3> QED BY <3>1, <3>2, TimesMonotone
  <2>8. Den * SumFunctionOnSet(Costs, kept) >= costlevel * TotalCost(Costs)
    BY <1>2 DEF KeptCost, kept
  <2>9. Den * SumFunctionOnSet(Costs, rest) >= costlevel * TotalCost(Costs)
    BY <2>6, <2>7, <2>8
  <2> QED BY <2>9 DEF rest
<1>10. ASSUME IsInjective([n \in DOMAIN log |-> log[n].guard]), NEW g \in Guards, TotalOf(g) >= threshold
       PROVE  g \in removed
  <2>1. g \in DOMAIN Costs /\ Costs[g] >= threshold
    BY <1>2, <1>10 DEF TotalOf
  <2>2. \A m, n \in DOMAIN log : log[m].guard = log[n].guard => m = n
    BY <1>10 DEF IsInjective
  <2>3. PICK n \in DOMAIN log : log[n].guard = g
    BY <1>3, <2>1
  <2>4. Costs[g] = log[n].cost
    BY <1>1, <2>2, <2>3, OneLine
  <2>5. Line(g) # 0 /\ Line(g) = n
    BY <1>6, <2>2, <2>3
  <2> QED BY <1>4, <1>5, <2>1, <2>4, <2>5 DEF TooExpensive
<1> QED BY <1>8, <1>9, <1>10

\* A check is only removed if all jobs together paid the threshold for it, so the
\* requested fraction of the cost is preserved although the pass reads the line of
\* one job only; and if no check has two lines, all expensive checks are removed.
THEOREM RemovedAlwaysExpensive == CCSpec => []RemovedAreExpensive
<1>1. CCInv => RemovedAreExpensive
  BY RemovedFacts DEF RemovedAreExpensive
<1> QED BY <1>1, CCInvInit, CCInvNext, PTL DEF CCSpec

=============================================================================
