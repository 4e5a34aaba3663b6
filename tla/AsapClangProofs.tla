---------------------------- MODULE AsapClangProofs ----------------------------
(***************************************************************************)
(* Stale profiles cannot be mixed with new ones, a threshold is never      *)
(* computed from incomplete costs, and the optimized program keeps the     *)
(* level asked for, for any number of objects and of edits.                *)
(***************************************************************************)
EXTENDS AsapClang, ThresholdsProofs

\* The types of the files that a profile depends on.
FileTypes ==
  /\ gcda \in [Objects -> [of : SUBSET Versions, hits : Nat]]
  /\ orig \in [Objects -> Versions \cup {NoFile}]
  /\ source \in [Objects -> Versions]
  /\ todo \subseteq Objects
  /\ DOMAIN target \subseteq Objects /\ DOMAIN program \subseteq Objects

\* make clean removes the executable before anything is compiled, and an object is
\* compiled once.
CleanFirst ==
  /\ making => program = None
  /\ ~ making => todo = {}
  /\ todo \cap DOMAIN target = {}

\* Code instrumented for coverage comes from the bitcode that is there now, or there
\* is none any more.
FromPresentBitcode(t) ==
  \A o \in DOMAIN t : t[o].by = "gcov" /\ orig[o] # NoFile => t[o].of = orig[o]

ProfileInv ==
  /\ FileTypes
  /\ CleanFirst
  /\ FromPresentBitcode(target)
  /\ FromPresentBitcode(program)
  /\ ProfileMatchesBitcode
  /\ \A o \in DOMAIN target : target[o].of \in Versions
  /\ \A o \in DOMAIN program : program[o].of \in Versions

\* No file is yet there.
LEMMA ProfileInvInit == ACInit => ProfileInv
BY AsapClangAssumption DEF ACInit, ProfileInv, FileTypes, CleanFirst, FromPresentBitcode, ProfileMatchesBitcode,
   None, NoFile, NoProfile, Versions

\* The variables that the invariant is about.
buildVars == <<gcda, orig, source, todo, target, program, making>>

\* Commands that only change the stage, the costs or the threshold.
LEMMA ProfileInvFrame ==
  ASSUME ProfileInv, UNCHANGED buildVars
  PROVE  ProfileInv'
BY DEF ProfileInv, FileTypes, CleanFirst, FromPresentBitcode, ProfileMatchesBitcode, buildVars

\* A compiler that leaves the state directory alone keeps the invariant if what it
\* writes is instrumented only when it comes from the present bitcode.
LEMMA ProfileInvCompiled ==
  ASSUME ProfileInv, NEW o \in todo, NEW t, making, Compiled(o, t),
         UNCHANGED <<gcda, orig, source, program>>,
         t.of \in Versions, t.by = "gcov" /\ orig[o] # NoFile => t.of = orig[o]
  PROVE  ProfileInv'
BY DEF ProfileInv, FileTypes, CleanFirst, FromPresentBitcode, ProfileMatchesBitcode, Compiled

\* Every step keeps profiles and bitcode together.
LEMMA ProfileInvNext == ProfileInv /\ [ACNext]_acVars => ProfileInv'
<1> SUFFICES ASSUME ProfileInv, [ACNext]_acVars PROVE ProfileInv'
  OBVIOUS
<1>1. CASE AsapInit
  BY <1>1 DEF AsapInit, ProfileInv, FileTypes, CleanFirst, FromPresentBitcode, ProfileMatchesBitcode,
     NoProfile, NoFile
<1>2. CASE AsapCustom \/ AsapCoverage \/ AsapOptimize
  BY <1>2, ProfileInvFrame DEF AsapCustom, AsapCoverage, AsapOptimize, Transition, buildVars
<1>3. CASE ComputeCosts \/ CostsComputed
  BY <1>3, ProfileInvFrame DEF ComputeCosts, CostsComputed, buildVars
<1>4. ASSUME NEW o \in Objects, WriteCosts(o) PROVE ProfileInv'
  BY <1>4, ProfileInvFrame DEF WriteCosts, buildVars
<1>5. ASSUME NEW S \in SUBSET Objects, WriteCostsFails(S) PROVE ProfileInv'
  BY <1>5, ProfileInvFrame DEF WriteCostsFails, buildVars
<1>6. ASSUME NEW ml \in Levels, ComputeThreshold(ml[1], ml[2]) PROVE ProfileInv'
  BY <1>6, ProfileInvFrame DEF ComputeThreshold, buildVars
<1>7. CASE StartMake
  BY <1>7 DEF StartMake, stateDir, None, ProfileInv, FileTypes, CleanFirst, FromPresentBitcode,
     ProfileMatchesBitcode
<1>8. CASE MakeFails
  BY <1>8 DEF MakeFails, stateDir, ProfileInv, FileTypes, CleanFirst, FromPresentBitcode,
     ProfileMatchesBitcode
<1>9. CASE Link
  BY <1>9 DEF Link, stateDir, ProfileInv, FileTypes, CleanFirst, FromPresentBitcode,
     ProfileMatchesBitcode
<1>10. ASSUME NEW o \in Objects, NEW r \in InitialResults, InitialCompile(o, r) PROVE ProfileInv'
  <2> USE <1>10
  <2>1. /\ o \in todo /\ making /\ program = None /\ o \notin DOMAIN target
        /\ UNCHANGED <<source, program>>
    BY DEF InitialCompile, ProfileInv, CleanFirst
  <2>2. /\ gcda' = IF r.removed >= 2 THEN [gcda EXCEPT ![o] = NoProfile] ELSE gcda
        /\ orig' = [orig EXCEPT ![o] = IF r.bitcode THEN source[o]
                                      ELSE IF r.removed = 3 THEN NoFile ELSE @]
    BY DEF InitialCompile, ProfileAfterInitial
  <2>3. \A p \in Objects \ {o} : gcda'[p] = gcda[p] /\ orig'[p] = orig[p]
    BY <2>2 DEF ProfileInv, FileTypes
  <2>4. gcda'[o] # NoProfile => gcda'[o] = gcda[o] /\ orig'[o] = orig[o]
    <3>1. CASE r.removed >= 2
      BY <3>1, <2>2 DEF ProfileInv, FileTypes
    <3>2. CASE ~ r.removed >= 2
      <4>1. ~ r.bitcode /\ r.removed # 3
        BY <3>2 DEF InitialResults
      <4> QED BY <3>2, <4>1, <2>2 DEF ProfileInv, FileTypes
    <3> QED BY <3>1, <3>2
  <2>5. /\ r.by \in {"initial", "plain", "none"}
        /\ r.by = "initial" => orig'[o] = source[o]
    BY <2>2 DEF InitialResults, ProfileInv, FileTypes
  <2>6. \/ \E t : Compiled(o, t) /\ t.by # "gcov" /\ t.of \in Versions
        \/ todo' = {} /\ making' = FALSE /\ UNCHANGED target
    <3>1. CASE r.by = "initial"
      <4>1. Compiled(o, FromOrig(o, "initial")')
        BY <3>1 DEF InitialCompile
      <4> QED BY <4>1, <3>1, <2>5 DEF FromOrig, ProfileInv, FileTypes
    <3>2. CASE r.by = "plain"
      BY <3>2 DEF InitialCompile, PlainObject, ProfileInv, FileTypes
    <3>3. CASE r.by = "none"
      BY <3>3 DEF InitialCompile
    <3> QED BY <3>1, <3>2, <3>3, <2>5
  <2>7. FileTypes'
    <3>1. /\ gcda' \in [Objects -> [of : SUBSET Versions, hits : Nat]]
          /\ orig' \in [Objects -> Versions \cup {NoFile}]
      BY <2>2 DEF ProfileInv, FileTypes, NoProfile
    <3> QED BY <3>1, <2>1, <2>6 DEF ProfileInv, FileTypes, Compiled
  <2>8. CleanFirst'
    BY <2>1, <2>6 DEF ProfileInv, CleanFirst, Compiled
  <2>9. FromPresentBitcode(target)' /\ (\A p \in DOMAIN target : target[p].of \in Versions)'
    <3>1. ASSUME NEW t, Compiled(o, t), t.by # "gcov", t.of \in Versions,
                 NEW p \in DOMAIN target'
          PROVE  /\ target'[p].by = "gcov" /\ orig'[p] # NoFile => target'[p].of = orig'[p]
                 /\ target'[p].of \in Versions
      <4>1. p = o \/ p \in DOMAIN target \ {o}
        BY <3>1 DEF Compiled
      <4>2. CASE p = o
        BY <3>1, <4>2 DEF Compiled
      <4>3. CASE p \in DOMAIN target \ {o}
        <5>1. target'[p] = target[p] /\ orig'[p] = orig[p]
          BY <3>1, <4>3, <2>3 DEF Compiled, ProfileInv, FileTypes
        <5> QED BY <4>3, <5>1 DEF ProfileInv, FromPresentBitcode
      <4> QED BY <4>1, <4>2, <4>3
    <3>2. CASE UNCHANGED target
      <4>1. \A p \in DOMAIN target : orig'[p] = orig[p]
        BY <2>1, <2>3 DEF ProfileInv, FileTypes
      <4> QED BY <3>2, <4>1 DEF ProfileInv, FromPresentBitcode
    <3> QED BY <3>1, <3>2, <2>6 DEF FromPresentBitcode
  <2>10. FromPresentBitcode(program)' /\ (\A p \in DOMAIN program : program[p].of \in Versions)'
    BY <2>1 DEF FromPresentBitcode, None
  <2>11. ProfileMatchesBitcode'
    BY <2>3, <2>4 DEF ProfileInv, ProfileMatchesBitcode
  <2> QED BY <2>7, <2>8, <2>9, <2>10, <2>11 DEF ProfileInv
<1>11. ASSUME NEW o \in Objects, NEW stage, NEW by, CompileFromOrig(o, stage, by) PROVE ProfileInv'
  <2> DEFINE t == IF HasOrig(o) THEN FromOrig(o, by) ELSE PlainObject(o)
  <2>1. /\ o \in todo /\ making /\ Compiled(o, t)
        /\ UNCHANGED <<gcda, orig, source, program>>
    BY <1>11 DEF CompileFromOrig, stateDir
  <2>2. t.of \in Versions /\ (orig[o] # NoFile => t.of = orig[o])
    BY DEF HasOrig, FromOrig, PlainObject, ProfileInv, FileTypes
  <2> QED BY <2>1, <2>2, ProfileInvCompiled
<1>12. ASSUME NEW o \in Objects, OptimizingCompile(o) PROVE ProfileInv'
  <2> DEFINE t == IF Optimizable(o) THEN Optimized(o) ELSE PlainObject(o)
  <2>1. /\ o \in todo /\ making /\ Compiled(o, t)
        /\ UNCHANGED <<gcda, orig, source, program>>
    BY <1>12 DEF OptimizingCompile, stateDir
  <2>2. t.of \in Versions /\ t.by # "gcov"
    BY DEF Optimizable, HasOrig, Optimized, PlainObject, ProfileInv, FileTypes
  <2> QED BY <2>1, <2>2, ProfileInvCompiled
<1>13. ASSUME NEW o \in Objects, Edit(o) PROVE ProfileInv'
  <2>1. source' \in [Objects -> Versions]
    BY <1>13, AsapClangAssumption DEF Edit, ProfileInv, FileTypes, Versions
  <2> QED BY <1>13, <2>1 DEF Edit, stateDir, ProfileInv, FileTypes, CleanFirst, FromPresentBitcode,
       ProfileMatchesBitcode
<1>14. ASSUME NEW h \in [Objects -> 0..MaxHits], RunProgram(h) PROVE ProfileInv'
  <2> USE <1>14
  <2>1. UNCHANGED <<orig, source, todo, target, program, making>>
    BY DEF RunProgram
  <2>2. ASSUME NEW o \in Objects
        PROVE  /\ o \in Profiled =>
                    gcda'[o] = [of |-> gcda[o].of \cup {program[o].of}, hits |-> gcda[o].hits + h[o]]
               /\ o \notin Profiled => gcda'[o] = gcda[o]
    BY DEF RunProgram
  <2>3. gcda' \in [Objects -> [of : SUBSET Versions, hits : Nat]]
    <3>1. ASSUME NEW o \in Objects PROVE gcda'[o] \in [of : SUBSET Versions, hits : Nat]
      <4>1. CASE o \in Profiled
        <5>1. gcda[o].of \cup {program[o].of} \in SUBSET Versions
          BY <4>1 DEF Profiled, ProfileInv, FileTypes
        <5>2. gcda[o].hits + h[o] \in Nat
          BY AsapClangAssumption DEF ProfileInv, FileTypes
        <5>3. gcda'[o] = [of |-> gcda[o].of \cup {program[o].of}, hits |-> gcda[o].hits + h[o]]
          BY <4>1, <2>2
        <5> QED BY <5>1, <5>2, <5>3
      <4> QED BY <4>1, <2>2 DEF ProfileInv, FileTypes
    <3> QED BY <3>1 DEF RunProgram
  <2>4. ASSUME NEW o \in Objects, gcda'[o] # NoProfile, orig[o] # NoFile
        PROVE  gcda'[o].of = {orig[o]}
    <3>1. CASE o \in Profiled
      <4>1. program[o].of = orig[o]
        BY <3>1, <2>4 DEF Profiled, ProfileInv, FromPresentBitcode
      <4>2. gcda[o].of \subseteq {orig[o]}
        BY <2>4 DEF ProfileInv, ProfileMatchesBitcode, NoProfile
      <4>3. gcda'[o] = [of |-> gcda[o].of \cup {program[o].of}, hits |-> gcda[o].hits + h[o]]
        BY <3>1, <2>2
      <4> QED BY <4>1, <4>2, <4>3
    <3> QED BY <3>1, <2>2, <2>4 DEF ProfileInv, ProfileMatchesBitcode
  <2> QED BY <2>1, <2>3, <2>4 DEF ProfileInv, FileTypes, CleanFirst, FromPresentBitcode,
       ProfileMatchesBitcode
<1>15. CASE UNCHANGED acVars
  BY <1>15, ProfileInvFrame DEF acVars, stateDir, buildVars
<1> QED
  BY <1>1, <1>2, <1>3, <1>4, <1>5, <1>6, <1>7, <1>8, <1>9, <1>10, <1>11, <1>12, <1>13, <1>14, <1>15
  DEF ACNext

\* ProfileMatchesBitcode holds of asap-clang for any number of object files, edits
\* and runs: removing the old .gcda file in the first stage is enough.
THEOREM ProfilesMatch == ACSpec => []ProfileMatchesBitcode
<1>1. ProfileInv => ProfileMatchesBitcode
  BY DEF ProfileInv
<1> QED BY <1>1, ProfileInvInit, ProfileInvNext, PTL DEF ACSpec

-----------------------------------------------------------------------------
\* Cost files appear in the stage for coverage, and are kept with its counters: a
\* file that is cut short belongs to an object with counters, so that the next
\* attempt writes it again.
CostFiles ==
  /\ costs \in [Objects -> Int]
  /\ current_state \in {"none", "initial", "custom"} => \A o \in Objects : costs[o] = NoFile
  /\ current_state = "coverage" => \A o \in Objects : costs[o] = Partial => gcda[o] # NoProfile

\* What a running compute_costs has done already.
CostsSoFar ==
  computing =>
    /\ current_state = "coverage"
    /\ \A o \in pending : o \in Objects /\ gcda[o] # NoProfile
    /\ \A o \in Objects \ pending :
         /\ costs[o] # Partial
         /\ ~ ranSince /\ gcda[o] # NoProfile => costs[o] = gcda[o].hits

CostsInv ==
  /\ FileTypes
  /\ CostFiles
  /\ CostsSoFar
  /\ CostsWhole

LEMMA CostsInvInit == ACInit => CostsInv
BY ProfileInvInit DEF ACInit, CostsInv, ProfileInv, CostFiles, CostsSoFar, CostsWhole, NoFile, Partial

\* Compilers that leave the state directory alone, make, and the editor.
LEMMA CostsInvFrame ==
  ASSUME CostsInv, FileTypes', UNCHANGED <<current_state, gcda, costs, pending, computing, ranSince>>
  PROVE  CostsInv'
BY DEF CostsInv, CostFiles, CostsSoFar, CostsWhole

\* Every step keeps costs and counters together, or records that the program ran.
LEMMA CostsInvNext == CostsInv /\ FileTypes' /\ [ACNext]_acVars => CostsInv'
<1> SUFFICES ASSUME CostsInv, FileTypes', [ACNext]_acVars PROVE CostsInv'
  OBVIOUS
<1>1. CASE AsapInit
  BY <1>1 DEF AsapInit, CostsInv, CostFiles, CostsSoFar, CostsWhole, NoFile, Partial
<1>2. CASE AsapCustom \/ AsapCoverage \/ AsapOptimize
  BY <1>2 DEF AsapCustom, AsapCoverage, AsapOptimize, Transition, CostsInv, CostFiles, CostsSoFar,
     CostsWhole, NoFile, Partial
<1>3. CASE ComputeCosts
  BY <1>3 DEF ComputeCosts, StageWhileComputing, GcdaFiles, CostsInv, CostFiles, CostsSoFar, CostsWhole
<1>4. CASE CostsComputed
  BY <1>4 DEF CostsComputed, CostsInv, CostFiles, CostsSoFar, CostsWhole
<1>5. ASSUME NEW o \in Objects, WriteCosts(o) PROVE CostsInv'
  <2>1. /\ costs' = [costs EXCEPT ![o] = gcda[o].hits] /\ gcda[o].hits \in Nat
        /\ gcda[o].hits # Partial /\ computing
        /\ UNCHANGED <<current_state, gcda, computing, ranSince>> /\ pending' = pending \ {o}
    BY <1>5 DEF WriteCosts, CostsInv, FileTypes, Partial
  <2>2. costs' \in [Objects -> Int] /\ current_state = "coverage"
    BY <2>1 DEF CostsInv, CostFiles, CostsSoFar
  <2> QED BY <2>1, <2>2 DEF CostsInv, CostFiles, CostsSoFar, CostsWhole
<1>6. ASSUME NEW S \in SUBSET Objects, WriteCostsFails(S) PROVE CostsInv'
  <2>1. /\ S \subseteq pending /\ computing /\ ~ computing'
        /\ costs' = [o \in Objects |-> IF o \in S THEN Partial ELSE costs[o]]
        /\ UNCHANGED <<current_state, gcda, ranSince>>
    BY <1>6 DEF WriteCostsFails
  <2>2. costs' \in [Objects -> Int] /\ current_state = "coverage"
    BY <2>1 DEF CostsInv, CostFiles, CostsSoFar, Partial
  <2>3. \A o \in S : gcda[o] # NoProfile
    BY <2>1 DEF CostsInv, CostsSoFar
  <2> QED BY <2>1, <2>2, <2>3 DEF CostsInv, CostFiles, CostsSoFar, CostsWhole
<1>7. ASSUME NEW ml \in Levels, ComputeThreshold(ml[1], ml[2]) PROVE CostsInv'
  BY <1>7 DEF ComputeThreshold, CostsInv, CostFiles, CostsSoFar, CostsWhole
<1>8. CASE StartMake \/ MakeFails \/ Link
  BY <1>8, CostsInvFrame DEF StartMake, MakeFails, Link, stateDir
<1>9. ASSUME NEW o \in Objects, NEW r \in InitialResults, InitialCompile(o, r) PROVE CostsInv'
  BY <1>9 DEF InitialCompile, CostsInv, CostFiles, CostsSoFar, CostsWhole, NoFile, Partial
<1>10. ASSUME NEW o \in Objects, NEW stage, NEW by, CompileFromOrig(o, stage, by) PROVE CostsInv'
  BY <1>10, CostsInvFrame DEF CompileFromOrig, stateDir
<1>11. ASSUME NEW o \in Objects, OptimizingCompile(o) \/ Edit(o) PROVE CostsInv'
  BY <1>11, CostsInvFrame DEF OptimizingCompile, Edit, stateDir
<1>12. ASSUME NEW h \in [Objects -> 0..MaxHits], RunProgram(h) PROVE CostsInv'
  <2>1. /\ ranSince' /\ UNCHANGED <<current_state, costs, pending, computing>>
        /\ gcda' = [o \in Objects |->
             IF o \in Profiled
             THEN [of |-> gcda[o].of \cup {program[o].of}, hits |-> gcda[o].hits + h[o]]
             ELSE gcda[o]]
    BY <1>12 DEF RunProgram
  <2>2. \A o \in Objects : gcda[o] # NoProfile => gcda'[o] # NoProfile
    BY <2>1 DEF NoProfile
  <2> QED BY <2>1, <2>2 DEF CostsInv, CostFiles, CostsSoFar, CostsWhole
<1>13. CASE UNCHANGED acVars
  BY <1>13, CostsInvFrame DEF acVars, stateDir
<1> QED
  BY <1>1, <1>2, <1>3, <1>4, <1>5, <1>6, <1>7, <1>8, <1>9, <1>10, <1>11, <1>12, <1>13 DEF ACNext

\* CostsWhole holds of asap-clang for any number of object files: a command that
\* fails half-way does not store its stage, and what it leaves is written again.
THEOREM CostsAlwaysWhole == ACSpec => []CostsWhole
<1>1. CostsInv => CostsWhole
  BY DEF CostsInv
<1>2. ProfileInv => FileTypes
  BY DEF ProfileInv
<1> QED BY <1>1, <1>2, CostsInvInit, CostsInvNext, ProfileInvInit, ProfileInvNext, PTL DEF ACSpec

-----------------------------------------------------------------------------
\* What has been compiled in this make, and what is left.
BuildSoFar ==
  /\ target \in [DOMAIN target -> Targets]
  /\ making => DOMAIN target \cup todo = Objects
  /\ program \in {None, target}

TypeInv == ACTypeOK /\ BuildSoFar

\* The costs that compute_cost_threshold reads are numbers, one for each of finitely
\* many objects.
LEMMA CostsReadFacts ==
  ASSUME ACTypeOK
  PROVE  /\ DOMAIN CostsRead = {o \in Objects : costs[o] >= 0}
         /\ \A o \in DOMAIN CostsRead : CostsRead[o] = costs[o] /\ CostsRead[o] \in 0..MaxHits
         /\ IsCosts(CostsRead)
<1>1. DOMAIN CostsRead = {o \in Objects : costs[o] >= 0}
  BY DEF CostsRead
<1>2. ASSUME NEW o \in DOMAIN CostsRead PROVE CostsRead[o] = costs[o] /\ CostsRead[o] \in 0..MaxHits
  <2>1. o \in Objects /\ costs[o] >= 0 /\ CostsRead[o] = costs[o]
    BY <1>1 DEF CostsRead
  <2>2. costs[o] \in (0..MaxHits) \cup {NoFile, Partial}
    BY <2>1 DEF ACTypeOK
  <2> QED BY <2>1, <2>2 DEF NoFile, Partial
<1>3. IsFiniteSet(DOMAIN CostsRead)
  BY <1>1, FS_Subset, AsapClangAssumption
<1>4. \A o \in DOMAIN CostsRead : CostsRead[o] \in Nat
  BY <1>2, AsapClangAssumption
<1> QED BY <1>1, <1>2, <1>3, <1>4 DEF IsCosts

\* The threshold that is computed is one, and it is at most one more than a cost.
LEMMA ComputedThreshold ==
  ASSUME ACTypeOK, NEW ml \in Levels, ComputeThreshold(ml[1], ml[2])
  PROVE  /\ threshold' \in 0..(MaxHits + 1)
         /\ asked' \in Levels /\ asked' = ml
         /\ Honours(ml[1], CostsRead, ml[2], threshold')
         /\ \E o \in Objects : costs[o] > 0
<1>1. /\ ml = <<ml[1], ml[2]>> /\ ml[2] \in 0..Den
  BY AsapClangAssumption
<1>2. /\ TotalCost(CostsRead) > 0 /\ asked' = <<ml[1], ml[2]>>
      /\ threshold' = ThresholdFor(ml[1], CostsRead, ml[2])
  BY DEF ComputeThreshold
<1>3. PICK o \in DOMAIN CostsRead : CostsRead[o] > 0
  BY <1>2, CostsReadFacts, TotalPositive
<1>4. o \in Objects /\ costs[o] > 0
  BY <1>3, CostsReadFacts
<1> DEFINE t == ThresholdFor(ml[1], CostsRead, ml[2])
<1>5. /\ IsThreshold(ml[1], CostsRead, ml[2], t)
      /\ t \in Range(CostsRead) \/ \E v \in Range(CostsRead) : t = v + 1
  BY <1>1, <1>3, CostsReadFacts, ThresholdForFacts
<1> HIDE DEF t
<1>6. \A v \in Range(CostsRead) : v \in 0..MaxHits
  BY CostsReadFacts DEF Range
<1>7. t \in 0..(MaxHits + 1)
  BY <1>5, <1>6, AsapClangAssumption
<1>8. Honours(ml[1], CostsRead, ml[2], t)
  BY <1>5 DEF IsThreshold
<1> QED BY <1>1, <1>2, <1>4, <1>7, <1>8 DEF t

LEMMA TypeInvInit == ACInit => TypeInv
<1> SUFFICES ASSUME ACInit PROVE TypeInv
  OBVIOUS
<1>1. 0 \in Versions
  BY AsapClangAssumption DEF Versions
<1>2. NoProfile \in Profiles
  BY AsapClangAssumption DEF NoProfile, Profiles
<1>3. None \in [{} -> Targets] /\ DOMAIN None = {}
  BY DEF None
<1> QED BY <1>1, <1>2, <1>3 DEF ACInit, TypeInv, ACTypeOK, BuildSoFar

\* A compiler adds an object that make was asked for.
LEMMA CompiledTypes ==
  ASSUME TypeInv, NEW o \in Objects, o \in todo, NEW t \in Targets, Compiled(o, t)
  PROVE  /\ DOMAIN target' = DOMAIN target \cup {o} /\ target'[o] = t
         /\ \A p \in DOMAIN target : p # o => target'[p] = target[p]
         /\ DOMAIN target' \subseteq Objects /\ \A p \in DOMAIN target' : target'[p] \in Targets
         /\ target' \in [DOMAIN target' -> Targets]
         /\ todo' \in SUBSET Objects /\ making' = making /\ todo' = todo \ {o}
         /\ making' => DOMAIN target' \cup todo' = Objects
BY DEF TypeInv, ACTypeOK, BuildSoFar, Compiled

\* One object is compiled, and the state directory is left alone.
LEMMA TypeInvCompiled ==
  ASSUME TypeInv, CleanFirst, making, NEW o \in Objects, o \in todo, NEW t \in Targets, Compiled(o, t),
         UNCHANGED <<source, stateDir, pending, computing, program, ranSince>>
  PROVE  TypeInv'
<1>1. program = None /\ program' = None
  BY DEF CleanFirst
<1>2. ACTypeOK'
  <2>1. /\ DOMAIN target' \subseteq Objects /\ \A p \in DOMAIN target' : target'[p] \in Targets
        /\ todo' \in SUBSET Objects /\ making' = making
    BY CompiledTypes
  <2>2. ACTypeOK
    BY DEF TypeInv
  <2> QED BY <1>1, <2>1, <2>2 DEF ACTypeOK, stateDir
<1>3. BuildSoFar'
  BY <1>1, CompiledTypes DEF BuildSoFar
<1> QED BY <1>2, <1>3 DEF TypeInv

LEMMA TypeInvNext == TypeInv /\ ProfileInv /\ [ACNext]_acVars => TypeInv'
<1> SUFFICES ASSUME TypeInv, ProfileInv, [ACNext]_acVars PROVE TypeInv'
  OBVIOUS
<1> USE DEF TypeInv
<1>a. CleanFirst
  BY DEF ProfileInv
<1>1. CASE AsapInit
  <2>1. NoProfile \in Profiles
    BY AsapClangAssumption DEF NoProfile, Profiles
  <2> QED BY <1>1, <2>1 DEF AsapInit, ACTypeOK, BuildSoFar, Stages
<1>2. CASE AsapCustom \/ AsapCoverage \/ AsapOptimize
  BY <1>2 DEF AsapCustom, AsapCoverage, AsapOptimize, Transition, ACTypeOK, BuildSoFar, Stages
<1>3. CASE ComputeCosts
  BY <1>3 DEF ComputeCosts, StageWhileComputing, GcdaFiles, ACTypeOK, BuildSoFar
<1>4. CASE CostsComputed
  BY <1>4 DEF CostsComputed, ACTypeOK, BuildSoFar, Stages
<1>5. ASSUME NEW o \in Objects, WriteCosts(o) PROVE TypeInv'
  <2>1. gcda[o].hits \in 0..MaxHits
    BY DEF ACTypeOK, Profiles
  <2>2. costs' \in [Objects -> (0..MaxHits) \cup {NoFile, Partial}]
    BY <1>5, <2>1 DEF WriteCosts, ACTypeOK
  <2> QED BY <1>5, <2>2 DEF WriteCosts, ACTypeOK, BuildSoFar
<1>6. ASSUME NEW S \in SUBSET Objects, WriteCostsFails(S) PROVE TypeInv'
  <2>1. costs' \in [Objects -> (0..MaxHits) \cup {NoFile, Partial}]
    BY <1>6 DEF WriteCostsFails, ACTypeOK
  <2> QED BY <1>6, <2>1 DEF WriteCostsFails, ACTypeOK, BuildSoFar
<1>7. ASSUME NEW ml \in Levels, ComputeThreshold(ml[1], ml[2]) PROVE TypeInv'
  <2>1. threshold' \in 0..(MaxHits + 1) /\ asked' \in Levels
    BY <1>7, ComputedThreshold
  <2>2. /\ current_state' = "threshold"
        /\ UNCHANGED <<source, hasCoverage, gcno, orig, gcda, costs, pending, computing, target,
                       program, todo, making, ranSince>>
    BY <1>7 DEF ComputeThreshold
  <2> QED BY <2>1, <2>2 DEF ACTypeOK, BuildSoFar, Stages
<1>8. CASE StartMake
  <2>1. None \in [{} -> Targets] /\ DOMAIN None = {}
    BY DEF None
  <2> QED BY <1>8, <2>1 DEF StartMake, stateDir, ACTypeOK, BuildSoFar
<1>9. CASE MakeFails
  BY <1>9 DEF MakeFails, stateDir, ACTypeOK, BuildSoFar
<1>10. CASE Link
  <2>1. target \in [Objects -> Targets]
    BY <1>10 DEF Link, BuildSoFar, ACTypeOK
  <2> QED BY <1>10, <2>1 DEF Link, stateDir, ACTypeOK, BuildSoFar
<1>11. ASSUME NEW o \in Objects, NEW r \in InitialResults, InitialCompile(o, r) PROVE TypeInv'
  <2> USE <1>11
  <2>1. /\ o \in todo /\ making /\ program = None /\ current_state = "initial"
        /\ UNCHANGED <<source, current_state, costs, threshold, asked, pending, computing, program,
                       ranSince>>
        /\ hasCoverage' = TRUE
    BY <1>a DEF InitialCompile, CleanFirst
  <2>2. r.by \in {"initial", "plain", "none"} /\ (r.by = "initial" => r.bitcode)
    BY DEF InitialResults
  <2>3. source[o] \in Versions /\ NoProfile \in Profiles
    BY AsapClangAssumption DEF ACTypeOK, NoProfile, Profiles
  <2>4. /\ gcno' \in [Objects -> Versions \cup {NoFile}]
        /\ orig' \in [Objects -> Versions \cup {NoFile}] /\ (r.bitcode => orig'[o] = source[o])
        /\ gcda' \in [Objects -> Profiles]
    BY <2>3 DEF InitialCompile, ProfileAfterInitial, ACTypeOK
  <2>5. \/ \E t \in Targets : Compiled(o, t)
        \/ todo' = {} /\ making' = FALSE /\ UNCHANGED target
    <3>1. CASE r.by = "initial"
      <4>1. Compiled(o, FromOrig(o, "initial")')
        BY <3>1 DEF InitialCompile
      <4>2. FromOrig(o, "initial")' \in Targets
        BY <3>1, <2>2, <2>3, <2>4 DEF FromOrig, Targets
      <4> QED BY <4>1, <4>2
    <3>2. CASE r.by = "plain"
      <4>1. Compiled(o, PlainObject(o))
        BY <3>2 DEF InitialCompile
      <4>2. PlainObject(o) \in Targets
        BY <2>3 DEF PlainObject, Targets
      <4> QED BY <4>1, <4>2
    <3>3. CASE r.by = "none"
      BY <3>3 DEF InitialCompile
    <3> QED BY <3>1, <3>2, <3>3, <2>2
  <2>6. /\ DOMAIN target' \subseteq Objects /\ \A p \in DOMAIN target' : target'[p] \in Targets
        /\ target' \in [DOMAIN target' -> Targets]
        /\ todo' \in SUBSET Objects /\ making' \in BOOLEAN
        /\ making' => DOMAIN target' \cup todo' = Objects
    <3>1. CASE \E t \in Targets : Compiled(o, t)
      <4>1. making \in BOOLEAN
        BY DEF ACTypeOK
      <4> QED BY <2>1, <3>1, <4>1, CompiledTypes
    <3>2. CASE todo' = {} /\ making' = FALSE /\ UNCHANGED target
      BY <3>2 DEF ACTypeOK, BuildSoFar
    <3> QED BY <2>5, <3>1, <3>2
  <2>7. ACTypeOK'
    BY <2>1, <2>4, <2>6 DEF ACTypeOK
  <2>8. BuildSoFar'
    BY <2>1, <2>6 DEF BuildSoFar
  <2> QED BY <2>7, <2>8
<1>12. ASSUME NEW o \in Objects, NEW stage, NEW by \in {"custom", "gcov"}, CompileFromOrig(o, stage, by)
       PROVE  TypeInv'
  <2> DEFINE t == IF HasOrig(o) THEN FromOrig(o, by) ELSE PlainObject(o)
  <2>1. /\ o \in todo /\ making /\ Compiled(o, t)
        /\ UNCHANGED <<source, stateDir, pending, computing, program, ranSince>>
    BY <1>12 DEF CompileFromOrig
  <2>2. t \in Targets
    BY DEF HasOrig, FromOrig, PlainObject, ACTypeOK, Targets
  <2> QED BY <1>a, <2>1, <2>2, TypeInvCompiled
<1>13. ASSUME NEW o \in Objects, OptimizingCompile(o) PROVE TypeInv'
  <2> DEFINE t == IF Optimizable(o) THEN Optimized(o) ELSE PlainObject(o)
  <2>1. /\ o \in todo /\ making /\ Compiled(o, t)
        /\ UNCHANGED <<source, stateDir, pending, computing, program, ranSince>>
    BY <1>13 DEF OptimizingCompile
  <2>2. t \in Targets
    <3>1. (gcda[o].hits >= threshold) \in BOOLEAN
      OBVIOUS
    <3>2. CASE Optimizable(o)
      <4>1. orig[o] \in Versions
        BY <3>2 DEF Optimizable, HasOrig, ACTypeOK
      <4> QED BY <3>1, <3>2, <4>1 DEF Optimized, Targets
    <3>3. CASE ~ Optimizable(o)
      BY <3>3 DEF PlainObject, ACTypeOK, Targets
    <3> QED BY <3>2, <3>3
  <2> QED BY <1>a, <2>1, <2>2, TypeInvCompiled
<1>14. ASSUME NEW o \in Objects, Edit(o) PROVE TypeInv'
  <2>1. source' \in [Objects -> Versions]
    BY <1>14, AsapClangAssumption DEF Edit, ACTypeOK, Versions
  <2> QED BY <1>14, <2>1 DEF Edit, stateDir, ACTypeOK, BuildSoFar
<1>15. ASSUME NEW h \in [Objects -> 0..MaxHits], RunProgram(h) PROVE TypeInv'
  <2> USE <1>15
  <2>1. ASSUME NEW o \in Objects PROVE gcda'[o] \in Profiles
    <3>1. gcda[o] \in Profiles
      BY DEF ACTypeOK
    <3>2. CASE o \in Profiled
      <4>1. gcda'[o] = [of |-> gcda[o].of \cup {program[o].of}, hits |-> gcda[o].hits + h[o]]
        BY <3>2 DEF RunProgram
      <4>2. gcda[o].hits + h[o] \in 0..MaxHits
        BY <3>1, <3>2, AsapClangAssumption DEF RunProgram, Profiles
      <4>3. program[o].of \in Versions
        BY <3>2 DEF Profiled, ProfileInv
      <4> QED BY <3>1, <4>1, <4>2, <4>3 DEF Profiles
    <3>3. CASE o \notin Profiled
      BY <3>1, <3>3 DEF RunProgram
    <3> QED BY <3>2, <3>3
  <2>2. gcda' \in [Objects -> Profiles]
    BY <2>1 DEF RunProgram
  <2> QED BY <2>2 DEF RunProgram, ACTypeOK, BuildSoFar
<1>16. CASE UNCHANGED acVars
  BY <1>16 DEF acVars, stateDir, ACTypeOK, BuildSoFar
<1> QED
  BY <1>1, <1>2, <1>3, <1>4, <1>5, <1>6, <1>7, <1>8, <1>9, <1>10, <1>11, <1>12, <1>13, <1>14, <1>15,
     <1>16
  DEF ACNext

\* The files that asap-clang leaves in the state directory, and the objects and the
\* executable of the build, have the types that the commands expect of them; the
\* threshold is one of the costs that were measured or one more.
THEOREM ACTypes == ACSpec => []ACTypeOK
<1>1. TypeInv => ACTypeOK
  BY DEF TypeInv
<1> QED BY <1>1, TypeInvInit, TypeInvNext, ProfileInvInit, ProfileInvNext, PTL DEF ACSpec

-----------------------------------------------------------------------------
\* The objects of a build without their check, and those whose counters belong to
\* bitcode that is there.
Removed(t)  == {o \in DOMAIN t : t[o].removed}
Measured(o) == gcda[o] # NoProfile /\ orig[o] # NoFile

\* A build with checks removed that is left from an earlier -asap-optimize: nothing
\* has been measured since -asap-init, nor will it be before the next make clean.
LeftOver ==
  current_state # "optimize" /\ Removed(target) # {} =>
    \A o \in Objects :
      /\ ~ Measured(o)
      /\ o \in DOMAIN target /\ target[o].by = "gcov" => orig[o] = NoFile
      /\ o \in todo => orig[o] = NoFile

\* Costs come from such counters.
CostsMeasured == \A o \in Objects : costs[o] >= 0 => Measured(o)

\* The threshold was computed for the costs that are there.
ThresholdKept ==
  current_state \in {"threshold", "optimize"} =>
    /\ \E o \in Objects : costs[o] > 0
    /\ asked \in Levels
    /\ Honours(asked[1], CostsRead, asked[2], threshold)

\* Only objects that cost the threshold lose their check.
OnlyExpensive ==
  current_state = "optimize" /\ ~ ranSince => \A o \in Removed(target) : gcda[o].hits >= threshold

LevelInv == LeftOver /\ CostsMeasured /\ ThresholdKept /\ OnlyExpensive

LEMMA LevelInvInit == ACInit => LevelInv
BY DEF ACInit, LevelInv, LeftOver, CostsMeasured, ThresholdKept, OnlyExpensive, Removed, None, NoFile

\* The parts of the invariant from what they depend on.
LEMMA LeftOverFrame ==
  ASSUME LeftOver, current_state' = "optimize" => current_state = "optimize" \/ Removed(target) = {},
         current_state = "optimize" => current_state' = "optimize",
         UNCHANGED <<gcda, orig, target, todo>>
  PROVE  LeftOver'
BY DEF LeftOver, Removed, Measured

LEMMA ThresholdKeptFrame ==
  ASSUME ThresholdKept, UNCHANGED <<costs, asked, threshold>>,
         current_state' \in {"threshold", "optimize"} => current_state \in {"threshold", "optimize"}
  PROVE  ThresholdKept'
<1>1. CostsRead' = CostsRead
  BY DEF CostsRead
<1> QED BY <1>1 DEF ThresholdKept, Honours, KeptNumber, KeptCost, TotalCost, Kept

\* One object is compiled, and the state directory is left alone: in a build with
\* checks left out, no object instrumented for coverage is added.
LEMMA LevelInvCompiled ==
  ASSUME LevelInv, TypeInv, CleanFirst, NEW o \in Objects, o \in todo, NEW t \in Targets, Compiled(o, t),
         UNCHANGED <<stateDir, ranSince>>,
         current_state # "optimize" =>
           ~ t.removed /\ (t.by = "gcov" => orig[o] # NoFile),
         current_state = "optimize" /\ t.removed => gcda[o].hits >= threshold
  PROVE  LevelInv'
<1>1. /\ DOMAIN target' = DOMAIN target \cup {o} /\ target'[o] = t /\ todo' = todo \ {o}
      /\ \A p \in DOMAIN target : target'[p] = target[p]
  BY CompiledTypes DEF CleanFirst
<1>2. UNCHANGED <<current_state, gcda, orig, costs, asked, threshold, ranSince>>
  BY DEF stateDir
<1>3. LeftOver'
  <2> SUFFICES ASSUME current_state # "optimize", Removed(target') # {}, NEW p \in Objects
      PROVE  /\ ~ Measured(p)
             /\ p \in DOMAIN target' /\ target'[p].by = "gcov" => orig[p] = NoFile
             /\ p \in todo' => orig[p] = NoFile
    BY <1>2 DEF LeftOver, Removed, Measured
  <2>1. Removed(target) # {}
    BY <1>1 DEF Removed
  <2>2. \A q \in Objects :
          /\ ~ Measured(q)
          /\ q \in DOMAIN target /\ target[q].by = "gcov" => orig[q] = NoFile
          /\ q \in todo => orig[q] = NoFile
    BY <2>1 DEF LevelInv, LeftOver
  <2> QED BY <1>1, <2>2
<1>4. CostsMeasured'
  BY <1>2 DEF LevelInv, CostsMeasured, Measured
<1>5. ThresholdKept'
  BY <1>2, ThresholdKeptFrame DEF LevelInv
<1>6. OnlyExpensive'
  <2> SUFFICES ASSUME current_state = "optimize", ~ ranSince, NEW p \in Removed(target')
      PROVE  gcda[p].hits >= threshold
    BY <1>2 DEF OnlyExpensive, Removed
  <2>1. (p = o /\ t.removed) \/ p \in Removed(target)
    BY <1>1 DEF Removed
  <2> QED BY <2>1 DEF LevelInv, OnlyExpensive
<1> QED BY <1>3, <1>4, <1>5, <1>6 DEF LevelInv

\* Steps that leave counters, bitcode, objects, costs and threshold alone, except
\* for the step to the stage in which checks are removed.
LEMMA LevelInvFrame ==
  ASSUME LevelInv, UNCHANGED <<gcda, orig, target, todo, costs, asked, threshold, ranSince>>,
         current_state' \in {"threshold", "optimize"} => current_state' = current_state,
         current_state = "optimize" => current_state' = "optimize"
  PROVE  LevelInv'
<1>1. LeftOver'
  BY LeftOverFrame DEF LevelInv
<1>2. CostsMeasured'
  BY DEF LevelInv, CostsMeasured, Measured
<1>3. ThresholdKept'
  BY ThresholdKeptFrame DEF LevelInv
<1>4. OnlyExpensive'
  BY DEF LevelInv, OnlyExpensive, Removed
<1> QED BY <1>1, <1>2, <1>3, <1>4 DEF LevelInv

\* Every step keeps the threshold with its costs, and removes only what costs it.
LEMMA LevelInvNext == LevelInv /\ TypeInv /\ ProfileInv /\ CostsInv /\ [ACNext]_acVars => LevelInv'
<1> SUFFICES ASSUME LevelInv, TypeInv, ProfileInv, CostsInv, [ACNext]_acVars PROVE LevelInv'
  OBVIOUS
<1>a. CleanFirst /\ ACTypeOK
  BY DEF ProfileInv, TypeInv
<1>1. CASE AsapInit
  BY <1>1 DEF AsapInit, LevelInv, LeftOver, CostsMeasured, ThresholdKept, OnlyExpensive, Measured, NoFile
<1>2. CASE AsapCustom \/ AsapCoverage
  BY <1>2, LevelInvFrame DEF AsapCustom, AsapCoverage, Transition
<1>3. CASE AsapOptimize
  <2>1. /\ current_state = "threshold" /\ current_state' = "optimize"
        /\ UNCHANGED <<gcda, orig, target, todo, costs, asked, threshold, ranSince>>
    BY <1>3 DEF AsapOptimize, Transition
  <2>2. PICK o \in Objects : costs[o] > 0
    BY <2>1 DEF LevelInv, ThresholdKept
  <2>3. costs[o] >= 0
    BY <2>2 DEF CostsInv, CostFiles
  <2>4. Measured(o)
    BY <2>3 DEF LevelInv, CostsMeasured
  <2>5. Removed(target) = {}
    BY <2>1, <2>4 DEF LevelInv, LeftOver
  <2>6. LeftOver' /\ OnlyExpensive'
    BY <2>1, <2>5 DEF LeftOver, OnlyExpensive, Removed
  <2>7. CostsMeasured'
    BY <2>1 DEF LevelInv, CostsMeasured, Measured
  <2>8. ThresholdKept'
    BY <2>1, ThresholdKeptFrame DEF LevelInv
  <2> QED BY <2>6, <2>7, <2>8 DEF LevelInv
<1>4. CASE ComputeCosts
  <2>1. /\ current_state = "coverage" /\ current_state' = "coverage"
        /\ UNCHANGED <<gcda, orig, target, todo, costs, asked, threshold>>
    BY <1>4 DEF ComputeCosts, StageWhileComputing
  <2>2. LeftOver'
    BY <2>1, LeftOverFrame DEF LevelInv
  <2>3. CostsMeasured'
    BY <2>1 DEF LevelInv, CostsMeasured, Measured
  <2> QED BY <2>1, <2>2, <2>3 DEF LevelInv, ThresholdKept, OnlyExpensive
<1>5. CASE CostsComputed
  <2>1. current_state = "coverage"
    BY <1>5 DEF CostsComputed, CostsInv, CostsSoFar
  <2> QED BY <1>5, <2>1, LevelInvFrame DEF CostsComputed
<1>6. ASSUME NEW o \in Objects, WriteCosts(o) PROVE LevelInv'
  <2>1. /\ current_state = "coverage" /\ current_state' = "coverage"
        /\ gcda[o] # NoProfile /\ orig[o] # NoFile
        /\ costs' = [costs EXCEPT ![o] = gcda[o].hits]
        /\ UNCHANGED <<gcda, orig, target, todo, asked, threshold>>
    BY <1>6 DEF WriteCosts, CostsInv, CostsSoFar
  <2>2. LeftOver'
    BY <2>1, LeftOverFrame DEF LevelInv
  <2>3. CostsMeasured'
    BY <1>a, <2>1 DEF LevelInv, CostsMeasured, Measured, ACTypeOK
  <2> QED BY <2>1, <2>2, <2>3 DEF LevelInv, ThresholdKept, OnlyExpensive
<1>7. ASSUME NEW S \in SUBSET Objects, WriteCostsFails(S) PROVE LevelInv'
  <2>1. /\ current_state = "coverage" /\ current_state' = "coverage"
        /\ costs' = [o \in Objects |-> IF o \in S THEN Partial ELSE costs[o]]
        /\ UNCHANGED <<gcda, orig, target, todo, asked, threshold>>
    BY <1>7 DEF WriteCostsFails, CostsInv, CostsSoFar
  <2>2. LeftOver'
    BY <2>1, LeftOverFrame DEF LevelInv
  <2>3. CostsMeasured'
    BY <2>1 DEF LevelInv, CostsMeasured, Measured, Partial
  <2> QED BY <2>1, <2>2, <2>3 DEF LevelInv, ThresholdKept, OnlyExpensive
<1>8. ASSUME NEW ml \in Levels, ComputeThreshold(ml[1], ml[2]) PROVE LevelInv'
  <2>1. /\ current_state = "costs" /\ current_state' = "threshold"
        /\ UNCHANGED <<gcda, orig, target, todo, costs, ranSince>>
    BY <1>8 DEF ComputeThreshold
  <2>2. LeftOver'
    BY <2>1, LeftOverFrame DEF LevelInv
  <2>3. CostsMeasured'
    BY <2>1 DEF LevelInv, CostsMeasured, Measured
  <2>4. CostsRead' = CostsRead
    BY <2>1 DEF CostsRead
  <2>5. ThresholdKept'
    <3>1. /\ asked' \in Levels /\ asked' = ml
          /\ Honours(ml[1], CostsRead, ml[2], threshold')
          /\ \E o \in Objects : costs[o] > 0
      BY <1>8, <1>a, ComputedThreshold
    <3> QED BY <2>1, <2>4, <3>1 DEF ThresholdKept, Honours, KeptNumber, KeptCost, TotalCost, Kept
  <2> QED BY <2>1, <2>2, <2>3, <2>5 DEF LevelInv, OnlyExpensive
<1>9. CASE StartMake
  <2>1. Removed(target') = {} /\ UNCHANGED <<current_state, gcda, orig, costs, asked, threshold, ranSince>>
    BY <1>9 DEF StartMake, Removed, None, stateDir
  <2>2. LeftOver' /\ OnlyExpensive'
    BY <2>1 DEF LeftOver, OnlyExpensive, Removed
  <2>3. CostsMeasured'
    BY <2>1 DEF LevelInv, CostsMeasured, Measured
  <2>4. ThresholdKept'
    BY <2>1, ThresholdKeptFrame DEF LevelInv
  <2> QED BY <2>2, <2>3, <2>4 DEF LevelInv
<1>10. CASE MakeFails
  <2>1. /\ todo' = {}
        /\ UNCHANGED <<current_state, gcda, orig, target, costs, asked, threshold, ranSince>>
    BY <1>10 DEF MakeFails, stateDir
  <2>2. LeftOver'
    BY <2>1 DEF LevelInv, LeftOver, Removed, Measured
  <2>3. CostsMeasured' /\ OnlyExpensive'
    BY <2>1 DEF LevelInv, CostsMeasured, Measured, OnlyExpensive, Removed
  <2>4. ThresholdKept'
    BY <2>1, ThresholdKeptFrame DEF LevelInv
  <2> QED BY <2>2, <2>3, <2>4 DEF LevelInv
<1>11. CASE Link
  BY <1>11, LevelInvFrame DEF Link, stateDir
<1>12. ASSUME NEW o \in Objects, NEW r \in InitialResults, InitialCompile(o, r) PROVE LevelInv'
  <2> USE <1>12
  <2>1. /\ o \in todo /\ current_state = "initial" /\ current_state' = "initial"
        /\ o \notin DOMAIN target
        /\ UNCHANGED <<costs, asked, threshold, ranSince>>
    BY <1>a DEF InitialCompile, CleanFirst
  <2>2. /\ gcda' = IF r.removed >= 2 THEN [gcda EXCEPT ![o] = NoProfile] ELSE gcda
        /\ orig' = [orig EXCEPT ![o] = IF r.bitcode THEN source[o]
                                      ELSE IF r.removed = 3 THEN NoFile ELSE @]
    BY DEF InitialCompile, ProfileAfterInitial
  <2>3. \A p \in Objects \ {o} : gcda'[p] = gcda[p] /\ orig'[p] = orig[p]
    BY <1>a, <2>2 DEF ACTypeOK
  <2>a. gcda'[o] # NoProfile => gcda'[o] = gcda[o] /\ orig'[o] = orig[o]
    <3>1. CASE r.removed >= 2
      BY <1>a, <3>1, <2>2 DEF ACTypeOK
    <3>2. CASE ~ r.removed >= 2
      <4>1. ~ r.bitcode /\ r.removed # 3
        BY <3>2 DEF InitialResults
      <4> QED BY <1>a, <3>2, <4>1, <2>2 DEF ACTypeOK
    <3> QED BY <3>1, <3>2
  <2>4. r.by \in {"initial", "plain", "none"}
    BY DEF InitialResults
  <2>5. \/ \E t : Compiled(o, t) /\ t.by # "gcov" /\ t.removed = FALSE
        \/ todo' = {} /\ UNCHANGED target
    <3>1. CASE r.by = "initial"
      <4>1. Compiled(o, FromOrig(o, "initial")')
        BY <3>1 DEF InitialCompile
      <4> QED BY <4>1 DEF FromOrig
    <3>2. CASE r.by = "plain"
      BY <3>2 DEF InitialCompile, PlainObject
    <3>3. CASE r.by = "none"
      BY <3>3 DEF InitialCompile
    <3> QED BY <3>1, <3>2, <3>3, <2>4
  <2>6. /\ Removed(target') = Removed(target) /\ todo' \subseteq todo \ {o}
        /\ \A p \in DOMAIN target' : target'[p].by = "gcov" => p \in DOMAIN target /\ target[p].by = "gcov"
    <3>1. ASSUME NEW t, Compiled(o, t), t.by # "gcov", t.removed = FALSE
          PROVE  /\ Removed(target') = Removed(target) /\ todo' \subseteq todo \ {o}
                 /\ \A p \in DOMAIN target' :
                      target'[p].by = "gcov" => p \in DOMAIN target /\ target[p].by = "gcov"
      <4>1. /\ DOMAIN target' = DOMAIN target \cup {o} /\ target'[o] = t /\ todo' = todo \ {o}
            /\ \A p \in DOMAIN target : target'[p] = target[p]
        BY <2>1, <3>1 DEF Compiled
      <4> QED BY <2>1, <3>1, <4>1 DEF Removed
    <3>2. CASE todo' = {} /\ UNCHANGED target
      BY <3>2 DEF Removed
    <3> QED BY <2>5, <3>1, <3>2
  <2>7. LeftOver'
    <3> SUFFICES ASSUME Removed(target') # {}, NEW p \in Objects
        PROVE  /\ ~ Measured(p)'
               /\ p \in DOMAIN target' /\ target'[p].by = "gcov" => orig'[p] = NoFile
               /\ p \in todo' => orig'[p] = NoFile
      BY DEF LeftOver, Removed
    <3>1. \A q \in Objects :
            /\ ~ Measured(q)
            /\ q \in DOMAIN target /\ target[q].by = "gcov" => orig[q] = NoFile
            /\ q \in todo => orig[q] = NoFile
      BY <2>1, <2>6 DEF LevelInv, LeftOver
    <3>2. CASE p = o
      BY <3>1, <3>2, <2>1, <2>a, <2>6 DEF Measured
    <3>3. CASE p # o
      BY <3>1, <3>3, <2>3, <2>6 DEF Measured
    <3> QED BY <3>2, <3>3
  <2>8. CostsMeasured'
    BY <2>1 DEF CostsInv, CostFiles, CostsMeasured, NoFile
  <2> QED BY <2>1, <2>7, <2>8 DEF LevelInv, ThresholdKept, OnlyExpensive
<1>13. ASSUME NEW o \in Objects, NEW stage \in {"custom", "coverage"}, NEW by \in {"custom", "gcov"},
              CompileFromOrig(o, stage, by)
       PROVE  LevelInv'
  <2> DEFINE t == IF HasOrig(o) THEN FromOrig(o, by) ELSE PlainObject(o)
  <2>1. /\ o \in todo /\ Compiled(o, t) /\ current_state = stage
        /\ UNCHANGED <<stateDir, ranSince>>
    BY <1>13 DEF CompileFromOrig
  <2>2. t \in Targets /\ t.removed = FALSE /\ (t.by = "gcov" => orig[o] # NoFile)
    BY <1>a DEF HasOrig, FromOrig, PlainObject, ACTypeOK, Targets
  <2> QED BY <1>a, <2>1, <2>2, LevelInvCompiled
<1>14. ASSUME NEW o \in Objects, OptimizingCompile(o) PROVE LevelInv'
  <2> DEFINE t == IF Optimizable(o) THEN Optimized(o) ELSE PlainObject(o)
  <2>1. /\ o \in todo /\ Compiled(o, t) /\ current_state = "optimize"
        /\ UNCHANGED <<stateDir, ranSince>>
    BY <1>14 DEF OptimizingCompile
  <2>2. t \in Targets
    <3>1. (gcda[o].hits >= threshold) \in BOOLEAN
      OBVIOUS
    <3>2. CASE Optimizable(o)
      <4>1. orig[o] \in Versions
        BY <1>a, <3>2 DEF Optimizable, HasOrig, ACTypeOK
      <4> QED BY <3>1, <3>2, <4>1 DEF Optimized, Targets
    <3>3. CASE ~ Optimizable(o)
      BY <1>a, <3>3 DEF PlainObject, ACTypeOK, Targets
    <3> QED BY <3>2, <3>3
  <2>3. t.removed => gcda[o].hits >= threshold
    BY DEF Optimized, PlainObject
  <2> QED BY <1>a, <2>1, <2>2, <2>3, LevelInvCompiled
<1>15. ASSUME NEW o \in Objects, Edit(o) PROVE LevelInv'
  BY <1>15, LevelInvFrame DEF Edit, stateDir
<1>16. ASSUME NEW h \in [Objects -> 0..MaxHits], RunProgram(h) PROVE LevelInv'
  <2> USE <1>16
  <2>1. /\ ranSince'
        /\ UNCHANGED <<current_state, orig, costs, threshold, asked, target, todo, program>>
    BY DEF RunProgram
  <2>2. \A p \in Objects : p \notin Profiled => gcda'[p] = gcda[p]
    BY DEF RunProgram
  <2>3. \A p \in Objects : gcda[p] # NoProfile => gcda'[p] # NoProfile
    BY DEF RunProgram, NoProfile
  <2>4. \A p \in Profiled : p \in DOMAIN target /\ target[p].by = "gcov"
    BY DEF Profiled, TypeInv, BuildSoFar, None
  <2>5. LeftOver'
    BY <2>1, <2>2, <2>4 DEF LevelInv, LeftOver, Removed, Measured
  <2>6. CostsMeasured'
    BY <2>1, <2>3 DEF LevelInv, CostsMeasured, Measured
  <2>7. ThresholdKept'
    BY <2>1, ThresholdKeptFrame DEF LevelInv
  <2> QED BY <2>1, <2>5, <2>6, <2>7 DEF LevelInv, OnlyExpensive
<1>17. CASE UNCHANGED acVars
  BY <1>17, LevelInvFrame DEF acVars, stateDir
<1> QED
  BY <1>1, <1>2, <1>3, <1>4, <1>5, <1>6, <1>7, <1>8, <1>9, <1>10, <1>11, <1>12, <1>13, <1>14, <1>15,
     <1>16, <1>17
  DEF ACNext

\* In a program that has not been profiled again, the costs are the counters, and
\* what is removed costs the threshold: what is kept includes what the threshold
\* keeps.
LEMMA LevelFromInv == LevelInv /\ TypeInv /\ CostsInv => LevelKept
<1> DEFINE gone    == {o \in DOMAIN program : program[o].removed}
           hits    == [o \in Objects |-> gcda[o].hits]
           Cost(S) == IF asked[1] = "sanity" THEN Cardinality(S) ELSE SumFunctionOnSet(hits, S)
<1> SUFFICES ASSUME LevelInv, TypeInv, CostsInv, current_state = "optimize", ~ ranSince
    PROVE  Den * Cost(GcdaFiles \ gone) >= asked[2] * Cost(GcdaFiles)
  BY DEF LevelKept
<1>a. ACTypeOK
  BY DEF TypeInv
<1>1. /\ asked \in Levels /\ asked[2] \in Nat /\ Honours(asked[1], CostsRead, asked[2], threshold)
  BY AsapClangAssumption, DenAssumption DEF LevelInv, ThresholdKept
<1>2. \A o \in Objects : hits[o] \in Nat /\ hits[o] = gcda[o].hits
  BY <1>a, AsapClangAssumption DEF ACTypeOK, Profiles
<1>3. \A o \in GcdaFiles : o \in Objects /\ costs[o] = gcda[o].hits
  BY DEF GcdaFiles, CostsInv, CostsWhole
<1>4. DOMAIN CostsRead = GcdaFiles
  <2>1. \A o \in GcdaFiles : costs[o] >= 0
    BY <1>2, <1>3
  <2>2. \A o \in Objects : costs[o] >= 0 => o \in GcdaFiles
    BY DEF GcdaFiles, LevelInv, CostsMeasured, Measured
  <2> QED BY <1>a, <1>3, <2>1, <2>2, CostsReadFacts
<1>5. \A o \in GcdaFiles : CostsRead[o] = hits[o]
  BY <1>a, <1>2, <1>3, <1>4, CostsReadFacts
<1>6. \A o \in gone : o \in Objects /\ hits[o] >= threshold
  <2>1. \A o \in gone : o \in Removed(target)
    BY DEF TypeInv, BuildSoFar, Removed, None
  <2>2. \A o \in Removed(target) : o \in Objects /\ gcda[o].hits >= threshold
    BY <1>a DEF LevelInv, OnlyExpensive, Removed, ACTypeOK
  <2> QED BY <1>2, <2>1, <2>2
<1>7. threshold \in Int
  BY <1>a, AsapClangAssumption DEF ACTypeOK, NoFile
<1> HIDE DEF gone, hits
<1> DEFINE K == Kept(CostsRead, threshold)
<1>8. K \subseteq GcdaFiles \ gone
  BY <1>2, <1>3, <1>4, <1>5, <1>6, <1>7 DEF Kept
<1>9. IsFiniteSet(GcdaFiles) /\ IsFiniteSet(GcdaFiles \ gone)
  BY AsapClangAssumption, FS_Subset DEF GcdaFiles
<1>10. IsCosts(CostsRead)
  BY <1>a, CostsReadFacts
<1> HIDE DEF K
<1>11. CASE asked[1] = "sanity"
  <2>1. Den * Cardinality(K) >= asked[2] * Cardinality(GcdaFiles)
    BY <1>1, <1>4, <1>11 DEF Honours, KeptNumber, K
  <2>2. Cardinality(K) <= Cardinality(GcdaFiles \ gone)
    BY <1>8, <1>9, FS_Subset
  <2>3. Cardinality(K) \in Nat /\ Cardinality(GcdaFiles \ gone) \in Nat /\ Cardinality(GcdaFiles) \in Nat
    BY <1>8, <1>9, FS_Subset, FS_CardinalityType
  <2>4. Den * Cardinality(K) <= Den * Cardinality(GcdaFiles \ gone)
    BY <2>2, <2>3, TimesMonotone, DenAssumption
  <2>5. Den * Cardinality(GcdaFiles \ gone) >= asked[2] * Cardinality(GcdaFiles)
    <3> DEFINE a == Den * Cardinality(K)
               b == Den * Cardinality(GcdaFiles \ gone)
               c == asked[2] * Cardinality(GcdaFiles)
    <3>1. a \in Int /\ b \in Int /\ c \in Int /\ a >= c /\ a <= b
      BY <1>1, <2>1, <2>3, <2>4, DenAssumption
    <3> HIDE DEF a, b, c
    <3>2. b >= c
      BY <3>1
    <3> QED BY <3>2 DEF b, c
  <2> QED BY <1>11, <2>5
<1>12. CASE asked[1] # "sanity"
  <2>1. Den * SumFunctionOnSet(CostsRead, K) >= asked[2] * SumFunctionOnSet(CostsRead, GcdaFiles)
    BY <1>1, <1>4, <1>12 DEF Honours, KeptCost, TotalCost, K
  <2>2. \A o \in GcdaFiles : hits[o] \in Nat /\ CostsRead[o] = hits[o]
    BY <1>2, <1>3, <1>5
  <2>3. SumFunctionOnSet(CostsRead, GcdaFiles) = SumFunctionOnSet(hits, GcdaFiles)
    BY <1>9, <2>2, SumEqual
  <2>4. SumFunctionOnSet(CostsRead, K) = SumFunctionOnSet(hits, K)
    <3>1. IsFiniteSet(K) /\ \A o \in K : hits[o] \in Nat /\ CostsRead[o] = hits[o]
      BY <1>8, <1>9, <2>2, FS_Subset
    <3> QED BY <3>1, SumEqual
  <2>5. /\ SumFunctionOnSet(hits, K) <= SumFunctionOnSet(hits, GcdaFiles \ gone)
    <3>1. \A o \in GcdaFiles \ gone : hits[o] \in Nat
      BY <2>2
    <3> QED BY <1>8, <1>9, <3>1, SumMonotone
  <2>6. /\ SumFunctionOnSet(hits, K) \in Nat /\ SumFunctionOnSet(hits, GcdaFiles) \in Nat
        /\ SumFunctionOnSet(hits, GcdaFiles \ gone) \in Nat
    <3>1. IsFiniteSet(K) /\ \A o \in K : hits[o] \in Nat
      BY <1>8, <1>9, <2>2, FS_Subset
    <3> QED BY <1>9, <2>2, <3>1, SumType
  <2> DEFINE a == SumFunctionOnSet(hits, K)
             b == SumFunctionOnSet(hits, GcdaFiles \ gone)
             c == SumFunctionOnSet(hits, GcdaFiles)
  <2>7. Den * a >= asked[2] * c /\ a <= b /\ a \in Nat /\ b \in Nat /\ c \in Nat
    BY <2>1, <2>3, <2>4, <2>5, <2>6
  <2> HIDE DEF a, b, c
  <2>8. Den * a <= Den * b
    BY <2>7, TimesMonotone, DenAssumption
  <2>9. Den * a \in Int /\ Den * b \in Int /\ asked[2] * c \in Int
    BY <1>1, <2>7, DenAssumption
  <2>10. Den * b >= asked[2] * c
    BY <2>7, <2>8, <2>9
  <2> QED BY <1>12, <2>10 DEF b, c
<1> QED BY <1>11, <1>12

\* The optimized program keeps the fraction of the checks, or of their cost, that
\* -asap-compute-threshold was asked for: whatever commands, edits, interrupted makes
\* and runs come before, no object is compiled with a threshold or counters from
\* another build.
THEOREM LevelAlwaysKept == ACSpec => []LevelKept
<1>1. ProfileInv => FileTypes
  BY DEF ProfileInv
<1> QED
  BY <1>1, LevelFromInv, LevelInvInit, LevelInvNext, TypeInvInit, TypeInvNext, CostsInvInit, CostsInvNext,
     ProfileInvInit, ProfileInvNext, PTL
  DEF ACSpec

=============================================================================
