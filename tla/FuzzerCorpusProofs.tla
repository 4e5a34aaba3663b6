------------------------- MODULE FuzzerCorpusProofs -------------------------
(***************************************************************************)
(* The corpus of a fuzzing process is consistent, for every target, every  *)
(* set of units, any number of slots and all options.                      *)
(***************************************************************************)
EXTENDS FuzzerCorpus, FiniteSetTheorems, TLAPS

\* Owned, Seen and SlotsOf as functions of the tables they look at.
SlotsAt(sizes, owners, i) == {s \in Slots : sizes[s] # 0 /\ owners[s] = i}

SlotOf(f) == f % kFeatureSetSize

Has(cov, u, s) == \E c \in cov[u] : \E f \in c : s = SlotOf(f)

Input == [U : Units \cup {Evicted}, Sha1 : Units, NumFeatures : Nat, MayDeleteFile : BOOLEAN]

Positions == 1..Len(Inputs)

\* The initial corpus is being run.
Loading == origin = "initial" /\ pc \in {"load", "execute", "collect", "fill", "add"}

\* With -benchmark, mutated units take slots but are not added, and the counts are
\* no longer right.
Counting == ~ Options.Benchmark \/ Loading

\* What is done where.
Phases ==
  /\ pc = "load" => origin = "initial"
  /\ pc = "fill" => origin = "initial" /\ Options.Benchmark /\ Res = 0
  /\ pc = "add" => Res > 0
  /\ pc \in {"fill", "add"} => pending = {}
  /\ pc = "write" => origin = "mutate" /\ pending = {}
  /\ \/ pc \in {"loop", "reload", "mutate"}
     \/ pc \in {"execute", "collect", "fill", "add", "write"} /\ origin # "initial"
     => Inputs # <<>>

\* The slots, the counts, and which inputs are evicted agree.
Counts ==
  Counting =>
    /\ \A i \in Positions : 
         /\ Inputs[i].NumFeatures = Cardinality(SlotsAt(InputSizesPerFeature, SmallestElementPerFeature, i))
         /\ Inputs[i].U = Evicted <=> Inputs[i].NumFeatures = 0
    /\ Reporting =>
         /\ Res = Cardinality(SlotsAt(InputSizesPerFeature, SmallestElementPerFeature, Len(Inputs) + 1))
         /\ \A s \in Slots : GetFeature(s) # 0 /\ SmallestElementPerFeature[s] = Len(Inputs) + 1 =>
              GetFeature(s) = Size[U]
    /\ pc \notin Stops => \A s \in Slots : GetFeature(s) # 0 =>
         \/ SmallestElementPerFeature[s] \in Positions
         \/ Reporting /\ SmallestElementPerFeature[s] = Len(Inputs) + 1

\* The distribution is only out of date while a unit is run that will be added.
Weights ==
  ~ Options.Benchmark =>
    /\ (\E s \in Slots : GetFeature(s) # 0) => CountingFeatures
    /\ Inputs # <<>> => \E s \in Slots : GetFeature(s) # 0
    /\ pc \notin Stops /\ (Reporting => Res = 0) => weighted = {i \in Positions : Active(i)}

\* Where the units that are run come from: their files are there, and will not be
\* deleted before they are added.
FromReload == origin = "reload" /\ pc \in {"execute", "collect", "add"}

Sources ==
  /\ Loading => queue \subseteq initial /\ (pc # "load" => U \in initial)
  /\ pc = "reload" \/ FromReload => queue \ Hashes \subseteq disk
  /\ FromReload => U \in disk \ Hashes
  /\ \A i \in Positions : Inputs[i].Sha1 \in Hashes /\ (Active(i) => Inputs[i].U = Inputs[i].Sha1)

\* The features that were reported have a slot.
Reports ==
  /\ Reporting \/ pc = "write" => reported \in Coverage[U]
  /\ Reporting /\ ~ Options.Benchmark =>
       /\ \A s \in Slots : GetFeature(s) # 0 /\ SmallestElementPerFeature[s] = Len(Inputs) + 1 =>
            \E f \in reported : s = SlotOf(f)
       /\ \A f \in reported \ pending :
            GetFeature(SlotOf(f)) # 0 /\ (Options.Shrink => GetFeature(SlotOf(f)) <= Size[U])

\* Who owns a slot has the feature, and all features of the inputs are owned.  So a
\* unit that is run again takes nothing, and no two inputs are the same.
Owners ==
  ~ Options.Benchmark /\ Deterministic =>
    /\ \A i \in Positions : \A s \in Slots : GetFeature(s) # 0 /\ SmallestElementPerFeature[s] = i =>
         Has(Coverage, Inputs[i].U, s) /\ GetFeature(s) = Size[Inputs[i].U]
    /\ \A i \in Positions : Active(i) => \A s \in Slots : Has(Coverage, Inputs[i].U, s) =>
         GetFeature(s) # 0 /\ (Options.Shrink => GetFeature(s) <= Size[Inputs[i].U])
    /\ Reporting /\ Res > 0 => \A i \in Positions : Inputs[i].U # U
    /\ \A i, j \in Positions : Active(i) /\ Inputs[i].U = Inputs[j].U => i = j

\* The files of all inputs are there, but for the one that is being written.
Files ==
  ~ Options.Benchmark /\ Deterministic /\ pc \notin Stops =>
    \A i \in Positions : Active(i) =>
      Inputs[i].U \in disk \cup initial \/ (pc = "write" /\ Inputs[i].U = U)

CorpusBase ==
  /\ CorpusTypeOK
  /\ Phases
  /\ Counts
  /\ Weights
  /\ Sources
  /\ Reports
  /\ Owners
  /\ Files
  /\ NoAssertionFails

CorpusInv == CorpusBase /\ FeaturesOnDisk /\ StopLosesOneUnit

-----------------------------------------------------------------------------
LEMMA SlotOfType == ASSUME NEW f \in Nat PROVE SlotOf(f) \in Slots
BY CorpusAssumption DEF SlotOf, Slots

LEMMA SlotSets ==
  ASSUME NEW S \in SUBSET Slots
  PROVE  /\ IsFiniteSet(S) /\ Cardinality(S) \in Nat
         /\ Cardinality(S) = 0 <=> S = {}
         /\ \A s \in Slots \ S : Cardinality(S \cup {s}) = Cardinality(S) + 1
         /\ \A s \in S : Cardinality(S \ {s}) = Cardinality(S) - 1
<1>1. IsFiniteSet(Slots)
  BY CorpusAssumption, FS_Interval DEF Slots
<1>2. IsFiniteSet(S)
  BY <1>1, FS_Subset
<1> QED BY <1>2, FS_CardinalityType, FS_EmptySet, FS_AddElement, FS_RemoveElement

LEMMA OwnedIsSlotsAt ==
  /\ \A i : Owned(i) = SlotsAt(InputSizesPerFeature, SmallestElementPerFeature, i)
BY DEF Owned, SlotsAt, GetFeature

LEMMA InputTypes ==
  ASSUME CorpusTypeOK, NEW i \in Positions
  PROVE  /\ Inputs[i].U \in Units \cup {Evicted} /\ Inputs[i].Sha1 \in Units
         /\ Inputs[i].NumFeatures \in Nat /\ Inputs[i].MayDeleteFile \in BOOLEAN
<1>1. Inputs \in Seq(Input)
  BY DEF CorpusTypeOK, Input
<1>2. Inputs[i] \in Input
  BY <1>1 DEF Positions
<1> QED BY <1>2 DEF Input

LEMMA CorpusInitInv == Init => CorpusInv
<1> SUFFICES ASSUME Init PROVE CorpusInv
  OBVIOUS
<1>1. CorpusTypeOK
  <2>1. /\ Options \in [Shrink : BOOLEAN, Benchmark : BOOLEAN, PreferSmall : BOOLEAN] /\ Coverage \in Targets
        /\ initial \subseteq Units /\ queue \subseteq Units /\ disk \subseteq Units /\ U \in Units
        /\ depth \in 0..MutateDepth
    BY CorpusAssumption DEF Init
  <2>2. InputSizesPerFeature \in [Slots -> Nat] /\ SmallestElementPerFeature \in [Slots -> Nat]
    BY DEF Init
  <2>3. Inputs \in Seq([U : Units \cup {Evicted}, Sha1 : Units, NumFeatures : Nat, MayDeleteFile : BOOLEAN])
    BY DEF Init
  <2>4. CountingFeatures \in BOOLEAN /\ Res \in Nat /\ runs \in Nat
    BY DEF Init
  <2>5. reported \subseteq Nat /\ pending \subseteq reported /\ Hashes \subseteq Units /\ weighted \subseteq 1..Len(Inputs)
    BY DEF Init
  <2>6. origin \in {"initial", "reload", "mutate"}
    BY DEF Init
  <2>7. pc \in {"load", "execute", "collect", "fill", "add", "write", "loop", "reload", "mutate"} \cup Stops
    BY DEF Init
  <2> QED BY <2>1, <2>2, <2>3, <2>4, <2>5, <2>6, <2>7 DEF CorpusTypeOK
<1>2. Phases /\ Counts /\ Weights
  BY DEF Init, Phases, Counts, Weights, Positions, Reporting, GetFeature
<1>3. Sources /\ Reports /\ Owners /\ Files
  BY DEF Init, Sources, Loading, FromReload, Reports, Owners, Files, Positions, Reporting, GetFeature
<1>4. NoAssertionFails /\ FeaturesOnDisk /\ StopLosesOneUnit
  BY DEF Init, NoAssertionFails, FeaturesOnDisk, StopLosesOneUnit, Seen, GetFeature
<1> QED BY <1>1, <1>2, <1>3, <1>4 DEF CorpusInv, CorpusBase

\* While nothing is reported the corpus stays as it is.
LEMMA QuietFrame ==
  ASSUME CorpusBase, UNCHANGED <<Options, Coverage, initial, corpusVars>>,
         pc' \notin {"collect", "fill", "add", "write"}, Counting' => Counting,
         pc' \in Stops \/ (pc \notin Stops /\ (~ Reporting \/ Res = 0)),
         disk \subseteq disk', pc' \in Stops \/ (pc = "write" => U \in disk')
  PROVE  Counts' /\ Weights' /\ Reports' /\ Owners' /\ Files'
<1>1. /\ Options' = Options /\ Coverage' = Coverage /\ initial' = initial /\ Inputs' = Inputs
      /\ InputSizesPerFeature' = InputSizesPerFeature
      /\ SmallestElementPerFeature' = SmallestElementPerFeature /\ CountingFeatures' = CountingFeatures
      /\ weighted' = weighted
  BY DEF corpusVars
<1>2. ~ Reporting'
  BY DEF Reporting
<1>3. Counts'
  <2> SUFFICES ASSUME Counting PROVE Counts'
    BY DEF Counts
  <2>1. Counts
    BY DEF CorpusBase
  <2>2. pc' \notin Stops => \A s \in Slots : InputSizesPerFeature[s] # 0 => SmallestElementPerFeature[s] \in Positions
    <3> SUFFICES ASSUME pc' \notin Stops, NEW s \in Slots, InputSizesPerFeature[s] # 0,
                        SmallestElementPerFeature[s] \notin Positions
        PROVE  FALSE
      OBVIOUS
    <3>1. Reporting /\ SmallestElementPerFeature[s] = Len(Inputs) + 1
      BY <2>1 DEF Counts, GetFeature
    <3>2. Cardinality(SlotsAt(InputSizesPerFeature, SmallestElementPerFeature, Len(Inputs) + 1)) = 0
      BY <2>1, <3>1 DEF Counts
    <3>3. SlotsAt(InputSizesPerFeature, SmallestElementPerFeature, Len(Inputs) + 1) \in SUBSET Slots
      BY DEF SlotsAt
    <3>4. SlotsAt(InputSizesPerFeature, SmallestElementPerFeature, Len(Inputs) + 1) = {}
      BY <3>2, <3>3, SlotSets
    <3> QED BY <3>1, <3>4 DEF SlotsAt
  <2> QED BY <1>1, <1>2, <2>1, <2>2 DEF Counts, Positions, GetFeature
<1>4. Weights'
  BY <1>1, <1>2 DEF CorpusBase, Weights, Positions, GetFeature, Active
<1>5. Reports'
  BY <1>2 DEF Reports
<1>6. Owners'
  BY <1>1, <1>2 DEF CorpusBase, Owners, Deterministic, Positions, GetFeature, Active
<1>7. Files'
  BY <1>1 DEF CorpusBase, Files, Deterministic, Positions, Active
<1> QED BY <1>3, <1>4, <1>5, <1>6, <1>7

\* A step that changes no more than the directory, by adding a file.
LEMMA DirectoryFrame ==
  ASSUME CorpusBase, UNCHANGED <<Options, Coverage, initial, pc, runVars, corpusVars>>,
         disk \subseteq disk', disk' \subseteq Units
  PROVE  CorpusBase'
<1>1. /\ Options' = Options /\ Coverage' = Coverage /\ initial' = initial /\ Inputs' = Inputs
      /\ InputSizesPerFeature' = InputSizesPerFeature /\ Hashes' = Hashes
      /\ SmallestElementPerFeature' = SmallestElementPerFeature /\ CountingFeatures' = CountingFeatures
      /\ weighted' = weighted /\ pc' = pc /\ origin' = origin /\ U' = U /\ reported' = reported
      /\ pending' = pending /\ Res' = Res /\ queue' = queue /\ depth' = depth /\ runs' = runs
  BY DEF corpusVars, runVars
<1>2. CorpusTypeOK'
  BY <1>1 DEF CorpusBase, CorpusTypeOK
<1>3. Phases' /\ NoAssertionFails'
  BY <1>1 DEF CorpusBase, Phases, NoAssertionFails
<1>4. Counts' /\ Weights'
  BY <1>1 DEF CorpusBase, Counts, Counting, Loading, Weights, Positions, GetFeature, Active, Reporting
<1>5. Sources'
  BY <1>1 DEF CorpusBase, Sources, Loading, FromReload, Positions, Active
<1>6. Reports' /\ Owners'
  BY <1>1 DEF CorpusBase, Reports, Owners, Deterministic, Positions, GetFeature, Active, Reporting
<1>7. Files'
  BY <1>1 DEF CorpusBase, Files, Deterministic, Positions, Active
<1> QED BY <1>2, <1>3, <1>4, <1>5, <1>6, <1>7 DEF CorpusBase

-----------------------------------------------------------------------------
\* One lemma for each action.

LEMMA LoadUnitInv == ASSUME CorpusBase, LoadUnit PROVE CorpusBase'
<1> USE DEF LoadUnit
<1>1. pc = "load" /\ pc' = "execute" /\ origin = "initial" /\ ~ Reporting
  BY DEF CorpusBase, Phases, Reporting
<1>2. Counts' /\ Weights' /\ Reports' /\ Owners' /\ Files'
  BY <1>1, QuietFrame DEF Counting, Loading, Stops
<1>3. CorpusTypeOK'
  BY DEF CorpusBase, CorpusTypeOK, corpusVars
<1>4. Phases' /\ NoAssertionFails'
  BY <1>1 DEF CorpusBase, Phases, NoAssertionFails, corpusVars
<1>5. Sources'
  BY <1>1 DEF CorpusBase, Sources, Loading, FromReload, Positions, Active, corpusVars
<1> QED BY <1>2, <1>3, <1>4, <1>5 DEF CorpusBase

LEMMA LoadDoneInv == ASSUME CorpusBase, LoadDone PROVE CorpusBase'
<1> USE DEF LoadDone
<1>1. pc = "load" /\ pc' \in {"exit", "loop"} /\ origin = "initial" /\ ~ Reporting
  BY DEF CorpusBase, Phases, Reporting
<1>2. Counts' /\ Weights' /\ Reports' /\ Owners' /\ Files'
  BY <1>1, QuietFrame DEF Counting, Loading, Stops
<1>3. CorpusTypeOK'
  BY DEF CorpusBase, CorpusTypeOK, corpusVars, runVars, Stops
<1>4. Phases' /\ NoAssertionFails'
  BY <1>1 DEF CorpusBase, Phases, NoAssertionFails, corpusVars, runVars
<1>5. Sources'
  BY <1>1 DEF CorpusBase, Sources, Loading, FromReload, Positions, Active, corpusVars, runVars
<1> QED BY <1>2, <1>3, <1>4, <1>5 DEF CorpusBase

LEMMA WriteInv == ASSUME CorpusBase, WriteToOutputCorpus PROVE CorpusBase'
<1> USE DEF WriteToOutputCorpus
<1>1. pc = "write" /\ pc' = "mutate" /\ origin = "mutate" /\ ~ Reporting
  BY DEF CorpusBase, Phases, Reporting, Resume
<1>2. Counts' /\ Weights' /\ Reports' /\ Owners' /\ Files'
  BY <1>1, QuietFrame DEF Counting, Loading, Stops, runVars
<1>3. CorpusTypeOK'
  BY <1>1 DEF CorpusBase, CorpusTypeOK, corpusVars, runVars
<1>4. Phases' /\ NoAssertionFails'
  BY <1>1 DEF CorpusBase, Phases, NoAssertionFails, corpusVars, runVars
<1>5. Sources'
  BY <1>1 DEF CorpusBase, Sources, Loading, FromReload, Positions, Active, corpusVars, runVars
<1> QED BY <1>2, <1>3, <1>4, <1>5 DEF CorpusBase

LEMMA RereadInv == ASSUME CorpusBase, RereadOutputCorpus PROVE CorpusBase'
<1> USE DEF RereadOutputCorpus
<1>1. pc = "loop" /\ pc' = "reload" /\ ~ Reporting
  BY DEF Reporting
<1>2. Counts' /\ Weights' /\ Reports' /\ Owners' /\ Files'
  BY <1>1, QuietFrame DEF Counting, Loading, Stops
<1>3. CorpusTypeOK'
  BY DEF CorpusBase, CorpusTypeOK, corpusVars
<1>4. Phases' /\ NoAssertionFails'
  BY <1>1 DEF CorpusBase, Phases, NoAssertionFails, corpusVars
<1>5. Sources'
  BY <1>1 DEF CorpusBase, Sources, Loading, FromReload, Positions, Active, corpusVars
<1> QED BY <1>2, <1>3, <1>4, <1>5 DEF CorpusBase

LEMMA ReloadUnitInv == ASSUME CorpusBase, ReloadUnit PROVE CorpusBase'
<1> USE DEF ReloadUnit
<1>1. pc = "reload" /\ pc' \in {"reload", "execute"} /\ ~ Reporting /\ (pc' = "execute" => origin' = "reload")
  BY DEF Reporting
<1>2. Counts' /\ Weights' /\ Reports' /\ Owners' /\ Files'
  BY <1>1, QuietFrame DEF Counting, Loading, Stops
<1>3. CorpusTypeOK'
  BY DEF CorpusBase, CorpusTypeOK, corpusVars
<1>4. Phases' /\ NoAssertionFails'
  BY <1>1 DEF CorpusBase, Phases, NoAssertionFails, corpusVars
<1>5. Sources'
  BY <1>1 DEF CorpusBase, Sources, Loading, FromReload, Positions, Active, corpusVars
<1> QED BY <1>2, <1>3, <1>4, <1>5 DEF CorpusBase

LEMMA ReloadDoneInv == ASSUME CorpusBase, ReloadDone PROVE CorpusBase'
<1> USE DEF ReloadDone
<1>1. pc = "reload" /\ pc' = "loop" /\ ~ Reporting
  BY DEF Reporting
<1>2. Counts' /\ Weights' /\ Reports' /\ Owners' /\ Files'
  BY <1>1, QuietFrame DEF Counting, Loading, Stops
<1>3. CorpusTypeOK'
  BY DEF CorpusBase, CorpusTypeOK, corpusVars, runVars
<1>4. Phases' /\ NoAssertionFails'
  BY <1>1 DEF CorpusBase, Phases, NoAssertionFails, corpusVars, runVars
<1>5. Sources'
  BY <1>1 DEF CorpusBase, Sources, Loading, FromReload, Positions, Active, corpusVars, runVars
<1> QED BY <1>2, <1>3, <1>4, <1>5 DEF CorpusBase

LEMMA LoopDoneInv == ASSUME CorpusBase, LoopDone PROVE CorpusBase'
<1> USE DEF LoopDone
<1>1. pc = "loop" /\ pc' = "done" /\ ~ Reporting
  BY DEF Reporting
<1>2. Counts' /\ Weights' /\ Reports' /\ Owners' /\ Files'
  BY <1>1, QuietFrame DEF Counting, Loading, Stops
<1>3. CorpusTypeOK'
  BY DEF CorpusBase, CorpusTypeOK, corpusVars, runVars, Stops
<1>4. Phases' /\ NoAssertionFails'
  BY <1>1 DEF CorpusBase, Phases, NoAssertionFails, corpusVars, runVars
<1>5. Sources'
  BY <1>1 DEF CorpusBase, Sources, Loading, FromReload, Positions, Active, corpusVars, runVars
<1> QED BY <1>2, <1>3, <1>4, <1>5 DEF CorpusBase

\* Only inputs that are not evicted have a weight.
LEMMA ChooseInv == ASSUME CorpusBase, ChooseUnitToMutate PROVE CorpusBase'
<1> USE DEF ChooseUnitToMutate
<1>1. pc = "loop" /\ pc' \in {"mutate", "aborted"} /\ ~ Reporting
  BY DEF Reporting
<1>2. ~ Options.Benchmark => pc' = "mutate"
  BY <1>1 DEF CorpusBase, Weights, Stops, Active
<1>3. Counts' /\ Weights' /\ Reports' /\ Owners' /\ Files'
  <2>1. Counting' => Counting
    BY <1>1 DEF Counting, Loading
  <2>2. pc \notin Stops /\ pc' \notin {"collect", "fill", "add", "write"} /\ pc # "write"
    BY <1>1 DEF Stops
  <2>3. disk \subseteq disk' /\ UNCHANGED <<Options, Coverage, initial, corpusVars>>
    OBVIOUS
  <2> QED BY ONLY CorpusBase, <1>1, <2>1, <2>2, <2>3, QuietFrame
<1>4. CorpusTypeOK'
  <2>1. depth' \in 0..MutateDepth
    BY CorpusAssumption
  <2>2. UNCHANGED <<Options, Coverage, initial, origin, U, reported, pending, Res, queue, runs, corpusVars, disk>>
    OBVIOUS
  <2> QED BY ONLY CorpusBase, <1>1, <2>1, <2>2 DEF CorpusBase, CorpusTypeOK, corpusVars, Stops
<1>5. Phases' /\ NoAssertionFails'
  BY <1>1, <1>2 DEF CorpusBase, Phases, NoAssertionFails, corpusVars
<1>6. Sources'
  BY <1>1 DEF CorpusBase, Sources, Loading, FromReload, Positions, Active, corpusVars
<1> QED BY <1>3, <1>4, <1>5, <1>6 DEF CorpusBase

LEMMA MutateInv == ASSUME CorpusBase, Mutate PROVE CorpusBase'
<1> USE DEF Mutate
<1>1. pc = "mutate" /\ pc' = "execute" /\ origin' = "mutate" /\ ~ Reporting
  BY DEF Reporting
<1>2. Counts' /\ Weights' /\ Reports' /\ Owners' /\ Files'
  BY <1>1, QuietFrame DEF Counting, Loading, Stops
<1>3. CorpusTypeOK'
  BY CorpusAssumption DEF CorpusBase, CorpusTypeOK, corpusVars, MoreMutations
<1>4. Phases' /\ NoAssertionFails'
  BY <1>1 DEF CorpusBase, Phases, NoAssertionFails, corpusVars
<1>5. Sources'
  BY <1>1 DEF CorpusBase, Sources, Loading, FromReload, Positions, Active, corpusVars
<1> QED BY <1>2, <1>3, <1>4, <1>5 DEF CorpusBase

LEMMA MutateDoneInv == ASSUME CorpusBase, MutateDone PROVE CorpusBase'
<1> USE DEF MutateDone
<1>1. pc = "mutate" /\ pc' = "loop" /\ ~ Reporting
  BY DEF Reporting
<1>2. Counts' /\ Weights' /\ Reports' /\ Owners' /\ Files'
  BY <1>1, QuietFrame DEF Counting, Loading, Stops
<1>3. CorpusTypeOK'
  BY DEF CorpusBase, CorpusTypeOK, corpusVars, runVars
<1>4. Phases' /\ NoAssertionFails'
  BY <1>1 DEF CorpusBase, Phases, NoAssertionFails, corpusVars, runVars
<1>5. Sources'
  BY <1>1 DEF CorpusBase, Sources, Loading, FromReload, Positions, Active, corpusVars, runVars
<1> QED BY <1>2, <1>3, <1>4, <1>5 DEF CorpusBase

LEMMA StopInv == ASSUME CorpusBase, Stop PROVE CorpusBase'
<1> USE DEF Stop
<1>1. pc' = "stopped"
  OBVIOUS
<1>2. Counts' /\ Weights' /\ Reports' /\ Owners' /\ Files'
  BY <1>1, QuietFrame DEF Counting, Loading, Stops
<1>3. CorpusTypeOK'
  BY DEF CorpusBase, CorpusTypeOK, corpusVars, runVars, Stops
<1>4. Phases' /\ NoAssertionFails'
  BY <1>1 DEF CorpusBase, Phases, NoAssertionFails, corpusVars, runVars
<1>5. Sources'
  BY <1>1 DEF CorpusBase, Sources, Loading, FromReload, Positions, Active, corpusVars, runVars
<1> QED BY <1>2, <1>3, <1>4, <1>5 DEF CorpusBase

LEMMA ExecuteInv == ASSUME CorpusBase, ExecuteCallback PROVE CorpusBase'
<1> USE DEF ExecuteCallback
<1>1. /\ pc = "execute" /\ pc' = "collect" /\ ~ Reporting /\ Reporting' /\ Res' = 0
      /\ Counting' <=> Counting
  BY DEF Reporting, Counting, Loading
<1>2. CorpusTypeOK'
  <2>1. reported' \subseteq Nat
    BY CorpusAssumption DEF CorpusBase, CorpusTypeOK
  <2> QED BY <2>1 DEF CorpusBase, CorpusTypeOK, corpusVars
<1>3. Phases' /\ NoAssertionFails'
  BY <1>1 DEF CorpusBase, Phases, NoAssertionFails, corpusVars
<1>4. Counts'
  <2> SUFFICES ASSUME Counting PROVE Counts'
    BY <1>1 DEF Counts
  <2>1. \A s \in Slots : GetFeature(s) # 0 => SmallestElementPerFeature[s] \in Positions
    BY <1>1 DEF CorpusBase, Counts, Stops
  <2>2. Len(Inputs) + 1 \notin Positions
    BY DEF CorpusBase, CorpusTypeOK, Positions
  <2>3. SlotsAt(InputSizesPerFeature, SmallestElementPerFeature, Len(Inputs) + 1) = {}
    BY <2>1, <2>2 DEF SlotsAt, GetFeature
  <2>4. Cardinality(SlotsAt(InputSizesPerFeature, SmallestElementPerFeature, Len(Inputs) + 1)) = 0
    BY <2>3, FS_EmptySet
  <2> QED BY <1>1, <2>1, <2>2, <2>4 DEF CorpusBase, Counts, Positions, GetFeature, corpusVars
<1>5. Weights'
  BY <1>1 DEF CorpusBase, Weights, Positions, GetFeature, Active, corpusVars, Stops
<1>6. Sources'
  BY <1>1 DEF CorpusBase, Sources, Loading, FromReload, Positions, Active, corpusVars
<1>7. Reports'
  <2>1. reported' \in Coverage'[U'] /\ reported' \ pending' = {}
    OBVIOUS
  <2>2. ~ Options.Benchmark => \A s \in Slots : GetFeature(s) # 0 => SmallestElementPerFeature[s] # Len(Inputs) + 1
    BY <1>1 DEF CorpusBase, CorpusTypeOK, Counts, Counting, Stops, Positions
  <2> QED BY <1>1, <2>1, <2>2 DEF Reports, GetFeature, corpusVars
<1>8. Owners' /\ Files'
  BY <1>1 DEF CorpusBase, Owners, Files, Deterministic, Positions, GetFeature, Active, corpusVars, Stops
<1> QED BY <1>2, <1>3, <1>4, <1>5, <1>6, <1>7, <1>8 DEF CorpusBase

\* A unit that took a slot is added.
LEMMA CollectDoneInv == ASSUME CorpusBase, CollectDone PROVE CorpusBase'
<1> USE DEF CollectDone
<1>1. pc = "collect" /\ pending = {} /\ Reporting
  BY DEF Reporting
<1>2. CASE pc' \in {"fill", "add"}
  <2>1. /\ Reporting' /\ (Counting' <=> Counting) /\ (FromReload' => FromReload)
    BY <1>1, <1>2 DEF Reporting, Counting, Loading, FromReload, runVars, CorpusBase, Phases, NeedsSlot, Resume
  <2>2. CorpusTypeOK'
    BY <1>2 DEF CorpusBase, CorpusTypeOK, corpusVars, runVars
  <2>3. Phases' /\ NoAssertionFails'
    BY <1>1, <1>2 DEF CorpusBase, CorpusTypeOK, Phases, NoAssertionFails, corpusVars, runVars, NeedsSlot,
       HasNewFeatures, Resume
  <2>4. Counts' /\ Weights'
    BY <1>1, <2>1 DEF CorpusBase, Counts, Weights, Positions, GetFeature, Active, corpusVars, runVars, Stops
  <2>5. Sources'
    BY <1>1, <1>2, <2>1 DEF CorpusBase, Sources, Loading, Positions, Active, corpusVars, runVars
  <2>6. Reports'
    BY <1>1, <2>1 DEF CorpusBase, Reports, GetFeature, corpusVars, runVars
  <2>7. Owners' /\ Files'
    BY <1>1, <1>2, <2>1 DEF CorpusBase, Owners, Files, Deterministic, Positions, GetFeature, Active, corpusVars,
       runVars, Stops
  <2> QED BY <2>2, <2>3, <2>4, <2>5, <2>6, <2>7 DEF CorpusBase
<1>3. CASE pc' = Resume /\ ~ NeedsSlot /\ (~ HasNewFeatures \/ NotAdded)
  <2>1. pc' \in {"load", "reload", "mutate"} /\ (pc' = "load" => origin = "initial")
        /\ (pc' = "reload" => origin = "reload") /\ (pc' # "load" => origin # "initial")
    BY <1>3 DEF Resume, CorpusBase, CorpusTypeOK
  <2>2. Counting' => Counting /\ Res = 0
    BY <1>1, <1>3, <2>1 DEF Counting, Loading, runVars, NeedsSlot, HasNewFeatures, NotAdded, CorpusBase, CorpusTypeOK
  <2>3. CorpusTypeOK'
    BY <2>1 DEF CorpusBase, CorpusTypeOK, corpusVars, runVars
  <2>4. Phases' /\ NoAssertionFails'
    BY <1>1, <2>1 DEF CorpusBase, Phases, NoAssertionFails, corpusVars, runVars
  <2>5. Sources'
    BY <1>1, <2>1 DEF CorpusBase, Sources, Loading, FromReload, Positions, Active, corpusVars, runVars
  <2>6. CASE Res = 0
    <3>1. Counts' /\ Weights' /\ Reports' /\ Owners' /\ Files'
      BY <1>1, <2>1, <2>2, <2>6, QuietFrame DEF Stops
    <3> QED BY <2>3, <2>4, <2>5, <3>1 DEF CorpusBase
  <2>7. CASE Res # 0
    <3>1. Options.Benchmark /\ ~ Counting'
      BY <1>3, <2>2, <2>7 DEF HasNewFeatures, NotAdded, CorpusBase, CorpusTypeOK
    <3>2. Counts' /\ Weights' /\ Reports' /\ Owners' /\ Files'
      BY <2>1, <3>1 DEF Counts, Weights, Reports, Owners, Files, Reporting, Counting
    <3> QED BY <2>3, <2>4, <2>5, <3>2 DEF CorpusBase
  <2> QED BY <2>6, <2>7
<1> QED BY <1>2, <1>3

-----------------------------------------------------------------------------
(* AddFeature *)

\* What the owner of slot s becomes when it loses the slot.
LEMMA LoseSlotFacts ==
  ASSUME CorpusTypeOK, NEW s \in Slots, NEW i \in Positions, i = SmallestElementPerFeature[s],
         Inputs[i].NumFeatures > 0, LoseSlot(s)
  PROVE  /\ Inputs' \in Seq([U : Units \cup {Evicted}, Sha1 : Units, NumFeatures : Nat, MayDeleteFile : BOOLEAN])
         /\ Len(Inputs') = Len(Inputs)
         /\ \A j \in Positions \ {i} : Inputs'[j] = Inputs[j]
         /\ Inputs'[i].NumFeatures = Inputs[i].NumFeatures - 1
         /\ Inputs'[i].Sha1 = Inputs[i].Sha1
         /\ Inputs'[i].U = IF Inputs[i].NumFeatures = 1 THEN Evicted ELSE Inputs[i].U
         /\ disk' = disk \/ (disk' = disk \ {Inputs[i].Sha1} /\ Inputs[i].NumFeatures = 1)
<1>1. Inputs \in Seq(Input) /\ Inputs[i] \in Input
  <2>1. Inputs \in Seq(Input)
    BY DEF CorpusTypeOK, Input
  <2> QED BY <2>1 DEF Positions
<1> DEFINE a == [Inputs[i] EXCEPT !.NumFeatures = @ - 1]
           b == [a EXCEPT !.U = IF IsLast(i) THEN Evicted ELSE @]
<1>2. Inputs' = [Inputs EXCEPT ![i] = b]
  BY <1>1 DEF LoseSlot, Positions
<1>3. /\ b.NumFeatures = Inputs[i].NumFeatures - 1 /\ b.Sha1 = Inputs[i].Sha1
      /\ b.U = IF Inputs[i].NumFeatures = 1 THEN Evicted ELSE Inputs[i].U
  BY <1>1 DEF Input, IsLast
<1>4. b \in Input
  <2>1. Inputs[i].NumFeatures - 1 \in Nat
    BY <1>1 DEF Input
  <2>2. a \in Input
    BY <1>1, <2>1 DEF Input
  <2> HIDE DEF a
  <2> QED BY <2>2 DEF Input
<1> HIDE DEF b
<1>5. Inputs' \in Seq(Input) /\ Len(Inputs') = Len(Inputs) /\ Inputs'[i] = b
      /\ \A j \in Positions \ {i} : Inputs'[j] = Inputs[j]
  BY <1>1, <1>2, <1>4 DEF Positions
<1>6. disk' = disk \/ (disk' = disk \ {Inputs[i].Sha1} /\ Inputs[i].NumFeatures = 1)
  BY DEF LoseSlot, DeletesFile, IsLast
<1> QED BY <1>3, <1>5, <1>6 DEF Input

\* The unit that is being run takes slot s, from nobody or from an input.  The input
\* is evicted with its last slot; a file that is deleted is of no other use.
LEMMA TakeInv ==
  ASSUME CorpusBase, NEW s \in Slots, pc \in {"collect", "fill"}, pc' \in {"collect", "add"},
         Takes(s), TakeSlot(s), Res' = Res + 1,
         UNCHANGED <<Options, Coverage, initial, origin, U, reported, queue, depth, runs>>,
         \/ GetFeature(s) = 0 /\ UNCHANGED <<Inputs, disk>>
         \/ /\ GetFeature(s) # 0 /\ SmallestElementPerFeature[s] \in Positions
            /\ Inputs[SmallestElementPerFeature[s]].NumFeatures > 0 /\ LoseSlot(s),
         pending' \subseteq pending,
         ~ Options.Benchmark =>
           pc = "collect" /\ pc' = "collect" /\ \E f \in reported : s = SlotOf(f) /\ pending' = pending \ {f}
  PROVE  CorpusTypeOK' /\ Counts' /\ Weights' /\ Sources' /\ Reports' /\ Owners' /\ Files'
<1> DEFINE p == SmallestElementPerFeature[s]
           n == Len(Inputs)
<1>1. /\ CorpusTypeOK /\ Reporting /\ Reporting' /\ (Loading' <=> Loading) /\ (Counting' <=> Counting)
      /\ Options' = Options /\ Coverage' = Coverage /\ initial' = initial /\ origin' = origin /\ U' = U
      /\ reported' = reported /\ queue' = queue /\ Hashes' = Hashes /\ weighted' = weighted
  BY DEF CorpusBase, Reporting, Loading, Counting, TakeSlot
<1>2. /\ Size[U] \in Nat \ {0} /\ n \in Nat
      /\ InputSizesPerFeature' = [InputSizesPerFeature EXCEPT ![s] = Size[U]]
      /\ SmallestElementPerFeature' = [SmallestElementPerFeature EXCEPT ![s] = n + 1]
      /\ CountingFeatures' = TRUE
  BY <1>1, CorpusAssumption DEF CorpusTypeOK, TakeSlot, NewPosition
<1>3. /\ InputSizesPerFeature' \in [Slots -> Nat] /\ SmallestElementPerFeature' \in [Slots -> Nat]
      /\ InputSizesPerFeature'[s] = Size[U] /\ SmallestElementPerFeature'[s] = n + 1
      /\ \A t \in Slots \ {s} : InputSizesPerFeature'[t] = InputSizesPerFeature[t]
                                /\ SmallestElementPerFeature'[t] = SmallestElementPerFeature[t]
  BY <1>1, <1>2 DEF CorpusTypeOK
<1>4. /\ Inputs' \in Seq([U : Units \cup {Evicted}, Sha1 : Units, NumFeatures : Nat, MayDeleteFile : BOOLEAN])
      /\ Len(Inputs') = n /\ Positions' = Positions
      /\ \A j \in Positions : Inputs'[j].Sha1 = Inputs[j].Sha1 /\ Inputs'[j].U \in {Inputs[j].U, Evicted}
      /\ \A j \in Positions : ~ (GetFeature(s) # 0 /\ j = p) => Inputs'[j] = Inputs[j]
  <2>1. CASE GetFeature(s) = 0
    BY <1>1, <2>1 DEF Positions, CorpusTypeOK
  <2>2. CASE GetFeature(s) # 0
    <3>1. p \in Positions /\ Inputs[p].NumFeatures > 0 /\ LoseSlot(s)
      BY <2>2
    <3>2. /\ Inputs' \in Seq([U : Units \cup {Evicted}, Sha1 : Units, NumFeatures : Nat, MayDeleteFile : BOOLEAN])
          /\ Len(Inputs') = Len(Inputs)
          /\ \A j \in Positions \ {p} : Inputs'[j] = Inputs[j]
          /\ Inputs'[p].Sha1 = Inputs[p].Sha1 /\ Inputs'[p].U \in {Inputs[p].U, Evicted}
      BY <1>1, <3>1, LoseSlotFacts
    <3> HIDE DEF p
    <3> QED BY <2>2, <3>1, <3>2 DEF Positions
  <2> QED BY <2>1, <2>2
<1>5. GetFeature(s) # 0 =>
        /\ p \in Positions /\ Inputs[p].NumFeatures > 0
        /\ Inputs'[p].NumFeatures = Inputs[p].NumFeatures - 1
        /\ Inputs'[p].U = IF Inputs[p].NumFeatures = 1 THEN Evicted ELSE Inputs[p].U
        /\ Options.Shrink /\ GetFeature(s) > Size[U]
  BY <1>1, LoseSlotFacts DEF Takes
<1>6. disk' = disk \/ (GetFeature(s) # 0 /\ disk' = disk \ {Inputs[p].Sha1} /\ Inputs'[p].U = Evicted)
  BY <1>1, <1>5, LoseSlotFacts
<1>7. Evicted \notin Units /\ U \in Units /\ \A j \in Positions : Inputs[j].NumFeatures \in Nat
  BY <1>1, CorpusAssumption, InputTypes DEF CorpusTypeOK
<1>8. CorpusTypeOK'
  <2>1. disk' \subseteq Units
    BY <1>1, <1>6 DEF CorpusTypeOK
  <2>2. Res' \in Nat /\ weighted' \subseteq 1..Len(Inputs')
    BY <1>1, <1>4 DEF CorpusTypeOK
  <2> QED BY <1>1, <1>2, <1>3, <1>4, <2>1, <2>2 DEF CorpusTypeOK
<1>9. Counts'
  <2> SUFFICES ASSUME Counting PROVE Counts'
    BY <1>1 DEF Counts
  <2> DEFINE S(i) == SlotsAt(InputSizesPerFeature, SmallestElementPerFeature, i)
             T(i) == SlotsAt(InputSizesPerFeature', SmallestElementPerFeature', i)
  <2>1. \A i : S(i) \in SUBSET Slots /\ (s \in S(i) <=> GetFeature(s) # 0 /\ i = p)
    BY DEF SlotsAt, GetFeature
  <2>2. \A i \in Nat : T(i) = IF i = n + 1 THEN S(i) \cup {s} ELSE S(i) \ {s}
    <3>1. /\ InputSizesPerFeature'[s] # 0 /\ SmallestElementPerFeature'[s] = n + 1
          /\ \A t \in Slots \ {s} : /\ InputSizesPerFeature'[t] = InputSizesPerFeature[t]
                                   /\ SmallestElementPerFeature'[t] = SmallestElementPerFeature[t]
      BY <1>2, <1>3
    <3> HIDE DEF n
    <3> SUFFICES ASSUME NEW i \in Nat PROVE T(i) = IF i = n + 1 THEN S(i) \cup {s} ELSE S(i) \ {s}
      OBVIOUS
    <3>2. CASE i = n + 1
      BY <3>1, <3>2 DEF SlotsAt
    <3>3. CASE i # n + 1
      BY <3>1, <3>3 DEF SlotsAt
    <3> QED BY <3>2, <3>3
  <2>3. /\ \A i \in Positions : Inputs[i].NumFeatures = Cardinality(S(i))
                                /\ (Inputs[i].U = Evicted <=> Inputs[i].NumFeatures = 0)
        /\ Res = Cardinality(S(n + 1))
        /\ GetFeature(s) # 0 => p # n + 1
        /\ \A t \in Slots : GetFeature(t) # 0 /\ SmallestElementPerFeature[t] = n + 1 => GetFeature(t) = Size[U]
        /\ \A t \in Slots : GetFeature(t) # 0 =>
             SmallestElementPerFeature[t] \in Positions \/ SmallestElementPerFeature[t] = n + 1
    BY <1>1, <1>2, <1>5 DEF CorpusBase, Counts, Stops, Positions
  <2> HIDE DEF S, T
  <2>4. \A i \in Positions : Inputs'[i].NumFeatures = Cardinality(T(i))
    <3> SUFFICES ASSUME NEW i \in Positions PROVE Inputs'[i].NumFeatures = Cardinality(T(i))
      OBVIOUS
    <3>1. T(i) = S(i) \ {s}
      BY <1>2, <2>2 DEF Positions
    <3>2. CASE GetFeature(s) # 0 /\ i = p
      <4>1. s \in S(i) /\ S(i) \in SUBSET Slots
        BY <2>1, <3>2
      <4>2. Cardinality(S(i) \ {s}) = Cardinality(S(i)) - 1
        BY <4>1, SlotSets
      <4> QED BY <1>5, <2>3, <3>1, <3>2, <4>2
    <3>3. CASE ~ (GetFeature(s) # 0 /\ i = p)
      <4>1. S(i) \ {s} = S(i)
        BY <2>1, <3>3
      <4> QED BY <1>4, <2>3, <3>1, <3>3, <4>1
    <3> QED BY <3>2, <3>3
  <2>5. \A i \in Positions : Inputs'[i].U = Evicted <=> Inputs'[i].NumFeatures = 0
    <3> SUFFICES ASSUME NEW i \in Positions PROVE Inputs'[i].U = Evicted <=> Inputs'[i].NumFeatures = 0
      OBVIOUS
    <3>1. CASE GetFeature(s) # 0 /\ i = p
      <4>1. Inputs[i].U = Evicted <=> Inputs[i].NumFeatures = 0
        BY <2>3
      <4>2. /\ Inputs[i].NumFeatures \in Nat /\ Inputs[i].NumFeatures > 0
            /\ Inputs'[i].NumFeatures = Inputs[i].NumFeatures - 1
            /\ Inputs'[i].U = IF Inputs[i].NumFeatures = 1 THEN Evicted ELSE Inputs[i].U
        BY <1>5, <1>7, <3>1
      <4> HIDE DEF p, n
      <4> QED BY <4>1, <4>2
    <3>2. CASE ~ (GetFeature(s) # 0 /\ i = p)
      BY <1>4, <2>3, <3>2
    <3> QED BY <3>1, <3>2
  <2>6. Res' = Cardinality(T(n + 1))
    <3>1. s \in Slots \ S(n + 1) /\ S(n + 1) \in SUBSET Slots
      BY <2>1, <2>3
    <3>2. Cardinality(S(n + 1) \cup {s}) = Cardinality(S(n + 1)) + 1
      BY <3>1, SlotSets
    <3>3. T(n + 1) = S(n + 1) \cup {s}
      BY <1>2, <2>2
    <3> QED BY <2>3, <3>2, <3>3
  <2>7. \A t \in Slots : InputSizesPerFeature'[t] # 0 /\ SmallestElementPerFeature'[t] = n + 1 =>
          InputSizesPerFeature'[t] = Size[U]
    BY <1>3, <2>3 DEF GetFeature
  <2>8. \A t \in Slots : InputSizesPerFeature'[t] # 0 =>
          SmallestElementPerFeature'[t] \in Positions \/ SmallestElementPerFeature'[t] = n + 1
    BY <1>3, <2>3 DEF GetFeature
  <2> QED BY <1>1, <1>4, <2>4, <2>5, <2>6, <2>7, <2>8 DEF Counts, T, GetFeature
<1>10. Weights'
  BY <1>1, <1>2, <1>3 DEF Weights, GetFeature, CorpusTypeOK
<1>11. Sources'
  <2>1. FromReload' => FromReload
    BY <1>1 DEF FromReload, CorpusBase, Phases
  <2>2. FromReload => queue \ Hashes \subseteq disk' /\ U \in disk' \ Hashes
    BY <1>5, <1>6 DEF CorpusBase, Sources
  <2>3. \A j \in Positions : Inputs[j].Sha1 \in Hashes /\ (Active(j) => Inputs[j].U = Inputs[j].Sha1)
    BY DEF CorpusBase, Sources
  <2>4. Loading => queue \subseteq initial /\ U \in initial
    BY DEF CorpusBase, Sources
  <2> QED BY <1>1, <1>4, <2>1, <2>2, <2>3, <2>4 DEF Sources, Active
<1>12. Reports'
  <2>1. reported \in Coverage[U]
    BY <1>1 DEF CorpusBase, Reports
  <2>2. ASSUME ~ Options.Benchmark
        PROVE  /\ \A t \in Slots : InputSizesPerFeature'[t] # 0 /\ SmallestElementPerFeature'[t] = n + 1 =>
                    \E f \in reported : t = SlotOf(f)
               /\ \A f \in reported \ pending' : InputSizesPerFeature'[SlotOf(f)] # 0
                    /\ (Options.Shrink => InputSizesPerFeature'[SlotOf(f)] <= Size[U])
    <3>1. /\ \A t \in Slots : GetFeature(t) # 0 /\ SmallestElementPerFeature[t] = n + 1 =>
               \E f \in reported : t = SlotOf(f)
          /\ \A f \in reported \ pending : GetFeature(SlotOf(f)) # 0
               /\ (Options.Shrink => GetFeature(SlotOf(f)) <= Size[U])
      BY <1>1, <2>2 DEF CorpusBase, Reports
    <3>2. PICK f \in reported : s = SlotOf(f) /\ pending' = pending \ {f}
      BY <2>2
    <3>3. \A g \in reported : SlotOf(g) \in Slots
      BY <1>1, SlotOfType DEF CorpusTypeOK
    <3>4. \A t \in Slots : InputSizesPerFeature'[t] # 0 /\ SmallestElementPerFeature'[t] = n + 1 =>
                    \E g \in reported : t = SlotOf(g)
      BY <1>3, <3>1, <3>2 DEF GetFeature
    <3>5. ASSUME NEW g \in reported \ pending'
          PROVE  /\ InputSizesPerFeature'[SlotOf(g)] # 0
                 /\ (Options.Shrink => InputSizesPerFeature'[SlotOf(g)] <= Size[U])
      <4>1. CASE SlotOf(g) = s
        BY <1>2, <1>3, <4>1
      <4>2. CASE SlotOf(g) # s
        <5>1. g \in reported \ pending
          BY <3>2, <3>5, <4>2
        <5> QED BY <1>3, <3>1, <3>3, <4>2, <5>1 DEF GetFeature
      <4> QED BY <4>1, <4>2
    <3> QED BY <3>4, <3>5
  <2> QED BY <1>1, <1>4, <2>1, <2>2 DEF Reports, GetFeature
<1>13. ASSUME ~ Options.Benchmark, Deterministic
       PROVE  /\ \A i \in Positions : \A t \in Slots :
                   GetFeature(t) # 0 /\ SmallestElementPerFeature[t] = i =>
                     Has(Coverage, Inputs[i].U, t) /\ GetFeature(t) = Size[Inputs[i].U]
              /\ \A i \in Positions : Active(i) => \A t \in Slots : Has(Coverage, Inputs[i].U, t) =>
                   GetFeature(t) # 0 /\ (Options.Shrink => GetFeature(t) <= Size[Inputs[i].U])
              /\ \A i, j \in Positions : Active(i) /\ Inputs[i].U = Inputs[j].U => i = j
              /\ Counting
  BY <1>13 DEF CorpusBase, Owners, Counting
<1>14. Owners'
  <2> SUFFICES ASSUME ~ Options.Benchmark, Deterministic PROVE Owners'
    BY <1>1 DEF Owners, Deterministic
  <2>1. ASSUME NEW i \in Positions, NEW t \in Slots, InputSizesPerFeature'[t] # 0, SmallestElementPerFeature'[t] = i
        PROVE  Has(Coverage, Inputs'[i].U, t) /\ InputSizesPerFeature'[t] = Size[Inputs'[i].U]
    <3>1. t # s
      BY <1>2, <1>3, <2>1 DEF Positions
    <3>2. GetFeature(t) # 0 /\ SmallestElementPerFeature[t] = i
      BY <1>3, <2>1, <3>1 DEF GetFeature
    <3>3. t \in SlotsAt(InputSizesPerFeature', SmallestElementPerFeature', i)
          /\ SlotsAt(InputSizesPerFeature', SmallestElementPerFeature', i) \in SUBSET Slots
      BY <2>1 DEF SlotsAt
    <3>4. Cardinality(SlotsAt(InputSizesPerFeature', SmallestElementPerFeature', i)) # 0
      BY <3>3, SlotSets
    <3>5. Inputs'[i].U # Evicted
      BY <1>1, <1>4, <1>9, <1>13, <3>4 DEF Counts
    <3>6. Inputs'[i].U = Inputs[i].U
      BY <1>4, <3>5
    <3> QED BY <1>3, <1>13, <3>1, <3>2, <3>6 DEF GetFeature
  <2>2. ASSUME NEW i \in Positions, Inputs'[i].U # Evicted, NEW t \in Slots, Has(Coverage, Inputs'[i].U, t)
        PROVE  InputSizesPerFeature'[t] # 0 /\ (Options.Shrink => InputSizesPerFeature'[t] <= Size[Inputs'[i].U])
    <3>1. Inputs'[i].U = Inputs[i].U /\ Active(i)
      BY <1>4, <2>2 DEF Active
    <3>2. GetFeature(t) # 0 /\ (Options.Shrink => GetFeature(t) <= Size[Inputs[i].U])
      BY <1>13, <2>2, <3>1
    <3>3. Inputs[i].U \in Units /\ Size[Inputs[i].U] \in Nat /\ GetFeature(t) \in Nat
      BY <1>1, <3>1, InputTypes, CorpusAssumption DEF CorpusTypeOK, Active, GetFeature
    <3> QED BY <1>2, <1>3, <1>5, <3>1, <3>2, <3>3 DEF GetFeature
  <2>3. \A i \in Positions : Inputs'[i].U # U
    <3> SUFFICES ASSUME NEW i \in Positions, Inputs'[i].U = U PROVE FALSE
      OBVIOUS
    <3>1. Inputs[i].U = U /\ Active(i)
      BY <1>4, <1>7 DEF Active
    <3>2. Has(Coverage, U, s)
      BY <1>1 DEF CorpusBase, Reports, Has
    <3>3. GetFeature(s) # 0 /\ (Options.Shrink => GetFeature(s) <= Size[U])
      BY <1>13, <3>1, <3>2
    <3>4. GetFeature(s) \in Nat
      BY <1>1 DEF CorpusTypeOK, GetFeature
    <3> QED BY <1>2, <1>5, <3>3, <3>4
  <2>4. \A i, j \in Positions : Inputs'[i].U # Evicted /\ Inputs'[i].U = Inputs'[j].U => i = j
    BY <1>4, <1>13 DEF Active
  <2> QED BY <1>1, <1>4, <2>1, <2>2, <2>3, <2>4 DEF Owners, GetFeature, Active
<1>15. Files'
  <2> SUFFICES ASSUME ~ Options.Benchmark, Deterministic, NEW i \in Positions, Inputs'[i].U # Evicted
      PROVE  Inputs'[i].U \in disk' \cup initial
    BY <1>1, <1>4 DEF Files, Deterministic, Active
  <2>1. Inputs'[i].U = Inputs[i].U /\ Active(i)
    BY <1>4 DEF Active
  <2>2. Inputs[i].U \in disk \cup initial
    BY <2>1 DEF CorpusBase, Files, Stops
  <2>3. ASSUME GetFeature(s) # 0, disk' = disk \ {Inputs[p].Sha1}, Inputs'[p].U = Evicted
        PROVE  Inputs[i].U # Inputs[p].Sha1
    <3>1. Inputs[p].U # Evicted
      BY <1>5, <1>13, <2>3 DEF CorpusBase, Counts
    <3>2. Inputs[p].U = Inputs[p].Sha1
      BY <1>5, <2>3, <3>1 DEF CorpusBase, Sources, Active
    <3>3. i # p
      BY <2>3
    <3> QED BY <1>5, <1>13, <2>1, <2>3, <3>2, <3>3
  <2> QED BY <1>6, <2>1, <2>2, <2>3
<1> QED BY <1>8, <1>9, <1>10, <1>11, <1>12, <1>14, <1>15

\* As long as the counts are right, the owner of a slot that is taken away is an
\* input, and has a slot to lose.
LEMMA OwnerExists ==
  ASSUME CorpusBase, Counting, Reporting, NEW s \in Slots, Takes(s), GetFeature(s) # 0
  PROVE  /\ SmallestElementPerFeature[s] \in Positions
         /\ Inputs[SmallestElementPerFeature[s]].NumFeatures > 0
<1> DEFINE p == SmallestElementPerFeature[s]
           S == SlotsAt(InputSizesPerFeature, SmallestElementPerFeature, p)
<1>1. /\ p \in Positions \/ p = Len(Inputs) + 1
      /\ p = Len(Inputs) + 1 => GetFeature(s) = Size[U]
  BY DEF CorpusBase, Counts, Reporting, Stops
<1>2. GetFeature(s) > Size[U] /\ Size[U] \in Nat
  BY CorpusAssumption DEF Takes, CorpusBase, CorpusTypeOK
<1>3. p \in Positions
  BY <1>1, <1>2
<1>4. s \in S /\ S \in SUBSET Slots
  BY DEF SlotsAt, GetFeature
<1>5. Cardinality(S) # 0 /\ Cardinality(S) \in Nat
  BY <1>4, SlotSets
<1>6. Inputs[p].NumFeatures = Cardinality(S)
  BY <1>3 DEF CorpusBase, Counts
<1> QED BY <1>3, <1>5, <1>6

LEMMA ReportFeatureInv == ASSUME CorpusBase, ReportFeature PROVE CorpusBase'
<1>1. PICK f \in pending : AddFeature(SlotOf(f)) /\ pending' = pending \ {f}
  BY DEF ReportFeature, SlotOf
<1>2. /\ pc = "collect" /\ Reporting
      /\ UNCHANGED <<Options, Coverage, initial, origin, U, reported, queue, depth, runs>>
  BY DEF ReportFeature, Reporting
<1>3. f \in reported /\ SlotOf(f) \in Slots /\ CorpusTypeOK
  BY SlotOfType DEF CorpusBase, CorpusTypeOK
<1> DEFINE s == SlotOf(f)
<1> HIDE DEF s
<1>4. f \in reported /\ s \in Slots /\ AddFeature(s)
  BY <1>1, <1>3 DEF s
<1>5. CASE ~ Takes(s) /\ Res' = Res /\ pc' = pc /\ UNCHANGED <<corpusVars, disk>>
  <2>1. CorpusTypeOK'
    BY <1>1, <1>2, <1>3, <1>5 DEF CorpusTypeOK, corpusVars
  <2>2. Phases' /\ NoAssertionFails'
    BY <1>2, <1>5 DEF CorpusBase, Phases, NoAssertionFails, corpusVars
  <2>3. Counts' /\ Weights'
    BY <1>2, <1>5 DEF CorpusBase, Counts, Counting, Loading, Weights, Positions, GetFeature, Active, Reporting,
       corpusVars
  <2>4. Sources'
    BY <1>2, <1>5 DEF CorpusBase, Sources, Loading, FromReload, Positions, Active, corpusVars
  <2>5. Reports'
    <3>1. GetFeature(s) # 0 /\ (Options.Shrink => GetFeature(s) <= Size[U])
      BY <1>3, <1>4, <1>5, CorpusAssumption DEF Takes, CorpusTypeOK, GetFeature
    <3> QED BY <1>1, <1>2, <1>5, <3>1 DEF CorpusBase, Reports, Reporting, GetFeature, corpusVars, s
  <2>6. Owners' /\ Files'
    BY <1>2, <1>5 DEF CorpusBase, Owners, Files, Deterministic, Positions, GetFeature, Active, Reporting, corpusVars
  <2> QED BY <2>1, <2>2, <2>3, <2>4, <2>5, <2>6 DEF CorpusBase
<1>6. CASE /\ Takes(s) /\ Res' = Res + 1 /\ pc' = pc /\ TakeSlot(s)
           /\ \/ GetFeature(s) = 0 /\ UNCHANGED <<Inputs, disk>>
              \/ /\ GetFeature(s) # 0 /\ SmallestElementPerFeature[s] \in Positions
                 /\ Inputs[SmallestElementPerFeature[s]].NumFeatures > 0 /\ LoseSlot(s)
  <2>1. pending' \subseteq pending
    BY <1>1
  <2>2. \E g \in reported : s = SlotOf(g) /\ pending' = pending \ {g}
    BY <1>1, <1>3 DEF s
  <2>3. CorpusTypeOK' /\ Counts' /\ Weights' /\ Sources' /\ Reports' /\ Owners' /\ Files'
    BY <1>2, <1>4, <1>6, <2>1, <2>2, TakeInv
  <2>4. Phases' /\ NoAssertionFails'
    <3>1. Inputs # <<>> => Inputs' # <<>>
      <4>1. CASE GetFeature(s) = 0
        BY <1>6, <4>1
      <4>2. CASE GetFeature(s) # 0
        <5>1. Len(Inputs') = Len(Inputs)
          BY <1>3, <1>4, <1>6, <4>2, LoseSlotFacts
        <5> QED BY <1>3, <2>3, <5>1 DEF CorpusTypeOK
      <4> QED BY <4>1, <4>2
    <3> QED BY <1>2, <1>6, <3>1 DEF CorpusBase, Phases, NoAssertionFails
  <2> QED BY <2>3, <2>4 DEF CorpusBase
<1>7. CASE /\ Takes(s) /\ GetFeature(s) # 0 /\ Res' = Res /\ UNCHANGED <<corpusVars, disk>>
           /\ \/ /\ SmallestElementPerFeature[s] \in Positions /\ pc' = "aborted"
                 /\ ~ (Inputs[SmallestElementPerFeature[s]].NumFeatures > 0)
              \/ SmallestElementPerFeature[s] \notin Positions /\ pc' = "undefined"
  <2>1. ~ Counting
    BY <1>2, <1>4, <1>7, OwnerExists
  <2>2. Options.Benchmark
    BY <2>1 DEF Counting
  <2>3. pc' \in {"aborted", "undefined"}
    BY <1>7
  <2>4. CorpusTypeOK'
    BY <1>1, <1>2, <1>3, <1>7 DEF CorpusTypeOK, corpusVars, Stops
  <2>5. Phases' /\ NoAssertionFails'
    BY <1>2, <2>2, <2>3 DEF Phases, NoAssertionFails
  <2>6. Counts' /\ Weights' /\ Reports' /\ Owners' /\ Files'
    BY <1>2, <2>2, <2>3 DEF Counts, Counting, Loading, Weights, Reports, Owners, Files, Reporting
  <2>7. Sources'
    BY <1>2, <1>7, <2>3 DEF CorpusBase, Sources, Loading, FromReload, Positions, Active, corpusVars
  <2> QED BY <2>4, <2>5, <2>6, <2>7 DEF CorpusBase
<1> QED BY <1>4, <1>5, <1>6, <1>7 DEF AddFeature, Positions

LEMMA FillSlotInv == ASSUME CorpusBase, FillSlot PROVE CorpusBase'
<1>1. PICK s \in Slots : /\ Takes(s) /\ TakeSlot(s)
                         /\ IF GetFeature(s) = 0 THEN UNCHANGED <<Inputs, disk>> ELSE LoseSlot(s)
  BY DEF FillSlot
<1>2. /\ pc = "fill" /\ pc' = "add" /\ Res' = 1 /\ Res = 0 /\ Reporting
      /\ Options.Benchmark /\ origin = "initial" /\ Counting
      /\ UNCHANGED <<Options, Coverage, initial, origin, U, reported, pending, queue, depth, runs>>
  BY DEF FillSlot, CorpusBase, Phases, Reporting, Counting, Loading
<1>3. GetFeature(s) # 0 => SmallestElementPerFeature[s] \in Positions
                           /\ Inputs[SmallestElementPerFeature[s]].NumFeatures > 0
  BY <1>1, <1>2, OwnerExists
<1>4. CorpusTypeOK' /\ Counts' /\ Weights' /\ Sources' /\ Reports' /\ Owners' /\ Files'
  BY <1>1, <1>2, <1>3, TakeInv
<1>5. Phases' /\ NoAssertionFails'
  BY <1>2 DEF CorpusBase, Phases, NoAssertionFails
<1> QED BY <1>4, <1>5 DEF CorpusBase

LEMMA OtherProcessInv == ASSUME CorpusBase, OtherProcess PROVE CorpusBase'
<1>1. disk \subseteq disk' /\ disk' \subseteq Units
  BY CorpusAssumption DEF OtherProcess, CorpusBase, CorpusTypeOK
<1> QED BY <1>1, DirectoryFrame DEF OtherProcess

\* The unit that took slots becomes an input.  ValidateFeatureSet holds, for its
\* position is the one the slots already point to.
LEMMA AddToCorpusInv == ASSUME CorpusBase, AddToCorpus PROVE CorpusBase'
<1> DEFINE n == Len(Inputs)
           a == [U |-> U, Sha1 |-> U, NumFeatures |-> Res, MayDeleteFile |-> origin = "mutate"]
<1>1. /\ pc = "add" /\ Reporting /\ Res \in Nat \ {0} /\ n \in Nat /\ CorpusTypeOK
      /\ U \in Units /\ U # Evicted
  <2>1. pc = "add" /\ Reporting
    BY DEF AddToCorpus, Reporting
  <2>2. CorpusTypeOK /\ Res \in Nat /\ U \in Units /\ n \in Nat
    BY DEF CorpusBase, CorpusTypeOK
  <2>3. Res > 0
    BY <2>1 DEF CorpusBase, Phases
  <2> QED BY <2>1, <2>2, <2>3, CorpusAssumption
<1>2. /\ Options' = Options /\ Coverage' = Coverage /\ initial' = initial /\ disk' = disk
      /\ InputSizesPerFeature' = InputSizesPerFeature
      /\ SmallestElementPerFeature' = SmallestElementPerFeature /\ CountingFeatures' = CountingFeatures
      /\ origin' = origin /\ U' = U /\ reported' = reported
      /\ pending' = pending /\ Res' = Res /\ queue' = queue /\ depth' = depth /\ runs' = runs
      /\ Hashes' = Hashes \cup {U}
  BY DEF AddToCorpus, runVars
<1>3. Inputs \in Seq(Input) /\ a \in Input
  BY <1>1 DEF CorpusTypeOK, Input
<1>4. a.U = U /\ a.Sha1 = U /\ a.NumFeatures = Res
  OBVIOUS
<1>5. Inputs' = Append(Inputs, a)
  BY DEF AddToCorpus
<1> HIDE DEF a
<1>6. /\ Inputs' \in Seq(Input) /\ Len(Inputs') = n + 1 /\ Inputs'[n + 1] = a
      /\ \A i \in Positions : Inputs'[i] = Inputs[i]
      /\ Positions' = Positions \cup {n + 1} /\ n + 1 \notin Positions
      /\ Inputs' # <<>>
  BY <1>1, <1>3, <1>5 DEF Positions
<1>7. Counting => /\ \A i \in 1..Len(Inputs') : Inputs'[i].NumFeatures = Cardinality(Owned(i))
                  /\ \A s \in Slots : GetFeature(s) # 0 => SmallestElementPerFeature[s] \in 1..Len(Inputs')
  <2> SUFFICES ASSUME Counting
      PROVE  /\ \A i \in 1..Len(Inputs') : Inputs'[i].NumFeatures = Cardinality(Owned(i))
             /\ \A s \in Slots : GetFeature(s) # 0 => SmallestElementPerFeature[s] \in 1..Len(Inputs')
    OBVIOUS
  <2>1. /\ \A i \in Positions : Inputs[i].NumFeatures =
             Cardinality(SlotsAt(InputSizesPerFeature, SmallestElementPerFeature, i))
        /\ Res = Cardinality(SlotsAt(InputSizesPerFeature, SmallestElementPerFeature, n + 1))
        /\ \A s \in Slots : GetFeature(s) # 0 =>
             SmallestElementPerFeature[s] \in Positions \/ SmallestElementPerFeature[s] = n + 1
    BY <1>1 DEF CorpusBase, Counts, Stops
  <2>2. \A i \in Positions : Inputs'[i].NumFeatures = Cardinality(Owned(i))
    BY <1>6, <2>1, OwnedIsSlotsAt
  <2>3. Inputs'[n + 1].NumFeatures = Cardinality(Owned(n + 1))
    BY <1>4, <1>6, <2>1, OwnedIsSlotsAt
  <2>4. 1..Len(Inputs') = Positions \cup {n + 1}
    BY <1>6 DEF Positions
  <2> QED BY <2>1, <2>2, <2>3, <2>4
<1>8. Counting => Valid(Inputs')
  BY <1>7 DEF Valid
<1>9. /\ pc' \in {"aborted", "write", "load", "reload"}
      /\ Counting => pc' # "aborted"
      /\ pc' = "write" => origin = "mutate"
      /\ pc' = "load" => origin = "initial"
      /\ pc' = "reload" => origin = "reload"
      /\ ~ Reporting'
  <2>1. origin \in {"initial", "reload", "mutate"}
    BY <1>1 DEF CorpusTypeOK
  <2>2. pc' = CASE ~ Valid(Inputs') -> "aborted"
                [] Valid(Inputs') /\ origin = "mutate" -> "write"
                [] OTHER -> Resume
    BY DEF AddToCorpus
  <2>3. CASE ~ Valid(Inputs')
    BY <1>8, <2>2, <2>3 DEF Reporting
  <2>4. CASE Valid(Inputs') /\ origin = "mutate"
    BY <2>2, <2>4 DEF Reporting
  <2>5. CASE Valid(Inputs') /\ origin # "mutate"
    BY <2>1, <2>2, <2>5 DEF Reporting, Resume
  <2> QED BY <2>3, <2>4, <2>5
<1>10. Counting' => Counting
  BY <1>1, <1>2, <1>9 DEF Counting, Loading
<1>11. CorpusTypeOK'
  <2>1. weighted' \subseteq 1..Len(Inputs')
    BY DEF AddToCorpus, Weighted
  <2>2. Hashes' \subseteq Units
    BY <1>1, <1>2 DEF CorpusTypeOK
  <2>3. pc' \in {"load", "execute", "collect", "fill", "add", "write", "loop", "reload", "mutate"} \cup Stops
    BY <1>9 DEF Stops
  <2>4. Inputs' \in Seq([U : Units \cup {Evicted}, Sha1 : Units, NumFeatures : Nat, MayDeleteFile : BOOLEAN])
    BY <1>6 DEF Input
  <2> QED BY <1>1, <1>2, <2>1, <2>2, <2>3, <2>4 DEF CorpusTypeOK
<1>12. Phases' /\ NoAssertionFails'
  BY <1>1, <1>2, <1>6, <1>9 DEF CorpusBase, Phases, NoAssertionFails, Counting
<1>13. Counts'
  <2> SUFFICES ASSUME Counting PROVE Counts'
    BY <1>10 DEF Counts
  <2>1. \A i \in Positions' : Inputs'[i].NumFeatures =
          Cardinality(SlotsAt(InputSizesPerFeature, SmallestElementPerFeature, i))
    BY <1>7, OwnedIsSlotsAt DEF Positions
  <2>2. \A i \in Positions : Inputs[i].U = Evicted <=> Inputs[i].NumFeatures = 0
    BY DEF CorpusBase, Counts
  <2>3. \A i \in Positions' : Inputs'[i].U = Evicted <=> Inputs'[i].NumFeatures = 0
    BY <1>1, <1>4, <1>6, <2>2
  <2>4. \A s \in Slots : InputSizesPerFeature[s] # 0 => SmallestElementPerFeature[s] \in Positions'
    BY <1>7 DEF Positions, GetFeature
  <2> QED BY <1>2, <1>9, <2>1, <2>3, <2>4 DEF Counts, GetFeature
<1>14. Weights'
  <2> SUFFICES ASSUME ~ Options.Benchmark PROVE Weights'
    BY <1>2 DEF Weights
  <2>1. Counting /\ Counting'
    BY <1>2 DEF Counting
  <2>2. \E s \in Slots : GetFeature(s) # 0
    <3>1. Res = Cardinality(SlotsAt(InputSizesPerFeature, SmallestElementPerFeature, n + 1))
      BY <1>1, <2>1 DEF CorpusBase, Counts
    <3>2. SlotsAt(InputSizesPerFeature, SmallestElementPerFeature, n + 1) \in SUBSET Slots
      BY DEF SlotsAt
    <3>3. SlotsAt(InputSizesPerFeature, SmallestElementPerFeature, n + 1) # {}
      BY <1>1, <3>1, <3>2, SlotSets
    <3> QED BY <3>3 DEF SlotsAt, GetFeature
  <2>3. CountingFeatures
    BY <2>2 DEF CorpusBase, Weights
  <2>4. weighted' = {i \in Positions' : Inputs'[i].NumFeatures > 0}
    BY <2>3 DEF AddToCorpus, Weighted, Positions
  <2>5. \A i \in Positions' : Inputs'[i].NumFeatures \in Nat
    BY <1>6, <1>11, <1>1, <1>4, InputTypes
  <2>6. \A i \in Positions' : Inputs'[i].U = Evicted <=> Inputs'[i].NumFeatures = 0
    BY <1>13, <2>1 DEF Counts
  <2>7. weighted' = {i \in Positions' : Inputs'[i].U # Evicted}
    BY <2>4, <2>5, <2>6
  <2> QED BY <1>2, <2>2, <2>3, <2>7 DEF Weights, GetFeature, Active
<1>15. Sources'
  <2>1. \A i \in Positions : Inputs[i].Sha1 \in Hashes /\ (Inputs[i].U # Evicted => Inputs[i].U = Inputs[i].Sha1)
    BY DEF CorpusBase, Sources, Active
  <2>2. \A i \in Positions' : Inputs'[i].Sha1 \in Hashes' /\ (Inputs'[i].U # Evicted => Inputs'[i].U = Inputs'[i].Sha1)
    BY <1>2, <1>4, <1>6, <2>1
  <2>3. Loading' => queue' \subseteq initial' /\ pc' = "load"
    BY <1>1, <1>2, <1>9 DEF CorpusBase, Sources, Loading
  <2>4. ~ FromReload' /\ (pc' = "reload" => queue' \ Hashes' \subseteq disk')
    BY <1>1, <1>2, <1>9 DEF CorpusBase, Sources, FromReload
  <2> QED BY <2>2, <2>3, <2>4 DEF Sources, Active
<1>16. Reports'
  BY <1>1, <1>2, <1>9 DEF CorpusBase, Reports
<1>17. Owners'
  <2> SUFFICES ASSUME ~ Options.Benchmark, Deterministic PROVE Owners'
    BY <1>2 DEF Owners, Deterministic
  <2>1. /\ Counting /\ pending = {} /\ reported \in Coverage[U]
    BY <1>1 DEF Counting, CorpusBase, Phases, Reports
  <2>2. /\ \A i \in Positions : \A s \in Slots : InputSizesPerFeature[s] # 0 /\ SmallestElementPerFeature[s] = i =>
             Has(Coverage, Inputs[i].U, s) /\ InputSizesPerFeature[s] = Size[Inputs[i].U]
        /\ \A i \in Positions : Inputs[i].U # Evicted => \A s \in Slots : Has(Coverage, Inputs[i].U, s) =>
             InputSizesPerFeature[s] # 0 /\ (Options.Shrink => InputSizesPerFeature[s] <= Size[Inputs[i].U])
        /\ \A i \in Positions : Inputs[i].U # U
        /\ \A i, j \in Positions : Inputs[i].U # Evicted /\ Inputs[i].U = Inputs[j].U => i = j
    BY <1>1 DEF CorpusBase, Owners, GetFeature, Active
  <2>3. \A s \in Slots : InputSizesPerFeature[s] # 0 /\ SmallestElementPerFeature[s] = n + 1 =>
          Has(Coverage, U, s) /\ InputSizesPerFeature[s] = Size[U]
    <3>1. \A s \in Slots : InputSizesPerFeature[s] # 0 /\ SmallestElementPerFeature[s] = n + 1 =>
            InputSizesPerFeature[s] = Size[U]
      BY <1>1, <2>1 DEF CorpusBase, Counts, GetFeature
    <3>2. \A s \in Slots : InputSizesPerFeature[s] # 0 /\ SmallestElementPerFeature[s] = n + 1 =>
            \E f \in reported : s = SlotOf(f)
      BY <1>1 DEF CorpusBase, Reports, GetFeature
    <3> QED BY <2>1, <3>1, <3>2 DEF Has
  <2>4. \A s \in Slots : Has(Coverage, U, s) =>
          InputSizesPerFeature[s] # 0 /\ (Options.Shrink => InputSizesPerFeature[s] <= Size[U])
    <3>1. Coverage[U] = {reported}
      BY <1>1, <2>1 DEF Deterministic
    <3>2. \A f \in reported :
            InputSizesPerFeature[SlotOf(f)] # 0 /\ (Options.Shrink => InputSizesPerFeature[SlotOf(f)] <= Size[U])
      BY <1>1, <2>1 DEF CorpusBase, Reports, GetFeature
    <3> QED BY <3>1, <3>2 DEF Has
  <2>5. \A i \in Positions' : \A s \in Slots : InputSizesPerFeature[s] # 0 /\ SmallestElementPerFeature[s] = i =>
          Has(Coverage, Inputs'[i].U, s) /\ InputSizesPerFeature[s] = Size[Inputs'[i].U]
    BY <1>4, <1>6, <2>2, <2>3
  <2>6. \A i \in Positions' : Inputs'[i].U # Evicted => \A s \in Slots : Has(Coverage, Inputs'[i].U, s) =>
          InputSizesPerFeature[s] # 0 /\ (Options.Shrink => InputSizesPerFeature[s] <= Size[Inputs'[i].U])
    BY <1>4, <1>6, <2>2, <2>4
  <2>7. \A i, j \in Positions' : Inputs'[i].U # Evicted /\ Inputs'[i].U = Inputs'[j].U => i = j
    BY <1>4, <1>6, <2>2
  <2> QED BY <1>2, <1>9, <2>5, <2>6, <2>7 DEF Owners, GetFeature, Active
<1>18. Files'
  <2> SUFFICES ASSUME ~ Options.Benchmark, Deterministic, pc' \notin Stops,
                      NEW i \in Positions', Inputs'[i].U # Evicted
      PROVE  Inputs'[i].U \in disk \cup initial \/ (pc' = "write" /\ Inputs'[i].U = U)
    BY <1>2 DEF Files, Deterministic, Active
  <2>1. CASE i \in Positions
    BY <1>1, <1>6, <2>1 DEF CorpusBase, Files, Active, Stops
  <2>2. CASE i = n + 1
    <3>1. origin = "initial" => U \in initial
      BY <1>1 DEF CorpusBase, Sources, Loading
    <3>2. origin = "reload" => U \in disk
      BY <1>1 DEF CorpusBase, Sources, FromReload
    <3>3. pc' = "write" \/ origin \in {"initial", "reload"}
      BY <1>9 DEF Stops
    <3> QED BY <1>4, <1>6, <2>2, <3>1, <3>2, <3>3
  <2> QED BY <1>6, <2>1, <2>2
<1> QED BY <1>11, <1>12, <1>13, <1>14, <1>15, <1>16, <1>17, <1>18 DEF CorpusBase

-----------------------------------------------------------------------------
\* The directories have the features that were seen: the owner of a slot is an
\* input, whose file is there, or the unit that is being run.
OneUnitShort ==
  ~ Options.Benchmark /\ Deterministic /\ pc \notin Stops =>
    /\ Seen \ OnDisk \subseteq {SlotOf(f) : f \in reported}
    /\ ~ Reporting /\ pc # "write" => Seen \subseteq OnDisk

LEMMA SlotsOfHas ==
  ASSUME NEW S, NEW u \in S, NEW s, Has(Coverage, u, s) PROVE s \in SlotsOf(S)
<1>1. PICK c \in Coverage[u] : \E f \in c : s = f % kFeatureSetSize
  BY DEF Has, SlotOf
<1>2. PICK f \in c : s = f % kFeatureSetSize
  BY <1>1
<1>3. c \in UNION {Coverage[v] : v \in S}
  OBVIOUS
<1>4. f \in UNION UNION {Coverage[v] : v \in S}
  BY <1>2, <1>3
<1> QED BY <1>2, <1>4 DEF SlotsOf

LEMMA BaseOneUnitShort == CorpusBase => OneUnitShort
<1> SUFFICES ASSUME CorpusBase, ~ Options.Benchmark, Deterministic, pc \notin Stops,
                    NEW s \in Slots, GetFeature(s) # 0, s \notin OnDisk
    PROVE  s \in {SlotOf(f) : f \in reported} /\ (Reporting \/ pc = "write")
  BY DEF OneUnitShort, Seen
<1> DEFINE p == SmallestElementPerFeature[s]
<1>1. p \in Positions \/ (Reporting /\ p = Len(Inputs) + 1)
  BY DEF CorpusBase, Counts, Counting
<1>2. CASE p \in Positions
  <2>1. Has(Coverage, Inputs[p].U, s)
    BY <1>2 DEF CorpusBase, Owners
  <2>2. Active(p)
    <3> DEFINE S == SlotsAt(InputSizesPerFeature, SmallestElementPerFeature, p)
    <3>1. s \in S /\ S \in SUBSET Slots
      BY DEF SlotsAt, GetFeature
    <3>2. Cardinality(S) # 0
      BY <3>1, SlotSets
    <3> QED BY <1>2, <3>2 DEF CorpusBase, Counts, Counting, Active
  <2>3. Inputs[p].U \notin disk \cup initial
    BY <2>1, SlotsOfHas DEF OnDisk
  <2>4. pc = "write" /\ Inputs[p].U = U
    BY <1>2, <2>2, <2>3 DEF CorpusBase, Files
  <2>5. Coverage[U] = {reported}
    BY <2>4 DEF CorpusBase, Reports, CorpusTypeOK, Deterministic
  <2> QED BY <2>1, <2>4, <2>5 DEF Has
<1>3. CASE Reporting /\ p = Len(Inputs) + 1
  BY <1>3 DEF CorpusBase, Reports
<1> QED BY <1>1, <1>2, <1>3

LEMMA CorpusBaseStep == ASSUME CorpusBase, Next PROVE CorpusBase'
<1>1. ASSUME Ended PROVE CorpusBase'
  <2>1. UNCHANGED <<Options, Coverage, initial, pc, runVars, corpusVars>> /\ disk' = disk
    BY <1>1 DEF Ended, vars
  <2>2. disk \subseteq disk' /\ disk' \subseteq Units
    BY <2>1 DEF CorpusBase, CorpusTypeOK
  <2> QED BY <2>1, <2>2, DirectoryFrame
<1> QED BY <1>1, LoadUnitInv, LoadDoneInv, ExecuteInv, ReportFeatureInv, CollectDoneInv, FillSlotInv,
           AddToCorpusInv, WriteInv, RereadInv, ReloadUnitInv, ReloadDoneInv, LoopDoneInv, ChooseInv,
           MutateInv, MutateDoneInv, StopInv, OtherProcessInv DEF Next

\* Only the end of the loop and Stop end the process with the corpus in order.
LEMMA HowItEnds ==
  ASSUME CorpusBase, Next, pc' \in {"done", "stopped"} PROVE LoopDone \/ Stop \/ Ended
<1>1. origin \in {"initial", "reload", "mutate"}
  BY DEF CorpusBase, CorpusTypeOK
<1>2. Resume \in {"load", "reload", "mutate"}
  BY <1>1 DEF Resume
<1>3. ~ LoadUnit /\ ~ LoadDone /\ ~ ExecuteCallback
  BY DEF LoadUnit, LoadDone, ExecuteCallback
<1>4. ~ CollectDone /\ ~ FillSlot /\ ~ WriteToOutputCorpus
  BY <1>2 DEF CollectDone, FillSlot, WriteToOutputCorpus
<1>5. ~ ReportFeature
  BY DEF ReportFeature, AddFeature
<1>6. ~ AddToCorpus
  BY <1>2 DEF AddToCorpus
<1>7. ~ RereadOutputCorpus /\ ~ ReloadUnit /\ ~ ReloadDone
  BY DEF RereadOutputCorpus, ReloadUnit, ReloadDone
<1>8. ~ ChooseUnitToMutate /\ ~ Mutate /\ ~ MutateDone
  BY DEF ChooseUnitToMutate, Mutate, MutateDone
<1>9. ~ OtherProcess
  BY DEF OtherProcess, Stops
<1> QED BY <1>3, <1>4, <1>5, <1>6, <1>7, <1>8, <1>9 DEF Next

LEMMA CorpusInvStep == CorpusInv /\ [Next]_vars => CorpusInv'
<1> SUFFICES ASSUME CorpusInv, [Next]_vars PROVE CorpusInv'
  OBVIOUS
<1>1. CorpusBase /\ OneUnitShort /\ FeaturesOnDisk /\ StopLosesOneUnit
  BY BaseOneUnitShort DEF CorpusInv
<1>2. CASE UNCHANGED vars
  <2>1. UNCHANGED <<Options, Coverage, initial, pc, runVars, corpusVars>> /\ disk' = disk
    BY <1>2 DEF vars
  <2>2. disk \subseteq disk' /\ disk' \subseteq Units
    BY <1>1, <2>1 DEF CorpusBase, CorpusTypeOK
  <2>3. CorpusBase'
    BY <1>1, <2>1, <2>2, DirectoryFrame
  <2>4. FeaturesOnDisk' /\ StopLosesOneUnit'
    BY <1>1, <2>1 DEF FeaturesOnDisk, StopLosesOneUnit, Deterministic, Seen, OnDisk, SlotsOf, GetFeature,
       corpusVars, runVars
  <2> QED BY <2>3, <2>4 DEF CorpusInv
<1>3. CASE Next
  <2>1. CorpusBase'
    BY <1>1, <1>3, CorpusBaseStep
  <2>2. OneUnitShort'
    BY <2>1, BaseOneUnitShort, PTL
  <2>3. CASE pc' \notin Stops
    <3>1. FeaturesOnDisk' /\ StopLosesOneUnit'
      BY <2>2, <2>3 DEF OneUnitShort, FeaturesOnDisk, StopLosesOneUnit, Reporting, Stops
    <3> QED BY <2>1, <3>1 DEF CorpusInv
  <2>4. CASE pc' \in {"exit", "aborted", "undefined"}
    BY <2>1, <2>4 DEF CorpusInv, FeaturesOnDisk, StopLosesOneUnit
  <2>5. CASE pc' \in {"done", "stopped"}
    <3>1. /\ UNCHANGED <<Options, Coverage, initial, runVars, corpusVars, disk>>
          /\ \/ pc = "loop" /\ pc' = "done"
             \/ pc \notin Stops /\ pc' = "stopped"
             \/ pc' = pc
      BY <1>1, <1>3, <2>5, HowItEnds DEF LoopDone, Stop, Ended, vars
    <3>2. /\ Deterministic' <=> Deterministic
          /\ Seen' = Seen /\ OnDisk' = OnDisk /\ reported' = reported /\ Options' = Options
      BY <3>1 DEF Deterministic, Seen, OnDisk, SlotsOf, GetFeature, corpusVars, runVars
    <3>3. FeaturesOnDisk'
      BY <1>1, <3>1, <3>2 DEF OneUnitShort, FeaturesOnDisk, Reporting, Stops
    <3>4. StopLosesOneUnit'
      BY <1>1, <3>1, <3>2 DEF OneUnitShort, StopLosesOneUnit, SlotOf, Stops
    <3> QED BY <2>1, <3>3, <3>4 DEF CorpusInv
  <2> QED BY <2>3, <2>4, <2>5 DEF Stops
<1> QED BY <1>2, <1>3

-----------------------------------------------------------------------------
\* The inductive invariant holds of every reachable state.
THEOREM CorpusInvariant == Spec => []CorpusInv
<1> QED BY CorpusInitInv, CorpusInvStep, PTL DEF Spec

\* Every variable of the process keeps its type: whatever the target reports and
\* whatever other processes write, the weights only name positions of Inputs.
THEOREM CorpusTypeCorrect == Spec => []CorpusTypeOK
<1>1. CorpusInv => CorpusTypeOK
  BY DEF CorpusInv, CorpusBase
<1> QED BY <1>1, CorpusInvariant, PTL

\* NumFeatures of each input is the number of slots that point to it at every moment,
\* also between two calls of AddFeature, where ValidateFeatureSet does not look.
THEOREM CountsAlwaysExact == Spec => []FeatureCountsExact
<1>1. CorpusInv => FeatureCountsExact
  <2> SUFFICES ASSUME CorpusInv, ~ Options.Benchmark PROVE FeatureCountsExact
    BY DEF FeatureCountsExact
  <2>1. Counts /\ Counting /\ Len(Inputs) \in Nat
    BY DEF CorpusInv, CorpusBase, CorpusTypeOK, Counting
  <2>2. \A i \in 1..Len(Inputs) : Inputs[i].NumFeatures = Cardinality(Owned(i))
    BY <2>1, OwnedIsSlotsAt DEF Counts, Positions
  <2>3. Reporting => Res = Cardinality(Owned(Len(Inputs) + 1))
    BY <2>1, OwnedIsSlotsAt DEF Counts
  <2>4. pc \notin Stops => \A s \in Slots : GetFeature(s) # 0 =>
          SmallestElementPerFeature[s] \in 1..(Len(Inputs) + (IF Reporting THEN 1 ELSE 0))
    BY <2>1 DEF Counts, Positions
  <2> QED BY <2>2, <2>3, <2>4 DEF FeatureCountsExact
<1> QED BY <1>1, CorpusInvariant, PTL

\* Without -benchmark no assertion of InputCorpus fails, and AddFeature never takes a
\* slot from a position that Inputs does not have.
THEOREM AssertionsHold == Spec => []NoAssertionFails
<1>1. CorpusInv => NoAssertionFails
  BY DEF CorpusInv, CorpusBase
<1> QED BY <1>1, CorpusInvariant, PTL

\* Whenever ChooseUnitToMutate draws from CorpusDistribution, the distribution is not
\* empty and gives a weight to exactly the inputs that are not evicted.
THEOREM WeightsAlwaysCurrent == Spec => []WeightsCurrent
<1>1. CorpusInv => WeightsCurrent
  <2> SUFFICES ASSUME CorpusInv, pc = "loop", ~ Options.Benchmark
      PROVE  weighted # {} /\ weighted = {i \in 1..Len(Inputs) : Active(i)}
    BY DEF WeightsCurrent
  <2>1. CorpusBase /\ ~ Reporting /\ pc \notin Stops /\ Counting
    BY DEF CorpusInv, Reporting, Stops, Counting
  <2>2. weighted = {i \in Positions : Active(i)}
    BY <2>1 DEF CorpusBase, Weights
  <2>3. PICK s \in Slots : GetFeature(s) # 0
    BY <2>1 DEF CorpusBase, Phases, Weights
  <2> DEFINE p == SmallestElementPerFeature[s]
             S == SlotsAt(InputSizesPerFeature, SmallestElementPerFeature, p)
  <2>4. p \in Positions
    BY <2>1, <2>3 DEF CorpusBase, Counts
  <2>5. s \in S /\ S \in SUBSET Slots
    BY <2>3 DEF SlotsAt, GetFeature
  <2>6. Cardinality(S) # 0
    BY <2>5, SlotSets
  <2>7. Active(p)
    BY <2>1, <2>4, <2>6 DEF CorpusBase, Counts, Active
  <2> QED BY <2>2, <2>4, <2>7 DEF Positions
<1> QED BY <1>1, CorpusInvariant, PTL

\* With -shrink=1 and a deterministic target, AddFeature leaves each feature with an
\* input that has it, and no input that has it is smaller.
THEOREM OwnersAlwaysSmallest == Spec => []OwnersAreSmallest
<1>1. CorpusInv => OwnersAreSmallest
  <2> SUFFICES ASSUME CorpusInv, Options.Shrink, ~ Options.Benchmark, Deterministic, NEW i \in Positions
      PROVE  /\ \A s \in Owned(i) : /\ Active(i)
                                    /\ s \in SlotsOf({Inputs[i].U})
                                    /\ GetFeature(s) = Size[Inputs[i].U]
             /\ Active(i) => \A s \in SlotsOf({Inputs[i].U}) : GetFeature(s) \in 1..Size[Inputs[i].U]
    BY DEF OwnersAreSmallest, Positions
  <2>1. CorpusBase /\ Counting /\ CorpusTypeOK
    BY DEF CorpusInv, CorpusBase, Counting
  <2>2. ASSUME NEW s \in Owned(i)
        PROVE  Active(i) /\ s \in SlotsOf({Inputs[i].U}) /\ GetFeature(s) = Size[Inputs[i].U]
    <3>1. s \in Slots /\ GetFeature(s) # 0 /\ SmallestElementPerFeature[s] = i
      BY <2>2 DEF Owned
    <3>2. Has(Coverage, Inputs[i].U, s) /\ GetFeature(s) = Size[Inputs[i].U]
      BY <2>1, <3>1 DEF CorpusBase, Owners
    <3>3. Owned(i) \in SUBSET Slots
      BY DEF Owned
    <3>4. Cardinality(Owned(i)) # 0
      BY <2>2, <3>3, SlotSets
    <3>5. Active(i)
      BY <2>1, <3>4, OwnedIsSlotsAt DEF CorpusBase, Counts, Active
    <3> QED BY <3>2, <3>5, SlotsOfHas
  <2>3. ASSUME Active(i), NEW s \in SlotsOf({Inputs[i].U})
        PROVE  GetFeature(s) \in 1..Size[Inputs[i].U]
    <3>1. Inputs[i].U \in Units
      BY <2>1, <2>3, InputTypes DEF Active
    <3>2. Coverage[Inputs[i].U] \subseteq SUBSET Nat
      BY <2>1, <3>1, CorpusAssumption DEF CorpusTypeOK
    <3>3. PICK c \in Coverage[Inputs[i].U] : \E f \in c : s = SlotOf(f)
      BY <2>3 DEF SlotsOf, SlotOf
    <3>4. s \in Slots /\ Has(Coverage, Inputs[i].U, s)
      BY <3>2, <3>3, SlotOfType DEF Has
    <3>5. GetFeature(s) # 0 /\ GetFeature(s) <= Size[Inputs[i].U]
      BY <2>1, <2>3, <3>4 DEF CorpusBase, Owners
    <3>6. GetFeature(s) \in Nat /\ Size[Inputs[i].U] \in Nat
      BY <2>1, <3>1, <3>4, CorpusAssumption DEF CorpusTypeOK, GetFeature
    <3> QED BY <3>5, <3>6
  <2> QED BY <2>2, <2>3
<1> QED BY <1>1, CorpusInvariant, PTL

\* Evicting inputs and deleting their files loses no feature: between two executions
\* the corpus directories have every feature that was ever seen.
THEOREM FeaturesStayOnDisk == Spec => []FeaturesOnDisk
<1>1. CorpusInv => FeaturesOnDisk
  BY DEF CorpusInv
<1> QED BY <1>1, CorpusInvariant, PTL

\* Wherever a signal, a crash or a limit stops the process, also between deleting a
\* file and writing its replacement, only features of the unit in hand are missing.
THEOREM StopsLoseOneUnit == Spec => []StopLosesOneUnit
<1>1. CorpusInv => StopLosesOneUnit
  BY DEF CorpusInv
<1> QED BY <1>1, CorpusInvariant, PTL

-----------------------------------------------------------------------------
\* What a step may do to the corpus.
ShrinkStep ==
  /\ Len(Inputs') >= Len(Inputs)
  /\ \A i \in 1..Len(Inputs) :
       /\ Inputs'[i].Sha1 = Inputs[i].Sha1
       /\ Inputs'[i].U \in {Inputs[i].U, Evicted}
       /\ Inputs'[i].NumFeatures <= Inputs[i].NumFeatures
       /\ ~ Options.Shrink => Inputs'[i] = Inputs[i]
  /\ \A s \in Seen : InputSizesPerFeature'[s] \in 1..GetFeature(s)

LEMMA StillShrinks ==
  ASSUME CorpusTypeOK, UNCHANGED <<Inputs, InputSizesPerFeature>> PROVE ShrinkStep
<1>1. \A i \in Positions : Inputs[i].NumFeatures \in Nat
  BY InputTypes
<1>2. \A s \in Slots : GetFeature(s) \in Nat
  BY DEF CorpusTypeOK, GetFeature
<1>3. Len(Inputs) \in Nat
  BY DEF CorpusTypeOK
<1> QED BY <1>1, <1>2, <1>3 DEF ShrinkStep, Seen, GetFeature, Positions

LEMMA TakeShrinks ==
  ASSUME CorpusTypeOK, NEW s \in Slots, Takes(s), TakeSlot(s),
         \/ GetFeature(s) = 0 /\ Inputs' = Inputs
         \/ /\ GetFeature(s) # 0 /\ SmallestElementPerFeature[s] \in Positions
            /\ Inputs[SmallestElementPerFeature[s]].NumFeatures > 0 /\ LoseSlot(s)
  PROVE  ShrinkStep
<1>1. \A i \in Positions : Inputs[i].NumFeatures \in Nat
  BY InputTypes
<1>2. \A t \in Slots : GetFeature(t) \in Nat
  BY DEF CorpusTypeOK, GetFeature
<1>3. Size[U] \in Nat \ {0} /\ Len(Inputs) \in Nat
  BY CorpusAssumption DEF CorpusTypeOK
<1>4. /\ InputSizesPerFeature'[s] = Size[U]
      /\ \A t \in Slots \ {s} : InputSizesPerFeature'[t] = GetFeature(t)
  BY DEF TakeSlot, CorpusTypeOK, GetFeature
<1>5. \A t \in Seen : InputSizesPerFeature'[t] \in 1..GetFeature(t)
  BY <1>2, <1>3, <1>4 DEF Seen, Takes
<1>6. CASE GetFeature(s) = 0 /\ Inputs' = Inputs
  BY <1>1, <1>3, <1>5, <1>6 DEF ShrinkStep, Positions
<1>7. CASE /\ GetFeature(s) # 0 /\ SmallestElementPerFeature[s] \in Positions
           /\ Inputs[SmallestElementPerFeature[s]].NumFeatures > 0 /\ LoseSlot(s)
  <2>1. PICK i \in Positions : i = SmallestElementPerFeature[s]
    BY <1>7
  <2>2. /\ Len(Inputs') = Len(Inputs)
        /\ \A j \in Positions \ {i} : Inputs'[j] = Inputs[j]
        /\ Inputs'[i].NumFeatures = Inputs[i].NumFeatures - 1
        /\ Inputs'[i].Sha1 = Inputs[i].Sha1
        /\ Inputs'[i].U \in {Inputs[i].U, Evicted}
    BY <1>7, <2>1, LoseSlotFacts
  <2>3. Options.Shrink
    BY <1>7 DEF Takes
  <2>4. \A j \in Positions : /\ Inputs'[j].Sha1 = Inputs[j].Sha1
                             /\ Inputs'[j].U \in {Inputs[j].U, Evicted}
                             /\ Inputs'[j].NumFeatures <= Inputs[j].NumFeatures
    BY <1>1, <2>2
  <2> QED BY <1>3, <1>5, <2>2, <2>3, <2>4 DEF ShrinkStep, Positions
<1> QED BY <1>6, <1>7

LEMMA StepShrinks == ASSUME CorpusBase, Next PROVE ShrinkStep
<1> USE DEF corpusVars
<1>1. CorpusTypeOK
  BY DEF CorpusBase
<1>2. CASE LoadUnit \/ LoadDone \/ ExecuteCallback \/ CollectDone \/ WriteToOutputCorpus
  BY <1>1, <1>2, StillShrinks DEF LoadUnit, LoadDone, ExecuteCallback, CollectDone, WriteToOutputCorpus
<1>3. CASE RereadOutputCorpus \/ ReloadUnit \/ ReloadDone \/ LoopDone \/ ChooseUnitToMutate
  BY <1>1, <1>3, StillShrinks DEF RereadOutputCorpus, ReloadUnit, ReloadDone, LoopDone, ChooseUnitToMutate
<1>4. CASE Mutate \/ MutateDone \/ Stop \/ OtherProcess \/ Ended
  BY <1>1, <1>4, StillShrinks DEF Mutate, MutateDone, Stop, OtherProcess, Ended, vars
<1>5. CASE ReportFeature
  <2>1. PICK f \in pending : AddFeature(SlotOf(f))
    BY <1>5 DEF ReportFeature, SlotOf
  <2>2. PICK s \in Slots : s = SlotOf(f)
    BY <1>1, <2>1, SlotOfType DEF CorpusTypeOK
  <2>3. AddFeature(s)
    BY <2>1, <2>2
  <2>4. \/ UNCHANGED <<Inputs, InputSizesPerFeature>>
        \/ /\ Takes(s) /\ TakeSlot(s)
           /\ \/ GetFeature(s) = 0 /\ Inputs' = Inputs
              \/ /\ GetFeature(s) # 0 /\ SmallestElementPerFeature[s] \in Positions
                 /\ Inputs[SmallestElementPerFeature[s]].NumFeatures > 0 /\ LoseSlot(s)
    BY <2>3 DEF AddFeature, Positions
  <2> QED BY <1>1, <2>4, StillShrinks, TakeShrinks
<1>6. CASE FillSlot
  <2>1. PICK s \in Slots : /\ Takes(s) /\ TakeSlot(s)
                           /\ IF GetFeature(s) = 0 THEN UNCHANGED <<Inputs, disk>> ELSE LoseSlot(s)
    BY <1>6 DEF FillSlot
  <2>2. Counting /\ Reporting
    BY <1>6 DEF FillSlot, CorpusBase, Phases, Reporting, Counting, Loading
  <2>3. GetFeature(s) # 0 => SmallestElementPerFeature[s] \in Positions
                             /\ Inputs[SmallestElementPerFeature[s]].NumFeatures > 0
    BY <2>1, <2>2, OwnerExists
  <2> QED BY <1>1, <2>1, <2>3, TakeShrinks
<1>7. CASE AddToCorpus
  <2> DEFINE a == [U |-> U, Sha1 |-> U, NumFeatures |-> Res, MayDeleteFile |-> origin = "mutate"]
  <2>1. Inputs' = Append(Inputs, a) /\ InputSizesPerFeature' = InputSizesPerFeature
    BY <1>7 DEF AddToCorpus
  <2>2. Inputs \in Seq(Input)
    BY <1>1 DEF CorpusTypeOK, Input
  <2> HIDE DEF a
  <2>3. Len(Inputs') >= Len(Inputs) /\ \A i \in Positions : Inputs'[i] = Inputs[i]
    BY <2>1, <2>2 DEF Positions
  <2>4. \A i \in Positions : Inputs[i].NumFeatures \in Nat
    BY <1>1, InputTypes
  <2>5. \A s \in Slots : GetFeature(s) \in Nat
    BY <1>1 DEF CorpusTypeOK, GetFeature
  <2> QED BY <2>1, <2>3, <2>4, <2>5 DEF ShrinkStep, Seen, GetFeature, Positions
<1> QED BY <1>2, <1>3, <1>4, <1>5, <1>6, <1>7 DEF Next

\* An input never leaves Inputs and never comes back after DeleteInput; AddFeature only
\* takes features from it, only with -shrink=1, and only for a smaller unit.
THEOREM CorpusEverShrinks == Spec => CorpusOnlyShrinks
<1>1. CorpusInv /\ [Next]_vars => [ShrinkStep]_vars
  BY StepShrinks DEF CorpusInv
<1>2. Spec => [][ShrinkStep]_vars
  BY <1>1, CorpusInvariant, PTL DEF Spec
<1> QED BY <1>2 DEF CorpusOnlyShrinks, ShrinkStep

=============================================================================
