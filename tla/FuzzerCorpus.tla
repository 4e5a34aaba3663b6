---------------------------- MODULE FuzzerCorpus ----------------------------
(***************************************************************************)
(* The corpus of a fuzzing process and the loop that works on it:          *)
(* InputCorpus (lib/Fuzzer/FuzzerCorpus.h) and ShuffleAndMinimize, RunOne, *)
(* MutateAndTestOne, RereadOutputCorpus and Loop (FuzzerLoop.cpp), for a   *)
(* target that is instrumented with trace-pc-guard.                        *)
(*                                                                         *)
(* Each feature has a slot.  A slot records the size of the input that     *)
(* owns the feature and its position in Inputs; the position is filled in  *)
(* when the features of an execution are reported, one by one, before the  *)
(* input itself is added.  An input whose last feature goes to a smaller   *)
(* input (-shrink=1) is evicted and its file is deleted.                   *)
(*                                                                         *)
(* The process may be stopped at any point: by a signal, the memory limit, *)
(* a crash of the target or a leak.  Other processes may add files to the  *)
(* output directory, which the process reads again from time to time.      *)
(*                                                                         *)
(* Positions are counted from 1.  An input is a member of Units, which     *)
(* also stands for its hash and for the name of its file.                  *)
(***************************************************************************)
EXTENDS Integers, Sequences, FiniteSets

CONSTANTS
  Units,            \* non-empty inputs
  Size,             \* the size of each
  Targets,          \* targets: the sets of features each unit's executions may have
  kFeatureSetSize,  \* number of slots
  NewLine,          \* the input to start from if there is none
  InitialCorpora,   \* the inputs in the corpus directories at the start
  OtherUnits,       \* inputs that other processes may write
  OptionSets,       \* settings of -shrink, -benchmark, and of -shuffle with -prefer_small
  MutateDepth,
  MaxNumberOfRuns,
  ReloadBound       \* a bound on the runs after which the directory is read again

Slots == 0..(kFeatureSetSize - 1)

Evicted == "evicted"

ASSUME CorpusAssumption ==
  /\ Size \in [Units -> Nat \ {0}]
  /\ kFeatureSetSize \in Nat \ {0}
  /\ Targets \subseteq [Units -> SUBSET SUBSET Nat]
  /\ \A T \in Targets : \A u \in Units : T[u] # {} /\ \A c \in T[u] : IsFiniteSet(c)
  /\ NewLine \in Units /\ Evicted \notin Units
  /\ InitialCorpora \subseteq SUBSET Units /\ OtherUnits \subseteq Units
  /\ OptionSets \subseteq [Shrink : BOOLEAN, Benchmark : BOOLEAN, PreferSmall : BOOLEAN]
  /\ MutateDepth \in Nat /\ MaxNumberOfRuns \in Nat /\ ReloadBound \in Nat

VARIABLES
  Options,
  Coverage,   \* the target
  initial,    \* InitialCorpus as it was read
  pc,         \* where the fuzzing thread is
  origin,     \* where the unit being run comes from
  U,          \* the unit being run
  reported,   \* the features of its execution
  pending,    \* those that have not been reported to AddFeature
  Res,        \* the features AddFeature took
  queue,      \* the rest of InitialCorpus or of AdditionalCorpus
  depth,      \* MutateAndTestOne's loop counter
  runs,       \* TotalNumberOfRuns
  Inputs,     \* the corpus
  Hashes,
  InputSizesPerFeature,
  SmallestElementPerFeature,
  CountingFeatures,
  weighted,   \* the positions that have a weight in CorpusDistribution
  disk        \* the files in the corpus directories

corpusVars == <<Inputs, Hashes, InputSizesPerFeature, SmallestElementPerFeature,
                CountingFeatures, weighted>>
runVars == <<origin, U, reported, pending, Res, queue, depth, runs>>
vars == <<Options, Coverage, initial, pc, runVars, corpusVars, disk>>

Stops == {"done", "exit", "stopped", "aborted", "undefined"}

GetFeature(s) == InputSizesPerFeature[s]

\* The features whose smallest input is at position i.
Owned(i) == {s \in Slots : GetFeature(s) # 0 /\ SmallestElementPerFeature[s] = i}

\* Mutant: the distribution is updated before the input is added.
Weighted_Early(In) == {i \in 1..(Len(In) - 1) : CountingFeatures => In[i].NumFeatures > 0}

\* UpdateCorpusDistribution: where the weights are positive.
Weighted(In) == {i \in 1..Len(In) : CountingFeatures => In[i].NumFeatures > 0}

-----------------------------------------------------------------------------
Init ==
  /\ Options \in OptionSets
  /\ Coverage \in Targets
  /\ pc = "load"
  /\ origin = "initial"
  /\ U = NewLine
  /\ reported = {} /\ pending = {} /\ Res = 0
  /\ disk \in InitialCorpora
  /\ initial = IF disk = {} THEN {NewLine} ELSE disk
  /\ queue = initial
  /\ depth = 0 /\ runs = 0
  /\ Inputs = <<>> /\ Hashes = {}
  /\ InputSizesPerFeature = [s \in Slots |-> 0]
  /\ SmallestElementPerFeature = [s \in Slots |-> 0]
  /\ CountingFeatures = FALSE
  /\ weighted = {}

\* The next unit of the initial corpus.  Smaller ones are first if they are sorted
\* at startup, which -shuffle=0 or -prefer_small=0 prevents: then any order may come.
LoadUnit ==
  /\ pc = "load"
  /\ \E u \in queue :
       /\ Options.PreferSmall => \A v \in queue : Size[u] <= Size[v]
       /\ U' = u
       /\ queue' = queue \ {u}
  /\ origin' = "initial"
  /\ pc' = "execute"
  /\ UNCHANGED <<Options, Coverage, initial, reported, pending, Res, depth, runs, corpusVars, disk>>

\* The end of ShuffleAndMinimize.
LoadDone ==
  /\ pc = "load"
  /\ queue = {}
  /\ pc' = IF Inputs = <<>> THEN "exit" ELSE "loop"
  /\ UNCHANGED <<Options, Coverage, initial, runVars, corpusVars, disk>>

\* RunOne: execute the unit.
ExecuteCallback ==
  /\ pc = "execute"
  /\ \E c \in Coverage[U] : reported' = c /\ pending' = c
  /\ Res' = 0
  /\ runs' = runs + 1
  /\ pc' = "collect"
  /\ UNCHANGED <<Options, Coverage, initial, origin, U, queue, depth, corpusVars, disk>>

\* Mutants: a larger unit takes the slot; -shrink=0 has no effect.
Takes_Larger(s) == GetFeature(s) = 0 \/ (Options.Shrink /\ GetFeature(s) < Size[U])
Takes_Always(s) == GetFeature(s) = 0 \/ GetFeature(s) > Size[U]

\* The slot s goes to the unit that is being run.
Takes(s) == GetFeature(s) = 0 \/ (Options.Shrink /\ GetFeature(s) > Size[U])

\* Mutant: the position of the last input.
NewPosition_OffByOne == Len(Inputs)

\* Where the unit that is being run will be added.
NewPosition == Len(Inputs) + 1

TakeSlot(s) ==
  /\ InputSizesPerFeature' = [InputSizesPerFeature EXCEPT ![s] = Size[U]]
  /\ SmallestElementPerFeature' = [SmallestElementPerFeature EXCEPT ![s] = NewPosition]
  /\ CountingFeatures' = TRUE
  /\ UNCHANGED <<Hashes, weighted>>

\* Mutant: the file is deleted when the input loses any feature.
DeletesFile_Early(i) == Inputs[i].MayDeleteFile

\* DeleteInput(i) follows, and deletes the file.
IsLast(i) == Inputs[i].NumFeatures = 1
DeletesFile(i) == IsLast(i) /\ Inputs[i].MayDeleteFile

\* Mutant: the count of the owner is not decreased.
LoseSlot_NoCount(s) == UNCHANGED <<Inputs, disk>>

\* The owner of slot s loses it, and is evicted if that was its last feature.
LoseSlot(s) ==
  LET i == SmallestElementPerFeature[s]
  IN  /\ Inputs' = [Inputs EXCEPT ![i].NumFeatures = @ - 1,
                                  ![i].U = IF IsLast(i) THEN Evicted ELSE @]
      /\ disk' = IF DeletesFile(i) THEN disk \ {Inputs[i].Sha1} ELSE disk

\* InputCorpus::AddFeature; position i may be one that Inputs does not have.
AddFeature(s) ==
  \/ /\ ~ Takes(s)
     /\ Res' = Res
     /\ pc' = pc
     /\ UNCHANGED <<corpusVars, disk>>
  \/ /\ Takes(s)
     /\ GetFeature(s) = 0
     /\ Res' = Res + 1
     /\ pc' = pc
     /\ TakeSlot(s)
     /\ UNCHANGED <<Inputs, disk>>
  \/ /\ Takes(s)
     /\ GetFeature(s) # 0
     /\ SmallestElementPerFeature[s] \in 1..Len(Inputs)
     /\ IF Inputs[SmallestElementPerFeature[s]].NumFeatures > 0
        THEN Res' = Res + 1 /\ pc' = pc /\ LoseSlot(s) /\ TakeSlot(s)
        ELSE Res' = Res /\ pc' = "aborted" /\ UNCHANGED <<corpusVars, disk>>
  \/ /\ Takes(s)
     /\ GetFeature(s) # 0
     /\ SmallestElementPerFeature[s] \notin 1..Len(Inputs)
     /\ Res' = Res
     /\ pc' = "undefined"
     /\ UNCHANGED <<corpusVars, disk>>

\* CollectFeatures reports one feature.
ReportFeature ==
  /\ pc = "collect"
  /\ \E f \in pending :
       /\ \A g \in pending : f <= g
       /\ AddFeature(f % kFeatureSetSize)
       /\ pending' = pending \ {f}
  /\ UNCHANGED <<Options, Coverage, initial, origin, U, reported, queue, depth, runs>>

\* Where the fuzzing thread goes on after a unit.
Resume == CASE origin = "initial" -> "load" [] origin = "reload" -> "reload" [] OTHER -> "mutate"

\* ShuffleAndMinimize adds this unit although it has no new features.
NeedsSlot == Res = 0 /\ origin = "initial" /\ Options.Benchmark

\* MutateAndTestOne does not add this unit although it has new features.
NotAdded == origin = "mutate" /\ Options.Benchmark

\* The result of RunOne.
HasNewFeatures == Res > 0

\* RunOne returns to its caller.
CollectDone ==
  /\ pc = "collect"
  /\ pending = {}
  /\ \/ NeedsSlot /\ pc' = "fill"
     \/ ~ NeedsSlot /\ (~ HasNewFeatures \/ NotAdded) /\ pc' = Resume
     \/ HasNewFeatures /\ ~ NotAdded /\ pc' = "add"
  /\ UNCHANGED <<Options, Coverage, initial, runVars, corpusVars, disk>>

\* ShuffleAndMinimize gives a unit without features the first slot it can get.
FillSlot ==
  /\ pc = "fill"
  /\ \E s \in Slots :
       /\ Takes(s)
       /\ \A t \in 0..(s - 1) : ~ Takes(t)
       /\ IF GetFeature(s) = 0 THEN UNCHANGED <<Inputs, disk>> ELSE LoseSlot(s)
       /\ TakeSlot(s)
  /\ Res' = 1
  /\ pc' = "add"
  /\ UNCHANGED <<Options, Coverage, initial, origin, U, reported, pending, queue, depth, runs>>

\* ValidateFeatureSet's assertion holds of the inputs In.
Valid(In) ==
  CountingFeatures =>
    /\ \A s \in Slots : GetFeature(s) # 0 => SmallestElementPerFeature[s] \in 1..Len(In)
    /\ \A i \in 1..Len(In) : In[i].NumFeatures = Cardinality(Owned(i))

\* InputCorpus::AddToCorpus.
AddToCorpus ==
  /\ pc = "add"
  /\ Hashes' = Hashes \cup {U}
  /\ Inputs' = Append(Inputs, [U |-> U, Sha1 |-> U, NumFeatures |-> Res,
                               MayDeleteFile |-> origin = "mutate"])
  /\ weighted' = Weighted(Inputs')
  /\ pc' = CASE ~ Valid(Inputs') -> "aborted"
             [] Valid(Inputs') /\ origin = "mutate" -> "write"
             [] OTHER -> Resume
  /\ UNCHANGED <<Options, Coverage, initial, runVars, InputSizesPerFeature, SmallestElementPerFeature,
                 CountingFeatures, disk>>

\* Mutant: a unit with a known hash is not written.
WriteToOutputCorpus_IfNew ==
  /\ pc = "write"
  /\ disk' = IF U \in Hashes THEN disk ELSE disk \cup {U}
  /\ pc' = Resume
  /\ UNCHANGED <<Options, Coverage, initial, runVars, corpusVars>>

\* ReportNewCoverage saves the unit.
WriteToOutputCorpus ==
  /\ pc = "write"
  /\ disk' = disk \cup {U}
  /\ pc' = Resume
  /\ UNCHANGED <<Options, Coverage, initial, runVars, corpusVars>>

\* Loop: it is time to read the output directory again.  Which files are new
\* enough to be read depends on the clocks.
RereadOutputCorpus ==
  /\ pc = "loop"
  /\ runs < ReloadBound
  /\ \E S \in SUBSET disk : queue' = S
  /\ pc' = "reload"
  /\ UNCHANGED <<Options, Coverage, initial, origin, U, reported, pending, Res, depth, runs, corpusVars, disk>>

\* The next unit that was read; one whose hash is known is skipped.
ReloadUnit ==
  /\ pc = "reload"
  /\ \E u \in queue :
       /\ queue' = queue \ {u}
       /\ IF u \in Hashes THEN UNCHANGED <<pc, U, origin>>
          ELSE pc' = "execute" /\ U' = u /\ origin' = "reload"
  /\ UNCHANGED <<Options, Coverage, initial, reported, pending, Res, depth, runs, corpusVars, disk>>

ReloadDone ==
  /\ pc = "reload"
  /\ queue = {}
  /\ pc' = "loop"
  /\ UNCHANGED <<Options, Coverage, initial, runVars, corpusVars, disk>>

\* The number of runs is reached, or the time is up, which may be at any time.
LoopDone ==
  /\ pc = "loop"
  /\ pc' = "done"
  /\ UNCHANGED <<Options, Coverage, initial, runVars, corpusVars, disk>>

\* MutateAndTestOne begins: ChooseUnitToMutate and its assertion.
ChooseUnitToMutate ==
  /\ pc = "loop"
  /\ runs < MaxNumberOfRuns
  /\ \E i \in weighted : pc' = IF Inputs[i].U = Evicted THEN "aborted" ELSE "mutate"
  /\ depth' = 0
  /\ UNCHANGED <<Options, Coverage, initial, origin, U, reported, pending, Res, queue, runs, corpusVars, disk>>

\* Mutant: one mutation too many.
MoreMutations_OneMore == depth <= MutateDepth /\ runs < MaxNumberOfRuns

\* The conditions of MutateAndTestOne's loop.
MoreMutations == depth < MutateDepth /\ runs < MaxNumberOfRuns

\* The mutator makes any unit; what it started from is not visible here.
Mutate ==
  /\ pc = "mutate"
  /\ MoreMutations
  /\ U' \in Units
  /\ origin' = "mutate"
  /\ depth' = depth + 1
  /\ pc' = "execute"
  /\ UNCHANGED <<Options, Coverage, initial, reported, pending, Res, queue, runs, corpusVars, disk>>

MutateDone ==
  /\ pc = "mutate"
  /\ ~ MoreMutations
  /\ pc' = "loop"
  /\ UNCHANGED <<Options, Coverage, initial, runVars, corpusVars, disk>>

\* InterruptCallback, RssLimitCallback, CrashCallback, AlarmCallback or
\* TryDetectingAMemoryLeak end the process.
Stop ==
  /\ pc \notin Stops
  /\ pc' = "stopped"
  /\ UNCHANGED <<Options, Coverage, initial, runVars, corpusVars, disk>>

\* Another process writes to the output directory.
OtherProcess ==
  /\ pc \notin Stops
  /\ \E u \in OtherUnits \ disk : disk' = disk \cup {u}
  /\ UNCHANGED <<Options, Coverage, initial, pc, runVars, corpusVars>>

Ended == pc \in Stops /\ UNCHANGED vars

Next ==
  \/ LoadUnit \/ LoadDone
  \/ ExecuteCallback \/ ReportFeature \/ CollectDone \/ FillSlot \/ AddToCorpus
  \/ WriteToOutputCorpus
  \/ RereadOutputCorpus \/ ReloadUnit \/ ReloadDone
  \/ LoopDone \/ ChooseUnitToMutate \/ Mutate \/ MutateDone
  \/ Stop \/ OtherProcess \/ Ended

Spec == Init /\ [][Next]_vars

-----------------------------------------------------------------------------
CorpusTypeOK ==
  /\ Options \in [Shrink : BOOLEAN, Benchmark : BOOLEAN, PreferSmall : BOOLEAN]
  /\ Coverage \in Targets
  /\ initial \subseteq Units
  /\ pc \in {"load", "execute", "collect", "fill", "add", "write", "loop", "reload", "mutate"}
             \cup Stops
  /\ origin \in {"initial", "reload", "mutate"}
  /\ U \in Units
  /\ reported \subseteq Nat /\ pending \subseteq reported
  /\ Res \in Nat
  /\ queue \subseteq Units
  /\ depth \in 0..MutateDepth
  /\ runs \in Nat
  /\ Inputs \in Seq([U : Units \cup {Evicted}, Sha1 : Units, NumFeatures : Nat,
                     MayDeleteFile : BOOLEAN])
  /\ Hashes \subseteq Units
  /\ InputSizesPerFeature \in [Slots -> Nat]
  /\ SmallestElementPerFeature \in [Slots -> Nat]
  /\ CountingFeatures \in BOOLEAN
  /\ weighted \subseteq 1..Len(Inputs)
  /\ disk \subseteq Units

Active(i) == Inputs[i].U # Evicted

\* In the middle of an execution's report the slots already point behind the
\* end of Inputs.
Reporting == pc \in {"collect", "fill", "add"}

\* The count that ValidateFeatureSet asserts, also at the points where it is not
\* evaluated: an input's NumFeatures is the number of slots it owns, the unit that
\* is being added owns as many as RunOne returns, and no slot points elsewhere.
FeatureCountsExact ==
  ~ Options.Benchmark =>
    /\ \A i \in 1..Len(Inputs) : Inputs[i].NumFeatures = Cardinality(Owned(i))
    /\ Reporting => Res = Cardinality(Owned(Len(Inputs) + 1))
    /\ pc \notin Stops => \A s \in Slots : GetFeature(s) # 0 =>
         SmallestElementPerFeature[s] \in 1..(Len(Inputs) + (IF Reporting THEN 1 ELSE 0))

\* No assertion of InputCorpus fails and AddFeature never indexes Inputs out of
\* range, whatever an execution reports.
NoAssertionFails == ~ Options.Benchmark => pc \notin {"aborted", "undefined"}

\* UpdateCorpusDistribution "must be called whenever the corpus or unit weights
\* are changed": when a unit is chosen, the distribution is not empty, and it
\* gives a weight to exactly the units that have not been evicted.
WeightsCurrent ==
  pc = "loop" /\ ~ Options.Benchmark =>
    /\ weighted # {}
    /\ weighted = {i \in 1..Len(Inputs) : Active(i)}

\* Every execution of an input has the same features.
Deterministic == \A u \in Units : \E c \in Coverage[u] : Coverage[u] = {c}

SlotsOf(S) == {f % kFeatureSetSize : f \in UNION UNION {Coverage[u] : u \in S}}

\* With -shrink=1, a feature belongs to an input of the corpus that has it, and no
\* input of the corpus that has it is smaller.
OwnersAreSmallest ==
  Options.Shrink /\ ~ Options.Benchmark /\ Deterministic =>
    \A i \in 1..Len(Inputs) :
      /\ \A s \in Owned(i) : /\ Active(i)
                             /\ s \in SlotsOf({Inputs[i].U})
                             /\ GetFeature(s) = Size[Inputs[i].U]
      /\ Active(i) => \A s \in SlotsOf({Inputs[i].U}) : GetFeature(s) \in 1..Size[Inputs[i].U]

Seen == {s \in Slots : GetFeature(s) # 0}

\* The features of the corpus directories.  The input the fuzzer starts from when
\* there is none is never written.
OnDisk == SlotsOf(disk \cup initial)

\* No feature is lost by replacing inputs: between two executions, the files have
\* every feature that was ever seen.
FeaturesOnDisk ==
  pc \in {"load", "execute", "loop", "reload", "mutate", "done"}
      /\ ~ Options.Benchmark /\ Deterministic
    => Seen \subseteq OnDisk

\* A process that is stopped in the middle of anything, also between deleting the
\* file of an evicted input and writing its replacement, leaves files that have
\* all features but those of the one unit it was working on.
StopLosesOneUnit ==
  pc = "stopped" /\ ~ Options.Benchmark /\ Deterministic
    => Seen \ OnDisk \subseteq {f % kFeatureSetSize : f \in reported}

\* An input never leaves the corpus or comes back after it was evicted; it only
\* loses features, and only with -shrink=1.  The input of a feature only ever gets
\* smaller.
CorpusOnlyShrinks ==
  [][/\ Len(Inputs') >= Len(Inputs)
     /\ \A i \in 1..Len(Inputs) :
          /\ Inputs'[i].Sha1 = Inputs[i].Sha1
          /\ Inputs'[i].U \in {Inputs[i].U, Evicted}
          /\ Inputs'[i].NumFeatures <= Inputs[i].NumFeatures
          /\ ~ Options.Shrink => Inputs'[i] = Inputs[i]
     /\ \A s \in Seen : InputSizesPerFeature'[s] \in 1..GetFeature(s)]_vars

=============================================================================
