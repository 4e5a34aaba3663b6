# Verification of FUSS

This directory holds TLA+ models of the parts of this repository that are FUSS and
ASAP: compiler passes that remove expensive sanity checks, the compiler wrapper that
drives them, and the libFuzzer of this tree, whose corpus handling the focused-fuzzing
scripts rely on. TLC checks the models on small instances. TLAPS proves all
their safety properties for instances of any size: of detection and removal, of the merge
(which is also proved to implement its abstract specification), of the corpus of one process, of
processes that share a directory, of the wrapper, of the thresholds and of the costs behind
them, and of the runs of the experiment. Three liveness properties are left to TLC.
`PROJECT.json` maps every definition to the lines it models.

Paths below are relative to `src/`. Line numbers are those of this commit.

## 1. Inventory

The repository is a fork of LLVM. FUSS fuzzes a program with all of its instrumentation,
measures what the instrumentation costs, rebuilds the program without the expensive part
and goes on fuzzing with the same corpus.

| Part | State | Operations | Works with |
|---|---|---|---|
| `SanityCheckInstructions` (`lib/Transforms/SanityChecks/SanityCheckInstructions.cpp`) | `SCInstructions`, `SCRoots`, `InstructionsBySanityCheck`, two worklists, `ChecksByInstruction` | `runOnFunction`, `findInstructions` | dominator tree; read by the cost analyses and by the removal passes |
| Cost analyses (`SanityCheckSampledCost.cpp`, `SanityCheckGcovCost.cpp`, `SanityCheckCoverageCost.cpp`) | `CheckCosts` of the current function | `runOnFunction` | profile data, gcov files, coverage files |
| `AsapPass`, `AsapPassBase` | the function being changed | `removeExpensiveChecks`, `optimizeCheckAway` | the results of the two above |
| `utils.cpp` | none | predicates on instructions, debug locations | all passes |
| `ExitInsteadOfAbort` | none | rewrites calls of `abort` | - |
| `GCOV.cpp`, `CostModel.cpp` | tables | near-copies of LLVM's | gcov cost analysis |
| `asap-clang.rb`, `asap-clang-utils.rb` | the state directory: `current_state`, and for each object bitcode, notes, counters and costs; the threshold | the commands `-asap-init`, `-custom`, `-coverage`, `-compute-costs`, `-compute-threshold`, `-optimize`; one compiler class per stage | `opt`, `clang`, the passes |
| `InputCorpus` (`lib/Fuzzer/FuzzerCorpus.h`) | `Inputs`, `Hashes`, slots per feature, weights | `AddFeature`, `AddToCorpus`, `DeleteInput`, `UpdateCorpusDistribution`, `ValidateFeatureSet` | the fuzzing loop, the files of the output corpus |
| Fuzzing loop (`FuzzerLoop.cpp`) | run counters, current unit, options | `ShuffleAndMinimize`, `RunOne`, `MutateAndTestOne`, `RereadOutputCorpus`, `Loop`, signal, alarm and memory callbacks | `InputCorpus`, `TracePC`, the target, other processes through the directory |
| Merge (`FuzzerMerge.cpp`) | the control file; in each process a position in it | `CrashResistantMerge` (outer), `CrashResistantMergeInternalStep` (inner), `Parse`, `Merge` | two processes that share a file |
| `TracePC` | counters, all-time counters, value profile, module table | `HandleInit`, `HandleTrace`, `CollectFeatures`, `ResetMaps`, `PrintAllTimeCounters` | instrumented code; the coverage analysis reads what it prints |
| File access (`FuzzerIO*.cpp`) | the directories, with modification times | read, write, remove and list files | the corpus |
| Driver (`FuzzerDriver.cpp`) | job counter | `RunInMultipleProcesses`, `WorkerThread`, crash minimization | one process per job, all on one directory |
| Mutators, dictionaries | dictionaries | random changes of a unit | the fuzzing loop |
| Focused-fuzzing scripts (`asap/scripts/focused-fuzzing`) | a run number and two locks, shared and numbered directories and logs | `get_run_id`, `build_all`, `test_all`, `do_clean`, statistics | everything above |

### What is hard to get right

* The detection pass pops from sets of pointers, so its order differs from run to run. An
  instruction popped before its last user is classified must be reached again, and one
  that two checks share must be attributed to both.
* The removal pass deletes instructions while it iterates over sets of pointers to them.
  Which set the pointer is in decides whether one is followed after it was deleted.
* The analyses are shared by all functions of a module: what one function leaves behind
  must not be seen by the next.
* `AddFeature` records the position of an input that is added later, by somebody else. In
  between, the slots, the counts and the weights disagree with `Inputs`.
* Shrinking deletes a file before the file that replaces it is written. A signal, the
  memory limit or a crash can come between.
* Other processes write to the directory the loop reads again, remove files that it has listed,
  and are seen half-way through a write. Whether to read at all is decided by times in seconds.
* The coverage analysis has to find out by source locations which number a guard had in the
  fuzzed program, from the guards that happened to be covered, in a log of several jobs.
* The merge has a process that may die at any point, a thread in it that ends it for what
  an earlier input did, and a line buffer that dies with it. Resuming depends on what
  reached the file.
* The outer process must end after a bounded number of attempts, and not before all inputs
  had their turn.
* `asap-clang` keeps its state in files, which many short-lived processes read and write:
  compilers under a parallel make, the commands of the user, and the program under test,
  which adds counters to files of whatever build it came from. Any of them may fail half-way.
* Runs of the experiment share a directory. What is finished is recognized by the existence of
  files, and a run may be killed at any time, also while it holds a lock.

The full list, each hazard at its line, is `hazards` in `PROJECT.json`.

## 2. Modules

| Module | Role |
|---|---|
| `SanityCheckInstructions` | the detection pass |
| `AsapPass` | extends it with cost analysis and removal: the sequence of passes the pass manager runs on each function |
| `AsapPassProofs` | the inductive invariants of both, and their theorems |
| `MCFunctions` | small functions, shared by the two instances below |
| `MCSanityCheckInstructions`, `MCAsapPass` | instances for TLC |
| `FuzzerMerge` | outer process, inner process, control file |
| `CorpusMerge` | what a merge promises; `FuzzerMerge` implements it |
| `FuzzerMergeProofs` | its inductive invariant, theorems, and the proof of the refinement |
| `MCFuzzerMerge` | instances |
| `FuzzerCorpus` | corpus, slots, files and fuzzing loop of one process, with others writing files |
| `FuzzerCorpusProofs` | its inductive invariant and theorems |
| `MCFuzzerCorpus` | instances |
| `Thresholds` | what a cost threshold has to achieve |
| `ThresholdsProofs` | lemmas about sums over finite sets, and about thresholds |
| `CostThreshold`, `MCCostThreshold` | the loops that compute one, and its instances |
| `AsapClang` | state directory, commands, compilers, make, the profiled program |
| `AsapClangProofs` | its inductive invariants and theorems; extends `ThresholdsProofs` |
| `MCAsapClang` | instances |
| `SharedCorpus`, `MCSharedCorpus` | fuzzing processes on one directory, and their instances |
| `SharedCorpusProofs` | its inductive invariant and theorems |
| `CoverageCost`, `MCCoverageCost` | from counters to the guards that are removed; extends `Thresholds` |
| `CostProofs` | inductive invariants and theorems of `CostThreshold` and of `CoverageCost` |
| `FussRuns`, `MCFussRuns` | the runs of the speed experiment in one directory |
| `FussRunsProofs` | its inductive invariant and theorems |

Operators whose name has an underscore and a comment that begins with `Mutant` are wrong
versions of the operator that follows them. They are not used by any specification; they
serve to show that each property notices the mistake.

### SanityCheckInstructions

A function is a record of instructions, blocks, bodies, operands, successors and
dominated blocks; `WellFormed` states what LLVM guarantees about it. The pass tells apart
seven kinds of instruction: a root (a call of an instrumentation function), inline
assembly for a side effect, a load, `unreachable`, the two forms of branch, and all
others.

| Action | Code |
|---|---|
| `RunOnFunction` | `runOnFunction` and the first loop of `findInstructions`: the members are cleared, roots and the instructions behind them are queued |
| `SkipInstruction`, `AddInstruction` | one iteration of the loop over `Worklist` |
| `WorklistEmpty` | the end of that loop |
| `SkipBlock`, `QueuePredTerminator` | one iteration of the loop over `BlockWorklist` |
| `BlockWorklistEmpty` | the end of that loop, and the condition of the outer one |
| `FunctionDone`, `ModuleDone` | the pass manager |

The element a `SmallPtrSet` yields first depends on addresses, so the model picks any.
`CBI` and `IBS` are the code's `ChecksByInstruction` and `InstructionsBySanityCheck`, made
total: an absent key has the value `{}`. `ChecksByInstruction` is a local variable of the
code, and a new one for each function.

### AsapPass

`ComputeCosts` stands for the cost analyses and gives any cost to any root; `NoCosts` is
the case in which the coverage analysis finds no offset for the function. `RemoveCheck` is
one iteration of `removeExpensiveChecks` including all of `optimizeCheckAway`; `KeepCheck`
is an iteration that reaches a check below the threshold. Checks come by decreasing cost,
in any order among equals. The costs of a function stay until the analysis of the next one
clears them, which it does before it may give up: until then `CheckCosts` points to checks that
are deleted.

### FuzzerMerge and CorpusMerge

The control file is the sequence of its STARTED and DONE lines; the header is fixed by
`in`. A STARTED line is written and flushed. A DONE line goes to `buffer`; when it is
longer than the stream's buffer its beginning goes to the file first, as a torn line.
What is written next completes a torn line: the rest of it if the same process goes on,
otherwise the STARTED line of another process, which is then lost as a line of its own.

`Launch` is one iteration of the outer loop up to `ExecuteCommand`, with the inner
process's `ParseOrExit`; `Reap` is its return. `StartInput` and `FinishInput` are the body
of the inner loop before and after the target ran. `Crash`, `OutOfMemory` (the thread that
polls the peak memory use), `InterruptInner` and `Return` are the ways an inner process
ends. `Merge` is `ParseOrExit` and `Merger::Merge`: every order that `std::sort` may leave
is considered. `Write` and `Cleanup` copy the selected files and remove the control file.

`CorpusMerge` has one verdict per input, and a result. Its `Finish` may happen when every
input was executed or has failed, or when the merge was interrupted; the result keeps
every known feature, holds a smallest input for each new one, and holds no input in vain.
`FuzzerMerge` implements it under the mapping at its end: an input is "done" from its DONE
line, and "failed" when it has a STARTED line, no DONE line, and no process that still
works on it. A run in which a DONE line can be torn is out of the mapping's scope
(`InScope`); section 6 says what happens then.

### FuzzerCorpus

`LoadUnit` to `LoadDone` are `ShuffleAndMinimize`; `ExecuteCallback`, `ReportFeature` and
`CollectDone` are `RunOne` with its caller's test of the result; `FillSlot` is the loop by
which `-benchmark=1` forces a unit without new features into the corpus; `AddToCorpus`
includes `UpdateCorpusDistribution` and `ValidateFeatureSet`; `WriteToOutputCorpus` is the
write of `ReportNewCoverage`. `RereadOutputCorpus`, `ReloadUnit` and `ReloadDone` are the
reload, `ChooseUnitToMutate`, `Mutate` and `MutateDone` are `MutateAndTestOne`. `AddFeature`
is one call: a feature keeps its owner, is new, or goes to a smaller unit, in which case
`LoseSlot` takes it from its owner and `DeleteInput` may delete a file.

A unit stands for its bytes, its hash and the name of its file. `Stop` is anything that ends
the process. `OtherProcess` writes a file. A target gives each unit a set of possible
feature sets, so a target may be flaky; features are numbers, and two that are equal modulo
`kFeatureSetSize` share a slot, as in the code. Mutation produces any unit. With
`CountingFeatures` unset the weights are all positive, as in the code.

The outcome of `assert` is the state "aborted", that of an index outside `Inputs` is
"undefined": after it nothing is claimed.

### Thresholds and CostThreshold

`Thresholds` defines when a threshold honours a level (`Honours`) and when no lower one would
(`IsLowest`). `CostThreshold` is the code: `SanityStep` and `CostStep` are one iteration of the
two loops of `compute_cost_threshold`, `FprecStep` one of `get_threshold_for_costlevel`. Levels
are exact fractions, where the code has floating point numbers. The list is sorted; sorting is
the library's.

### AsapClang

The files in the state directory are functions from objects to what the file was made from: a
version of the source, or for a `.gcda` file the set of versions that added counters to it,
and the counter. An object has one check. `InitialCompile` is all of
`AsapInitialCompiler::do_compile`, with a result for each point at which it can fail or be
interrupted, also between the three deletions at its start (`InitialResults`); `CompileFromOrig` is the compiler of the custom and of the
coverage stage, `OptimizingCompile` that of the last. `ComputeCosts`, `WriteCosts`,
`WriteCostsFails` and `CostsComputed` are `compute_costs`, with its parallel workers. The stages
through which `-asap-optimize` may fast-forward are the same transitions one after the other.
`ComputeThreshold` takes the threshold that `CostThreshold` is shown to compute
(`ThresholdFor`; `LoopsAgreeWithModel`). `StartMake` is `make clean && make`, `RunProgram` is the exit of a
program with its gcov runtime, `Edit` is the user; these three are outside the repository.
`ranSince` and `asked` record history for the properties.

Commands may be given while make runs, since nothing in the code prevents it. Two commands do
not run at the same time, and no process of the program outlives its executable.

### SharedCorpus

`proc` has the process of each worker: where it is (`pc`), what it reads (`reading`: the initial
corpus, or the reload; "mutate" when it reads nothing), `EpochOfLastReadOfOutputCorpus`, and its
corpus as the owner of each feature. The directory is a function from names to what a file
holds, its time, and the processes that have it open for writing.

| Action | Code |
|---|---|
| `StartJob`, `JobDone`, `JobFails` | `WorkerThread`, and the ways a process ends |
| `RereadOutputCorpus` | `Loop` and the time of the directory in `ListFilesInDirRecursive` |
| `ListFiles`, `StatFile`, `FileToVector` | `readdir`, and for each file `GetEpoch` and the read |
| `RunQueued`, `QueueDone`, `Mutate` | `ShuffleAndMinimize`, `RereadOutputCorpus`, `MutateAndTestOne`; all of `RunOne` |
| `RemoveFile` | `DeleteInput` |
| `OpenFile`, `CloseFile` | `WriteToFile` |
| `Tick` | the clock |

The memory of a process is its own, so one step may do everything between two system calls. A
file that is open for writing may be read as any of its beginnings (`Partials`). A file that has
disappeared since it was listed has the size `size_t(-1)`, cut to the maximal length, and is read
as zeros (`Zeros`). Two processes that write the same file write the same bytes; if one of them
ends in the middle, the model lets the file keep any beginning until the other has finished.

### CoverageCost

A program is a sequence of functions, each with its name, its module, and the locations of its
guards. `HandleInit` numbers the guards of a process, `HandleTrace` counts, `JobEnds` appends the
lines of a job to the log and `JobKilled` does not. `EstimateThreshold` is
`alltimecounter_statistics.py`; its loop is checked in `CostThreshold`, and `FprecLoopResult` says
what it returns. `RunOnFunction` is the coverage analysis of one function and the removal:
`Covered` and `RangeFirst`, `RangeSecond` are what `loadCoverage` keeps for it, `Offsets` and `GuardIndexOffset` are
`computeTracePCGuardIndexOffset`. Lines of guards without a location are dropped when the log is
read (`Covered`), but count for the threshold. A location is a line and a discriminator; file and function
of an inlined frame are part of the line. The symbolizer maps a guard to its location.

### FussRuns

A run takes a number (`TakeLock` to `WriteId`, with the emptying of the file as a step of its
own) and then makes eleven files in order (`Kinds`): four shared ones, among them the two versions
of libFuzzer, and seven that have its number in their names. Each version of libFuzzer is recognized
by its archive; a run that dies before it has one leaves a directory, at which the `mkdir` of the
next run fails until somebody cleans up. A run that dies between the two versions leaves nothing
that is in the way. `Skip` takes what is there, `Begin` and `End` make it, `WaitForPerf` and
`BeginPerf` are the lock of `profile_fuzzer`. `Skips` has the test the script uses for each. A
file is partial, whole, bad (made, but not from complete files) or spoiled by two writers; `by`
is who worked on it. `Fail` is a command that fails under `set -e`, or a kill; the kernel gives
back the locks. `StartFirst`, `GoOn` and `StartParallel` are
`speed_and_coverage_experiment.sh`, and `Clean` is the user's `ff.sh clean` after a failure.
`numberLost` and `sourcesLost` record history for the property.

## 3. Runs

`tlc -config X.cfg M` for the module and the file named in `PROJECT.json`. Runs marked V are
expected to find a violation; each corresponds to a finding in section 6.

| Run | What it shows |
|---|---|
| `instructions` | For every order of the worklists: all state belongs to the function (`SCITypeOK`), each root has its entry (`RootsAttributed`), the result is closed (`ClosureComplete`), a check owns the operands of what it owns (`OperandsAttributed`), only branches around checks are classified (`BranchesGuardOnlyChecks`), and the loops end (`Terminates`). |
| `removal` | With any costs: only expensive checks and the assembly behind them are deleted (`KeptChecksIntact`), only loads without ordinary users lose their ordering (`OnlyCheckLoadsRelaxed`), and no instruction is deleted twice (`NoSecondErase`). |
| `merge` | The control file always parses, every failing attempt makes progress, a DONE line is lost only through the memory limit, the selection loses no feature, the merge ends, and it implements `CorpusMerge` (so that all inputs had their turn). |
| `merge_interrupted` V | An interrupted inner process ends the merge before all inputs had their turn. |
| `corpus` | Counts are exact at every moment (`FeatureCountsExact`), no assertion fails (`NoAssertionFails`), exactly the units that are alive can be chosen (`WeightsCurrent`), owners are smallest (`OwnersAreSmallest`), the files have all features between executions (`FeaturesOnDisk`) and all but one unit's at any moment (`StopLosesOneUnit`), and the corpus only shrinks (`CorpusOnlyShrinks`). |
| `threshold` | The search does not run off the end, the threshold leaves what the level asks for although equal costs go together, it is the lowest one, and a cost level keeps what costs nothing (`ThresholdIsRight`). |
| `asap_clang` | Counters belong to the bitcode they are used with (`ProfileMatchesBitcode`), a threshold is never computed from incomplete costs (`CostsWhole`), and from the source to the optimized program the level is kept (`LevelKept`). |
| `shared_corpus` | A process misses no file that is older than its last reading of the directory (`ReloadMissesNothingOld`), and no process removes or damages the file of the one smallest unit of a feature, or any file without `-shrink=1` (`SmallestKept`). |
| `shared_lost` V | With `-shrink=1` two processes together remove a feature from the disk. |
| `coverage_cost` | The guessed offset takes costs only from guards of the same function and location (`CostsFromSameLocation`); what is removed costs the threshold, the asked fraction of the cost stays, and with one job all that costs the threshold is removed (`RemovedAreExpensive`). |
| `coverage_jobs` V | With two jobs an expensive check is kept. |
| `fuss_runs` | A run that ends well used complete shared files and its own numbered ones (`RunsIndependent`), and every run that was started ends (`RunsEnd`). |

### Bounds, and why they are enough

* `instructions`: all acyclic graphs of four blocks with at most two successors each, every
  choice of blocks with checks, with a value used by checks only or by ordinary code too; the
  five-block figure from the comment of `findInstructions`, a loop, the control flow of
  `test_non_dominating_branch.c`, and two modules of two functions. Four blocks are the
  smallest size at which a branch has two sides and a join below which there is more code, so
  all conditions of the second loop can be true or false independently. Two functions show
  what is left from the first. Size is no bound for the proofs of section 5.
* `removal`: three-block graphs and the larger functions above; costs 0, 1 and 2 around the
  threshold 1, so a check is below, at, or above it, and costs may be equal.
* `merge`: no inputs; all corpora of two inputs over two sizes and two features, with every
  set of crashing inputs, of inputs over the memory limit, and every length of the first
  corpus; three inputs with chosen features. Three inputs are enough for an input that comes
  before, at, and after the one at which a process dies, and three attempts. Two features are
  enough for an input that is made superfluous by two others.
* `corpus`: four units of sizes 1, 1, 2 and 3, four slots with two collisions, a deterministic
  and a flaky target, all option settings (the initial corpus sorted by size or not), at most six runs (`MaxNumberOfRuns`) and reloads
  before the fourth (`ReloadBound`). The units are chosen so that a unit can lose its features
  to two different smaller ones, or all to one; an input can thus be evicted in one execution
  or over several, before and after it was written.

* `threshold`: all sorted lists of up to four costs from 0 to 3, and levels from 0 to 5/4 in
  quarters: ties at either end and in the middle, zeros, and levels between, on and beyond
  what a list can give.
* `asap_clang`: two objects, one edit of each, counters up to 2, and the levels "one of two
  checks", "half of the cost" and "nothing". Two objects are enough for a command that fails
  for one of them; one edit is enough for two versions in one file.

* `shared_corpus`: two workers and two jobs, four units, one find per process and three seconds.
  One unit's beginning is another unit, and one unit is what a vanished file is read as. One
  second is needed for a file before the reading, one for the reading, and one for the reload
  after it; two processes that each find a unit can remove and re-create each other's files.
  1.7 million states. A worker without a job ends, so a state without successors is no error.
* `shared_lost`: five units and three finds, which the loss needs; one second.
* `coverage_cost`: two jobs with up to three hits each, and six programs: all locations
  different; the same location three times between two functions of the module; a function of
  another module in front; discriminators; missing locations; two static functions of the same
  name. Every subset of up to three guards can be covered, so the range and the offset are
  guessed from the first, the last or the middle guard only.
* `fuss_runs`: three runs: a first one, which may fail and be repeated, and two in parallel.
  The experiment ends, so here too a state without successors is no error.

`MaxFinds`, `MaxTime` and `MaxHits` are the model's own bounds; the program goes on for ever.
`MaxNumberOfRuns` is the code's `-runs`. `ReloadBound` is the model's own: without it the
reload could repeat for ever without a new state.

### Fairness

`SCIFairSpec` has weak fairness of the whole next-state relation: the pass is one thread and
runs until it returns. `Terminates` needs no more. `FuzzerMerge` has weak fairness of the
inner and of the outer process separately: the operating system runs both until they end.
There is none for the interrupt, and none that would make an input crash or finish; an input
that does neither would be ended by the timeout, which the model counts as a crash.
`MergeEnds` holds under these two. `FuzzerCorpus` states no fairness: its loop may run for
ever by design. `AsapClang` has none either: a user may stop at any stage. The loops of
`CostThreshold` are bounded by the length of the list. `FussRuns` has weak fairness of the steps
of each run: a compiler ends, each fuzzer is started with a limit on its time or runs, `flock` has a
timeout or waits for a run that ends. There is none for failures, for cleaning, or for starting
a run. Since each wait for the lock of perf is followed by no second one by the same run, weak
fairness is enough for `RunsEnd`. `SharedCorpus` and `CoverageCost` state none.

## 4. Assumptions of the models

* `FunctionsWellFormed`: LLVM's verifier. An instruction is in one block, blocks are not
  empty, and an instruction without a value is no operand. The dominator tree is any map in
  the proofs, and the real one in the instances.
* `CorporaWellFormed`, `CorpusAssumption`, `CostsAreNaturals`, `CostListsSorted`,
  `DenAssumption`, `AsapClangAssumption`, `CoverageAssumption`, `SharedAssumption`,
  `RunsAssumption`: types of the inputs; units are
  not empty and have finitely many features.
* The target is any function from units to sets of features (of a flaky target: a choice
  of them). It is not influenced by earlier executions.
* The user cleans before each build, as each command asks for.
* Nobody removes an input while a merge runs. For a listed file that is gone, `FileToVector` ends
  the inner process before the STARTED line (`FuzzerIO.cpp`, lines 35-38); see section 6.
* Hash collisions of SHA1 are left out: a unit is its hash.

## 5. Proofs

Each theorem is `Spec => []P` for a property `P` that a run checks (or, for `CorpusOnlyShrinks` and
`ImplementsMerge`, `Spec => P`; `FprecResult` and `LoopsKeepThose` are proved but not run), and holds for every value of the constants that satisfies the
assumptions of section 4, all of which TLC evaluates. Bounds such as `MaxFinds` or `MaxVersion`
are constants like the others: nothing depends on how large they are. One inductive
invariant carries all theorems of a specification (`AsapClang` has four, one on top of the other). There is one lemma per action, with one step per
conjunct that the action can disturb, and *frame* lemmas for the many actions that leave most
of the state alone.

| Module | Invariant | Properties proved |
|---|---|---|
| `AsapPassProofs` | `SCIInv` | `SCITypeOK`, `RootsAttributed`, `ClosureComplete`, `OperandsAttributed`, `BranchesGuardOnlyChecks` |
| | `AsapInv` | `AsapTypeOK`, `KeptChecksIntact`, `OnlyCheckLoadsRelaxed`, `NoSecondErase` |
| `FuzzerMergeProofs` | `MergeInv` | `MergeTypeOK`, `ControlFileParses`, `EveryAttemptProgresses`, `OnlyCrashersLost`, `NoFeatureLost`, `ImplementsMerge` |
| `FuzzerCorpusProofs` | `CorpusInv` | `CorpusTypeOK`, `FeatureCountsExact`, `NoAssertionFails`, `WeightsCurrent`, `OwnersAreSmallest`, `FeaturesOnDisk`, `StopLosesOneUnit`, `CorpusOnlyShrinks` |
| `SharedCorpusProofs` | `SharedInv` | `SharedTypeOK`, `ReloadMissesNothingOld`, `SmallestKept` |
| `AsapClangProofs` | `ProfileInv`, `CostsInv`, `TypeInv`, `LevelInv` | `ProfileMatchesBitcode`, `CostsWhole`, `ACTypeOK`, `LevelKept` |
| `CostProofs` | `CTInv` | `CTTypeOK`, `ThresholdIsRight`; also `FprecResult`, `LoopsKeepThose` |
| | `CCInv` | `CCTypeOK`, `CostsFromSameLocation`, `RemovedAreExpensive` |
| `FussRunsProofs` | `FRInv` | `FRTypeOK`, `RunsIndependent` |

### Detection: AsapPassProofs, first part

For all functions that satisfy `WellFormed`, all modules and all orders of the worklists. None of
the properties is inductive: each speaks about the end of the loops, or about instructions
that were added, and says nothing about what still waits in a worklist. `SCIInv` has these parts:

* `Closed`: the users of a sanity check instruction are sanity check instructions. So an
  instruction that is added was not an operand of one that comes later, and attributions that
  are copied to operands are never late.
* `RootsPending`: a root is in the worklist or has its entry.
* `ClosurePending`: a value that only sanity checks use is one, or is in the worklist. This is
  why dropping an operand that was popped too early is right: its last user queues it again.
* `Inherited`: between adding an instruction and adding its operands, its checks wait in
  `ChecksByInstruction` of the operands.
* `QueuedBranches`: a queued conditional branch guards only checks. `GuardsMonotone` shows that
  this stays true while `SCInstructions` grows.

### Removal: AsapPassProofs, second part

For every sequence of functions, all costs, thresholds and orders of the loop over the checks.
`AsapInv` contains `SCIInv`: removal is right because detection was. `Attributed` is what
detection leaves for it: calls and inline assembly, which are what removal deletes, are
attributed only by the first loop, since they are nobody's operands. `OneInstrumentationInBB` shows
that the first loop gives assembly to one check only, the last root before it in its block. With
`ErasedBehind` (what is deleted is an expensive check that was reached, or assembly behind one),
no check that is kept, and none whose turn comes later, loses anything.

### Merge: FuzzerMergeProofs

For every corpus, every order of inputs of equal size, and inner processes that crash, run out of
memory or are interrupted at any point. The difficulty is that the control file is written by a
buffered stream and read by somebody else. `InStep` relates the file, the buffer and the position
of the inner process, and is stated about `Settled`, the file without the beginning of a line whose
rest is still in the buffer. `Clean` says what such a file looks like: STARTED lines for
one input after the other, each with at most one DONE line right behind it, which is what the
parser accepts (`InStepParses`) and what lets the next process find its place. `Attempted` follows
the number of STARTED lines against the number of attempts; `Survived` says that the only input
without a DONE line that did not crash is the one in progress.

`GreedyMerge` is about the algorithm: `Merge` goes through the inputs by size and keeps those with a
new feature. That the result has every feature, and a smallest input for each new one, is shown
without induction, from the least position at which a feature occurs (`LeastOf`).

`MergeRefines` proves `Spec => Abstract!Spec`, with the refinement mapping of `FuzzerMerge`. A
flush is the abstract step that executes the input whose DONE line it writes (`FlushStep`), the end
of a process is the step in which the input it was busy with fails (`DieStep`), the selection
is the abstract merge (`FinishStep`, from `GreedyMerge`), all else stutters (`QuietStep`). As in
the run, corpora with lines so long that a stream writes them in two parts (`in.long`) are
outside the refinement, and the other properties exclude them where a process can die in between
(`Tearable`); section 6 names what happens there.

### Corpus of one process: FuzzerCorpusProofs

For every target, flaky or not, any number of units and slots (hash collisions between features
included), all options, and other processes that write files. `Counts` holds between two calls of
`AddFeature`, where slots already point to a position that `Inputs` does not have yet; this is
why `Res` and not `NumFeatures` counts them until `AddToCorpus`. `OwnerExists` then shows that the
owner of a slot that is taken away is an input with a slot to lose, so the unsigned count
never goes below 0 and no assertion fails. `Owners` is what deletion of files rests on: every
feature of every input is owned, by an input not larger. So a unit that is run again takes
nothing, no two inputs are the same unit, and a file that is deleted belongs to no other input.
`BaseOneUnitShort` concludes that at every moment at most the features of the unit in hand are not on
disk; `FeaturesOnDisk` and `StopLosesOneUnit` follow. `CorpusOnlyShrinks` is an action property;
it is proved from the same invariant (`StepShrinks`).

### Shared directory: SharedCorpusProofs

For any number of processes, jobs and units. `Reading` is the invariant of a reading that
takes many system calls while others write: what is whole and older than the start of the reading is
known, or still on one of the lists. It needs `Disk`, which says that a file without a writer is whole
unless a writer died in it, and the fact that whatever is written from now on is at
least as young as the clock (`LaterReading`). `Memory` says that a unit that will be evicted has lost its features
to smaller ones, so it is not the one smallest unit of a feature, in no matter whose view
(`RemoveFileInv`). The promise is about units that a process found; `shared_lost`
(section 6) shows that no more than this holds.

### Wrapper: AsapClangProofs

For any set of objects. A profile is only as good as the executable that writes it, so
`ProfileInv` follows instrumented code from bitcode to object to executable
(`FromPresentBitcode`: it comes from the bitcode that is there, or there is none), and says why
bitcode cannot be replaced under an executable that still runs (`CleanFirst`: there is none
while make runs). The step that needs the code's care is `InitialCompile`: it replaces the
bitcode and removes the counters together. `CostsInv` follows the cost files: one that was cut
short belongs to an object that has counters (`CostFiles`), so the next `-compute-costs` writes it
again before it stores its stage (`CostsSoFar`).

`LevelInv` follows the level from `-asap-compute-threshold` to the program. The threshold honours the
level for the costs that were read (`ThresholdKept`), those come from counters that are there
(`CostsMeasured`), and only objects that cost the threshold have lost their check
(`OnlyExpensive`). The hard case is a program that is left from an earlier `-asap-optimize`, whose
checks went by an old threshold: no object of it can run instrumented and be measured before
the next `make clean` (`LeftOver`). `LevelFromInv` then compares the sum over the kept objects with
the sum over all of them. `TypeInv` needs `BuildSoFar`: every object is built or waits to be.

### Sums and thresholds: ThresholdsProofs

The library's sums are folds, defined by recursive functions chosen with `CHOOSE`. Induction
theorems cannot be used, as they take an operator; the lemmas `NumberInduction` and
`SubsetInduction` take a *set* of numbers, or of subsets, instead of a predicate, and are proved
from the existence of a least number. From them it follows that the recursive function exists and is
unique (`SumExists`, `SumUnique`), and that a sum can be unfolded at any element (`SumRemove`), split
and compared. `ThresholdForFacts` shows that a threshold exists for every level up to 1, so
that `ThresholdFor` does not choose from nothing; `OneThreshold` that all thresholds keep the
same checks.

### Loops that compute a threshold: CostProofs, first part

For every sorted list of natural numbers and every level up to 1. `SoFar` is the loop invariant of
`compute_cost_threshold`: the threshold so far honours the level, and no check that was looked at
gives a lower one, except those that cost the same as the next one. `KeptBehind` is what the
code's conditions rely on: at the last of several equal costs, the checks that are kept are those
behind it in the list. `FprecLoop` is the invariant of the loop that walks the list from its other end
(what was added up is not enough yet), `FprecResult` what that loop returns: `CoverageCost` takes
its threshold by this formula. `LoopsAgreeWithModel` joins `CostThreshold` and `AsapClang`.

### Coverage costs: CostProofs, second part

For every program, any number of jobs and every set of guards that they pass. `CCInv` says that each
line of the log has the number `HandleInit` gave its guard (`LineFor`; a job counts only behind
guards with numbers), and that every compiled function has the offset and the removed guards that
the code computes from the log. `SortedExists` shows that the lines of a job can be printed in order.

The argument about the guess is `FoundOffset`. The true offset of a function lies in the range that
the neighbours leave (`RangeFacts`), and at the true offset every covered line agrees with its own
call, so as many pairs agree as there are lines; at any offset at most one call agrees with
each line (`AgreeFacts`). Hence the offset that is found is one at which *all* lines agree with some
call of the same location, and as it is the first of those it is never above the true one. If no two
calls of a function have the same location, it is the true one (`ExactLine`). Functions
of the same name and calls without a location are excluded (`Unambiguous`): a line of the log may
then belong to another function, or agree with no call.

`RemovedFacts` compares a line with the sum: the pass reads one line of a check, the script added up
all of them. So a removed check costs the threshold in total, the kept ones include all that
`FprecThreshold` counted as kept, and the preserved cost is at least what was asked for.

### Runs of the experiment: FussRunsProofs

For any finite set of runs. `Alone` (until the first run is done, no other has started) is why the
shared files are complete when they are used (`SharedMade`). The unmodified libFuzzer is needed late:
the initial build links without it, so a run may come as far as its variants with a libFuzzer that
lacks an object. There it fails, and since no variant is linked against such a libFuzzer
(`FussedLinked`), no first run ends well with one. `Fresh` is why numbers are not
given twice: whoever writes `run_id` holds its lock and read the last number. `OwnMade` describes
each file with a run's number from how far the run is. A run that dies while it gets the
sources, or between emptying and writing `run_id`, breaks `SharedMade` or `Fresh`; the
history variables `sourcesLost` and `numberLost` record it, and the property excepts it.

### Only model-checked

* `Terminates`, `MergeEnds` and `RunsEnd`: liveness under fairness is out of the prover's reach.
* The correspondence of the list that `CostThreshold` walks with the function `Costs` of
  `CoverageCost`, that is, of sorting: `FprecResult` has the formula of `FprecThreshold`, for a list.
* A merge in which DONE lines can be torn: it only keeps the part of the invariant that is not
  under `~ Tearable`, which is enough for `MergeTypeOK`.

## 6. Findings

Shown by a run:

1. `merge_interrupted`: an inner process that is interrupted exits with 0, which the outer
   process takes for the end of the work. `build_all` in `ff-common.sh` then removes the old
   corpus (lines 286-298).
2. `shared_lost`: two processes with `-shrink=1` have found units of equal size with a common
   feature. The same smaller unit takes the other feature of each. Each process keeps the common
   feature with a unit of the other, and removes its own file, on which the other relies.
   Without `-shrink=1` nothing is removed.
3. `coverage_jobs`: `alltimecounter_statistics.py` adds up the counters of all jobs and computes
   the threshold from the sum; the pass takes the first counter it finds. A check whose cost is
   spread over the jobs is kept. `RemovedAreExpensive` shows that the error is only on this side.

Seen while modelling, and not the subject of a run:

* `SanityCheckInstructions.cpp`, line 150: a block leaves the worklist when it is looked at. A
  branch above two checks in a chain is then never queued, if the code below is classified
  later, although one side "contains only sanity check blocks" (lines 135-138).
* `AsapPassBase.cpp`, line 113: an assembly call is tested with `dyn_cast` after
  `eraseFromParent`.
* `FuzzerMerge.cpp`, line 202: a DONE line longer than the stream's buffer, cut by the memory limit,
  makes the control file unreadable.
* `FuzzerMerge.cpp`, line 179: if a listed file disappears, every inner process exits with 1 when it
  comes to it, before the STARTED line. The next one begins at the same input, so all remaining
  attempts are used up and the inputs behind it are never executed.
* `FuzzerLoop.cpp`, line 745: with `-benchmark=1` a unit that is not added when it is reloaded
  keeps its slots, and the next one that is added fails the assertion of `ValidateFeatureSet` (in
  builds with assertions).
* `asap-clang.rb`, line 235: when `llc` fails in the first stage, the `.orig.o` file stays, and
  later stages compile the object from it, although "ASAP won't touch the target file again".
* `ff-common.sh`, line 123, and the `init_target` functions: the two moments that
  `RunsIndependent` excepts.

## 7. Not modelled

* Parsing of gcov, profile and coverage files; instruction costs; wording of reports: input and
  output without state.
* Of `asap-clang`: the rewriting of command lines, paths, archives; objects that it never
  touches (`conftest`, targets that are not `.o` files).
* Mutators and dictionaries: random data; the corpus model lets them produce anything.
* `ExitInsteadOfAbort`: one rewrite without state.
* The sampled and the gcov cost analysis: sums over profile data; `AsapPass` takes any costs.
* Of `TracePC`: the counters that become features, their classes and wrap-around, and value
  profiles. `FuzzerCorpus` takes any set of features.
* Of the driver: crash minimization, whose inner step asserts a size above 2 while the outer loop
  starts it for 2 (`FuzzerDriver.cpp`, line 345), and the exit code of `-jobs`.
* The older merge in `FuzzerLoop.cpp`, superseded by `FuzzerMerge.cpp`.
* Of the scripts: the commands `fuss` and `baseline`, which call the same functions in another
  order, the AFL variants, and plots. Processes that outlive a killed run and keep the lock of perf
  are not in `FussRuns`.
* LLVM itself appears as `WellFormed` and as the order of passes. It is nearly all of this
  repository's 1.8 million lines: FUSS, ASAP and libFuzzer are some ten thousand of them, so the
  share of the repository that is mapped stays small whatever is modelled.

## 8. Plan

Done: all modules of section 2, and proofs of all their safety properties. Left, in this order:

1. The loop of crash minimization; counters that wrap in `TracePC`.
2. The sampled and the gcov cost analysis, as far as they are more than reading of files.
3. Shorter proofs of `FussRuns` and `FuzzerMerge`, by more frame lemmas.
