------------------------------- MODULE AsapClang -------------------------------
(***************************************************************************)
(* asap-clang: the compiler wrapper that keeps the stage of an ASAP build  *)
(* in a state directory, and the actors around it: the user who gives the  *)
(* -asap- commands and edits files, make, which runs one wrapper for each  *)
(* object file, and the program under test, which writes gcov counters     *)
(* into the state directory when it exits.                                 *)
(*                                                                         *)
(* Each object file has one sanity check; its cost is the counter in the   *)
(* object's .gcda file.  A compilation is one step, since each works on    *)
(* the files of its own object only; where the wrapper can be interrupted  *)
(* or can fail, the step ends with the files written until then.           *)
(*                                                                         *)
(* Assumed of the user: "make clean && make", as the commands ask for, and *)
(* no process of the program outlives its executable.                      *)
(***************************************************************************)
EXTENDS Thresholds

CONSTANTS
  Objects,     \* the object files
  Levels,      \* the pairs <<mode, level>> given to -asap-compute-threshold
  MaxVersion,  \* bound on the number of edits
  MaxHits      \* bound on the counters

ASSUME AsapClangAssumption ==
  /\ IsFiniteSet(Objects)
  /\ Levels \subseteq {"sanity", "cost"} \X (0..Den)
  /\ MaxVersion \in Nat /\ MaxHits \in Nat

NoFile  == -1  \* the file does not exist
Partial == -2  \* the command that writes the file did not finish

Versions == 0..MaxVersion
Stages   == {"initial", "custom", "coverage", "costs", "threshold", "optimize"}

\* A .gcda file: the versions of the program that added to it, and the counter.
Profiles == [of : SUBSET Versions, hits : 0..MaxHits]
NoProfile == [of |-> {}, hits |-> 0]  \* the file does not exist

\* A compiled object: what it is made from and how, and whether its check is gone.
Targets ==
  [by : {"initial", "plain", "custom", "gcov", "asap"}, of : Versions, removed : BOOLEAN]

VARIABLES
  source,         \* the version of each source file
  current_state,  \* the file current_state; "none" without a state directory
  hasCoverage,    \* the directory coverage_path exists
  gcno, orig,     \* objects -> the version, or NoFile
  gcda,           \* objects -> the profile, or NoProfile
  costs,          \* objects -> the cost, NoFile or Partial
  pending,        \* .gcda files that a running compute_costs has yet to read
  computing,      \* compute_costs is running
  threshold,      \* the threshold in the file threshold, or NoFile
  asked,          \* the level it was computed for
  target,         \* object -> the compiled object; partial
  program,        \* object -> what the executable consists of; empty without one
  todo,           \* objects that make has yet to compile
  making,         \* make is running
  ranSince        \* history: the program ran since compute_costs began

stateDir == <<current_state, hasCoverage, gcno, orig, gcda, costs, threshold, asked>>
acVars   == <<source, stateDir, pending, computing, target, program, todo, making, ranSince>>

None == [o \in {} |-> 0]  \* nothing is compiled or linked

ACInit ==
  /\ source = [o \in Objects |-> 0]
  /\ current_state = "none"
  /\ hasCoverage = FALSE
  /\ gcno = [o \in Objects |-> NoFile] /\ orig = gcno /\ costs = gcno
  /\ gcda = [o \in Objects |-> NoProfile]
  /\ pending = {} /\ computing = FALSE
  /\ threshold = NoFile /\ asked = <<"sanity", 0>>
  /\ target = None /\ program = None
  /\ todo = {} /\ making = FALSE
  /\ ranSince = FALSE

-----------------------------------------------------------------------------
(* The commands for the stages.  The fast forward of -asap-optimize is       *)
(* compute_costs, compute_cost_threshold and AsapOptimize in turn: each of   *)
(* them stores its stage, and the next one starts from there.                *)

\* -asap-init: the old directory is removed.
AsapInit ==
  /\ ~ computing
  /\ current_state' = "initial"
  /\ hasCoverage' = FALSE
  /\ gcno' = [o \in Objects |-> NoFile] /\ orig' = gcno' /\ costs' = gcno'
  /\ gcda' = [o \in Objects |-> NoProfile]
  /\ threshold' = NoFile /\ asked' = <<"sanity", 0>>
  /\ UNCHANGED <<source, pending, computing, target, program, todo, making, ranSince>>

\* -asap-custom, -asap-coverage and -asap-optimize only store the next stage.
Transition(from, to) ==
  /\ ~ computing
  /\ current_state = from
  /\ current_state' = to
  /\ UNCHANGED <<source, hasCoverage, gcno, orig, gcda, costs, threshold, asked, pending,
                 computing, target, program, todo, making, ranSince>>

AsapCustom   == Transition("initial", "custom")
AsapCoverage == Transition("initial", "coverage")
AsapOptimize == Transition("threshold", "optimize")

\* The .gcda files that exist.
GcdaFiles == {o \in Objects : gcda[o] # NoProfile}

\* Mutant: the next stage is stored before the work is done.
StageWhileComputing_Early == "costs"

\* The stage in the state directory while compute_costs runs: transition stores
\* the next one after the block.
StageWhileComputing == current_state

\* -asap-compute-costs: the list of .gcda files is read (Dir.chdir raises if the
\* directory is missing), ...
ComputeCosts ==
  /\ ~ computing
  /\ current_state = "coverage"
  /\ hasCoverage
  /\ computing' = TRUE
  /\ pending' = GcdaFiles
  /\ ranSince' = FALSE
  /\ current_state' = StageWhileComputing
  /\ UNCHANGED <<source, hasCoverage, gcno, orig, gcda, costs, threshold, asked, target,
                 program, todo, making>>

\* ... the analysis writes one .costs file for each, ...
WriteCosts(o) ==
  /\ computing /\ o \in pending
  /\ gcno[o] # NoFile /\ orig[o] # NoFile
  /\ costs' = [costs EXCEPT ![o] = gcda[o].hits]
  /\ pending' = pending \ {o}
  /\ UNCHANGED <<source, current_state, hasCoverage, gcno, orig, gcda, threshold, asked,
                 computing, target, program, todo, making, ranSince>>

\* Mutant: a file that fails is left out.
WriteCostsFails_Skipped(S) ==
  /\ computing /\ S # {} /\ S \subseteq pending
  /\ costs' = [o \in Objects |-> IF o \in S THEN Partial ELSE costs[o]]
  /\ pending' = pending \ S
  /\ UNCHANGED <<source, current_state, hasCoverage, gcno, orig, gcda, threshold, asked,
                 computing, target, program, todo, making, ranSince>>

\* ... and the first one that fails ends the command, with the files that other
\* workers are writing.
WriteCostsFails(S) ==
  /\ computing /\ S # {} /\ S \subseteq pending
  /\ costs' = [o \in Objects |-> IF o \in S THEN Partial ELSE costs[o]]
  /\ computing' = FALSE /\ pending' = {}
  /\ UNCHANGED <<source, current_state, hasCoverage, gcno, orig, gcda, threshold, asked,
                 target, program, todo, making, ranSince>>

CostsComputed ==
  /\ computing /\ pending = {}
  /\ computing' = FALSE
  /\ current_state' = "costs"
  /\ UNCHANGED <<source, hasCoverage, gcno, orig, gcda, costs, threshold, asked, pending,
                 target, program, todo, making, ranSince>>

\* The costs that compute_cost_threshold reads: nothing from a partial file.
CostsRead == [o \in {p \in Objects : costs[p] >= 0} |-> costs[o]]

\* -asap-compute-threshold; it raises when there are no costs or all are zero.
ComputeThreshold(m, l) ==
  /\ ~ computing
  /\ current_state = "costs"
  /\ TotalCost(CostsRead) > 0
  /\ threshold' = ThresholdFor(m, CostsRead, l)
  /\ asked' = <<m, l>>
  /\ current_state' = "threshold"
  /\ UNCHANGED <<source, hasCoverage, gcno, orig, gcda, costs, pending, computing, target,
                 program, todo, making, ranSince>>

-----------------------------------------------------------------------------
(* make, and the compiler of each stage.                                     *)

\* make clean && make
StartMake ==
  /\ target' = None /\ program' = None
  /\ todo' = Objects /\ making' = TRUE
  /\ UNCHANGED <<source, stateDir, pending, computing, ranSince>>

\* A compiler or the linker fails, create_compiler raises in the stages that have
\* none, or make is interrupted.
MakeFails ==
  /\ making
  /\ todo' = {} /\ making' = FALSE
  /\ UNCHANGED <<source, stateDir, pending, computing, target, program, ranSince>>

\* The compiler for o leaves object t.
Compiled(o, t) ==
  /\ target' = [p \in DOMAIN target \cup {o} |-> IF p = o THEN t ELSE target[p]]
  /\ todo' = todo \ {o}
  /\ UNCHANGED making

PlainObject(o)  == [by |-> "plain", of |-> source[o], removed |-> FALSE]
FromOrig(o, by) == [by |-> by, of |-> orig[o], removed |-> FALSE]

\* Mutant: only the bitcode and the notes are removed.
ProfileAfterInitial_Kept(o) == gcda

\* FileUtils.rm_f([gcno_name, gcda_name, orig_name]), when it gets to the second.
ProfileAfterInitial(o) == [gcda EXCEPT ![o] = NoProfile]

\* AsapInitialCompiler: how far it gets.  The files of an earlier build are
\* removed, one after the other; clang writes the notes, and bitcode that becomes
\* the .orig.o file; llc compiles that.  If one of these fails, the command is run
\* unmodified, which may fail, too.
InitialResults ==
  {r \in [removed : 1..3, notes : BOOLEAN, bitcode : BOOLEAN,
          by : {"initial", "plain", "none"}] :
     /\ r.removed < 3 => ~ r.notes /\ r.by = "none"
     /\ r.bitcode => r.notes
     /\ r.by = "initial" => r.bitcode}

InitialCompile(o, r) ==
  /\ making /\ o \in todo
  /\ current_state = "initial"
  /\ hasCoverage' = TRUE
  /\ gcno' = [gcno EXCEPT ![o] = IF r.notes THEN source[o] ELSE NoFile]
  /\ gcda' = IF r.removed >= 2 THEN ProfileAfterInitial(o) ELSE gcda
  /\ orig' = [orig EXCEPT ![o] = IF r.bitcode THEN source[o]
                                ELSE IF r.removed = 3 THEN NoFile ELSE @]
  /\ CASE r.by = "initial" -> Compiled(o, FromOrig(o, "initial")')
       [] r.by = "plain"   -> Compiled(o, PlainObject(o))
       [] r.by = "none"    -> todo' = {} /\ making' = FALSE /\ UNCHANGED target
  /\ UNCHANGED <<source, current_state, costs, threshold, asked, pending, computing, program,
                 ranSince>>

\* Mutant: the compilers of the later stages do not look for the file.
HasOrig_Always(o) == TRUE

\* File.file?(orig_name)
HasOrig(o) == orig[o] # NoFile

\* AsapCustomCompiler and AsapProfilingCompiler.
CompileFromOrig(o, stage, by) ==
  /\ making /\ o \in todo
  /\ current_state = stage
  /\ Compiled(o, IF HasOrig(o) THEN FromOrig(o, by) ELSE PlainObject(o))
  /\ UNCHANGED <<source, stateDir, pending, computing, program, ranSince>>

\* There are an .orig.o file and coverage data.
Optimizable(o) == HasOrig(o) /\ gcda[o] # NoProfile /\ gcno[o] # NoFile

\* The object that opt -asap-gcov makes: its check is removed if it costs the
\* threshold or more.
Optimized(o) ==
  [by |-> "asap", of |-> orig[o], removed |-> gcda[o].hits >= threshold]

OptimizingCompile(o) ==
  /\ making /\ o \in todo
  /\ current_state = "optimize"
  /\ Compiled(o, IF Optimizable(o) THEN Optimized(o) ELSE PlainObject(o))
  /\ UNCHANGED <<source, stateDir, pending, computing, program, ranSince>>

Link ==
  /\ making /\ todo = {}
  /\ making' = FALSE
  /\ program' = target
  /\ UNCHANGED <<source, stateDir, pending, computing, target, todo, ranSince>>

-----------------------------------------------------------------------------
(* The program under test and the user's editor.                             *)

\* The program exits: the gcov runtime adds the counters of each instrumented
\* object to its .gcda file, and creates missing files and directories.
Profiled == {o \in DOMAIN program : program[o].by = "gcov"}

RunProgram(h) ==
  /\ Profiled # {}
  /\ \A o \in Profiled : gcda[o].hits + h[o] <= MaxHits
  /\ gcda' = [o \in Objects |->
       IF o \in Profiled
       THEN [of |-> gcda[o].of \cup {program[o].of}, hits |-> gcda[o].hits + h[o]]
       ELSE gcda[o]]
  /\ hasCoverage' = TRUE
  /\ ranSince' = TRUE
  /\ UNCHANGED <<source, current_state, gcno, orig, costs, threshold, asked, pending,
                 computing, target, program, todo, making>>

Edit(o) ==
  /\ source[o] < MaxVersion
  /\ source' = [source EXCEPT ![o] = @ + 1]
  /\ UNCHANGED <<stateDir, pending, computing, target, program, todo, making, ranSince>>

-----------------------------------------------------------------------------
ACNext ==
  \/ AsapInit \/ AsapCustom \/ AsapCoverage \/ AsapOptimize
  \/ ComputeCosts \/ CostsComputed
  \/ \E o \in Objects : WriteCosts(o)
  \/ \E S \in SUBSET Objects : WriteCostsFails(S)
  \/ \E ml \in Levels : ComputeThreshold(ml[1], ml[2])
  \/ StartMake \/ MakeFails \/ Link
  \/ \E o \in Objects, r \in InitialResults : InitialCompile(o, r)
  \/ \E o \in Objects : CompileFromOrig(o, "custom", "custom")
  \/ \E o \in Objects : CompileFromOrig(o, "coverage", "gcov")
  \/ \E o \in Objects : OptimizingCompile(o) \/ Edit(o)
  \/ \E h \in [Objects -> 0..MaxHits] : RunProgram(h)

ACSpec == ACInit /\ [][ACNext]_acVars

-----------------------------------------------------------------------------
ACTypeOK ==
  /\ source \in [Objects -> Versions]
  /\ current_state \in Stages \cup {"none"}
  /\ {hasCoverage, computing, making, ranSince} \subseteq BOOLEAN
  /\ gcno \in [Objects -> Versions \cup {NoFile}]
  /\ orig \in [Objects -> Versions \cup {NoFile}]
  /\ gcda \in [Objects -> Profiles]
  /\ costs \in [Objects -> (0..MaxHits) \cup {NoFile, Partial}]
  /\ threshold \in (0..(MaxHits + 1)) \cup {NoFile}
  /\ asked \in Levels \cup {<<"sanity", 0>>}
  /\ {pending, todo} \subseteq SUBSET Objects
  /\ DOMAIN target \subseteq Objects /\ \A o \in DOMAIN target : target[o] \in Targets
  /\ program = None \/ program \in [Objects -> Targets]

\* "We had problems in the past with stale gcda files, that were then updated
\* incorrectly": the counters that are used for an object all come from the
\* bitcode that it is compiled from, however often the program is edited, built and
\* run, and with whatever programs of an earlier build.
ProfileMatchesBitcode ==
  \A o \in Objects : gcda[o] # NoProfile /\ orig[o] # NoFile => gcda[o].of = {orig[o]}

\* A command that fails half-way leaves a stage from which it is repeated: a
\* threshold is never computed from costs that are cut short, or that miss an
\* object that was profiled.
CostsWhole ==
  current_state \in {"costs", "threshold", "optimize"} =>
    \A o \in Objects :
      /\ costs[o] # Partial
      /\ ~ ranSince /\ gcda[o] # NoProfile => costs[o] = gcda[o].hits

\* The optimized program keeps the fraction of the profiled checks, or of their
\* cost, that the user asked for, if it is not profiled again after the costs were
\* computed.
LevelKept ==
  current_state = "optimize" /\ ~ ranSince =>
    LET gone    == {o \in DOMAIN program : program[o].removed}
        Cost(S) == IF asked[1] = "sanity" THEN Cardinality(S)
                   ELSE SumFunctionOnSet([o \in Objects |-> gcda[o].hits], S)
    IN  Den * Cost(GcdaFiles \ gone) >= asked[2] * Cost(GcdaFiles)

=============================================================================
