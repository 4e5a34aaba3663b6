---------------------------- MODULE CoverageCost ----------------------------
(***************************************************************************)
(* The costs of FUSS in precise mode, from the guards that count to the    *)
(* guards that are removed: the trace_pc_guard callbacks of libFuzzer      *)
(* (lib/Fuzzer/FuzzerTracePC.cpp), the jobs that print their counters into *)
(* one log, the threshold computed from the log                            *)
(* (alltimecounter_statistics.py), the analysis that finds out which line  *)
(* of the log belongs to which guard (SanityCheckCoverageCost.cpp), and    *)
(* the removal (AsapPassBase.cpp).                                         *)
(*                                                                         *)
(* A function has a sequence of guards, counted from 0 by the compiler.    *)
(* The linker puts the functions one after the other, and the runtime      *)
(* counts all guards from 1.  The compiler does not know where a function  *)
(* ended up; it guesses the offset from the source locations in the log.   *)
(***************************************************************************)
EXTENDS Thresholds, FiniteSetsExt

CONSTANTS
  Programs,   \* sequences of functions: their name, module and guards' locations
  Jobs,       \* the processes of one profiling run
  MaxHits,    \* a bound on the guards that a job passes
  CostLevels  \* as numerators over Den

ASSUME CoverageAssumption ==
  /\ Programs \subseteq
       Seq([name : STRING, module : STRING, locs : Seq([line : Nat, disc : Nat])])
  /\ MaxHits \in Nat
  /\ CostLevels \subseteq 0..Den

NoLoc == [line |-> 0, disc |-> 0]

VARIABLES
  program,
  costlevel,
  stage,
  number,     \* for each job, the number in each guard; 0 before HandleInit
  counters,   \* for each job, AllTimeCounters
  running,    \* jobs that have not ended
  log,        \* AllTimeCounter lines
  threshold,
  todo,       \* functions the pass has not seen
  offset,     \* TracePCGuardIndexOffset of the others
  removed     \* guards without a call

ccVars == <<program, costlevel, stage, number, counters, running, log, threshold, todo, offset, removed>>

Funs == DOMAIN program

\* The calls in function k, by getTracePCGuardIndex, and all guards of the program.
Indices(k) == 0..(Len(program[k].locs) - 1)
Guards == UNION {{k} \X Indices(k) : k \in Funs}
Loc(g) == program[g[1]].locs[g[2] + 1]

NumGuardsBefore(k) == Cardinality({g \in Guards : g[1] < k})

CCInit ==
  /\ program \in Programs
  /\ costlevel \in CostLevels
  /\ stage = "fuzz"
  /\ number = [j \in Jobs |-> [g \in Guards |-> 0]]
  /\ counters = [j \in Jobs |-> [g \in Guards |-> 0]]
  /\ running = Jobs
  /\ log = <<>>
  /\ threshold = 0
  /\ todo = Funs /\ offset = [k \in Funs |-> 0] /\ removed = {}

-----------------------------------------------------------------------------
(* TracePC *)

\* Mutant: the first guard gets the number that means "not initialized".
Numbers_FromZero == [g \in Guards |-> NumGuardsBefore(g[1]) + g[2]]

\* The numbers of the guards, in the order of their addresses.
Numbers == [g \in Guards |-> NumGuardsBefore(g[1]) + g[2] + 1]

\* The constructor of every object file calls HandleInit for the same section;
\* only the first call finds the guards without numbers.
HandleInit(j) ==
  /\ stage = "fuzz" /\ j \in running
  /\ \A g \in Guards : number[j][g] = 0
  /\ number' = [number EXCEPT ![j] = Numbers]
  /\ UNCHANGED <<program, costlevel, stage, counters, running, log, threshold, todo, offset, removed>>

HandleTrace(j) ==
  /\ stage = "fuzz" /\ j \in running
  /\ TotalCost(counters[j]) < MaxHits
  /\ \E g \in Guards :
       /\ number[j][g] # 0
       /\ counters' = [counters EXCEPT ![j][g] = @ + 1]
  /\ UNCHANGED <<program, costlevel, stage, number, running, log, threshold, todo, offset, removed>>

\* The lines of PrintAllTimeCounters: the guards that were passed, by number.
CounterLines(j) ==
  LET covered == {g \in Guards : counters[j][g] > 0}
      sorted  == CHOOSE s \in [1..Cardinality(covered) -> covered] :
                   \A m, n \in DOMAIN s : m < n => number[j][s[m]] < number[j][s[n]]
  IN  [n \in DOMAIN sorted |-> [guard |-> sorted[n], index |-> number[j][sorted[n]],
                                cost |-> counters[j][sorted[n]]]]

\* The process of job j is gone, and its memory with it.
Ends(j) ==
  /\ j \in running
  /\ running' = running \ {j}
  /\ number' = [number EXCEPT ![j] = [g \in Guards |-> 0]]
  /\ counters' = [counters EXCEPT ![j] = [g \in Guards |-> 0]]

\* PrintFinalStats; WorkerThread copies the whole output of the job to the log.
JobEnds(j) ==
  /\ stage = "fuzz" /\ Ends(j)
  /\ log' = log \o CounterLines(j)
  /\ UNCHANGED <<program, costlevel, stage, threshold, todo, offset, removed>>

\* The job is killed and prints nothing.
JobKilled(j) ==
  /\ stage = "fuzz" /\ Ends(j)
  /\ UNCHANGED <<program, costlevel, stage, log, threshold, todo, offset, removed>>

-----------------------------------------------------------------------------
(* alltimecounter_statistics.py *)

\* extract_pcs_and_costs: the sum of the lines of each guard.
Costs ==
  [g \in {log[n].guard : n \in DOMAIN log} |->
     SumFunctionOnSet([n \in DOMAIN log |-> log[n].cost], {n \in DOMAIN log : log[n].guard = g})]

\* get_threshold_for_costlevel, without its loop (see CostThreshold).
FprecThreshold ==
  1 + Min({v \in Range(Costs) : Den * KeptCost(Costs, v + 1) >= costlevel * TotalCost(Costs)})

\* An empty log fails the script's assertion, and the build stops.
EstimateThreshold ==
  /\ stage = "fuzz" /\ running = {}
  /\ IF log = <<>> THEN stage' = "failed" /\ UNCHANGED threshold
     ELSE stage' = "compile" /\ threshold' = FprecThreshold
  /\ UNCHANGED <<program, costlevel, number, counters, running, log, todo, offset, removed>>

-----------------------------------------------------------------------------
(* SanityCheckCoverageCost *)

\* loadCoverage: M.getFunction(name) for a line of the log; 0 if module M has none.
FunctionIn(M, g) ==
  LET found == {k \in Funs : program[k].module = M /\ program[k].name = program[g[1]].name}
  IN  IF found = {} THEN 0 ELSE Min(found)

\* CoveredLocations: the lines of the log for function k; the symbolizer finds no
\* file for a guard without a location, and its line is dropped.
Covered(k) ==
  {n \in DOMAIN log : /\ Loc(log[n].guard) # NoLoc
                      /\ FunctionIn(program[k].module, log[n].guard) = k}

\* FunctionsByOffset: the numbers in the log that belong to function k, and to
\* any function of its module.
NumbersOf(k) == {log[n].index : n \in Covered(k)}
NumbersAround(k) == UNION {NumbersOf(h) : h \in {f \in Funs : program[f].module = program[k].module}}

\* OffsetRanges: after the last covered guard before the function, and before the
\* first one behind it.
RangeFirst(k) ==
  LET before == {n \in NumbersAround(k) : n < Min(NumbersOf(k))}
  IN  IF before = {} THEN 0 ELSE Max(before) + 1

RangeSecond(k) ==
  LET after == {n \in NumbersAround(k) : n > Max(NumbersOf(k))}
  IN  IF after = {} THEN Cardinality(Guards) + 1 ELSE Min(after)

\* Mutant: discriminators are not compared.
locationsMatch_Lines(DIL, DIII) == DIL.line = DIII.line

\* Discriminators count only if there are any.
locationsMatch(DIL, DIII) ==
  /\ DIL.line = DIII.line
  /\ DIL.disc = 0 \/ DIII.disc = 0 \/ DIL.disc = DIII.disc

\* Offsets[o]: the pairs of calls and lines that agree on o.
Offsets(k) ==
  LET first  == RangeFirst(k)
      second == RangeSecond(k)
      pairs == {p \in Indices(k) \X Covered(k) :
                  /\ Loc(<<k, p[1]>>) # NoLoc
                  /\ log[p[2]].index - p[1] >= first /\ log[p[2]].index - p[1] < second
                  /\ locationsMatch(Loc(<<k, p[1]>>), Loc(log[p[2]].guard))}
  IN  [o \in 1..Cardinality(Guards) |-> Cardinality({p \in pairs : log[p[2]].index - p[1] = o})]

\* computeTracePCGuardIndexOffset: the first offset that is found most often, 0 if
\* nothing matches.
GuardIndexOffset(k) ==
  IF Covered(k) = {} THEN 0
  ELSE LET count == Offsets(k)
           most  == Max(Range(count))
       IN  IF most = 0 THEN 0 ELSE Min({o \in DOMAIN count : count[o] = most})

\* The line of the log that call c of function k gets: the first with its number.
LineOf(k, c, o) ==
  LET lines == {n \in Covered(k) : log[n].index = c + o}
  IN  IF o = 0 \/ lines = {} THEN 0 ELSE Min(lines)

CostOf(k, c, o) == IF LineOf(k, c, o) = 0 THEN 0 ELSE log[LineOf(k, c, o)].cost

\* Mutant: a check at the threshold is kept.
TooExpensive_Above(c) == c > threshold

TooExpensive(c) == c >= threshold

\* AsapCoveragePass on function k.
RunOnFunction(k) ==
  /\ stage = "compile" /\ k \in todo
  /\ todo' = todo \ {k}
  /\ LET o == GuardIndexOffset(k)
     IN  /\ offset' = [offset EXCEPT ![k] = o]
         /\ removed' = removed \cup {g \in {k} \X Indices(k) : TooExpensive(CostOf(k, g[2], o))}
  /\ UNCHANGED <<program, costlevel, stage, number, counters, running, log, threshold>>

Done == (stage = "failed" \/ (stage = "compile" /\ todo = {})) /\ UNCHANGED ccVars

CCNext ==
  \/ \E j \in Jobs : HandleInit(j) \/ HandleTrace(j) \/ JobEnds(j) \/ JobKilled(j)
  \/ EstimateThreshold
  \/ \E k \in Funs : RunOnFunction(k)
  \/ Done

CCSpec == CCInit /\ [][CCNext]_ccVars

-----------------------------------------------------------------------------
CCTypeOK ==
  /\ stage \in {"fuzz", "compile", "failed"}
  /\ \A j \in Jobs : number[j] \in [Guards -> {0}] \/ number[j] \in [Guards -> 1..Cardinality(Guards)]
  /\ counters \in [Jobs -> [Guards -> 0..MaxHits]]
  /\ running \subseteq Jobs /\ todo \subseteq Funs /\ removed \subseteq Guards
  /\ \A l \in Range(log) : l \in [guard : Guards, index : 1..Cardinality(Guards), cost : 1..MaxHits]
  /\ threshold \in Nat
  /\ offset \in [Funs -> 0..Cardinality(Guards)]

Compiled(k) == stage = "compile" /\ k \notin todo

\* Every call has a location, and no two functions have the same name.
Unambiguous ==
  /\ \A g \in Guards : Loc(g) # NoLoc
  /\ \A k, h \in Funs : program[k].name = program[h].name => k = h

SameLocation(g, h) ==
  LET a == Loc(g) b == Loc(h)
  IN  g[1] = h[1] /\ a.line = b.line /\ (a.disc = b.disc \/ 0 \in {a.disc, b.disc})

\* "We can often not uniquely identify which call corresponds to which
\* CoveredLocation": the guess is never larger than the true offset, all covered
\* locations agree with it, and so the cost of a call was counted at a call of the
\* same function with the same location, however few guards were covered.
CostsFromSameLocation ==
  Unambiguous =>
    \A k \in Funs : Compiled(k) /\ Covered(k) # {} =>
      /\ offset[k] \in 1..(NumGuardsBefore(k) + 1)
      /\ \A c \in Indices(k) : LineOf(k, c, offset[k]) # 0 =>
           SameLocation(<<k, c>>, log[LineOf(k, c, offset[k])].guard)

\* No two calls of a function have the same location.
Distinguishable == Unambiguous /\ \A g, h \in Guards : SameLocation(g, h) => g = h

\* What the script took for the cost of a check.
TotalOf(g) == IF g \in DOMAIN Costs THEN Costs[g] ELSE 0

\* The threshold comes from the sum of all jobs, the costs from the first job that
\* covered a check.  Still a check is only removed if it costs the threshold in
\* total, so that the fraction of the cost that was asked for is preserved; and
\* with the lines of one job only, every such check is removed.
RemovedAreExpensive ==
  Distinguishable /\ stage = "compile" /\ todo = {} =>
    /\ \A g \in removed : TotalOf(g) >= threshold
    /\ Den * SumFunctionOnSet(Costs, DOMAIN Costs \ removed) >= costlevel * TotalCost(Costs)
    /\ IsInjective([n \in DOMAIN log |-> log[n].guard]) =>
         \A g \in Guards : TotalOf(g) >= threshold => g \in removed

-----------------------------------------------------------------------------
\* "Remove checks costing this or more", with the threshold and the costs that
\* alltimecounter_statistics.py computes from the log.
ExpensiveChecksRemoved ==
  Distinguishable /\ stage = "compile" /\ todo = {} =>
    \A g \in Guards : TotalOf(g) >= threshold => g \in removed

=============================================================================
