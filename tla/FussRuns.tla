------------------------------ MODULE FussRuns ------------------------------
(***************************************************************************)
(* The speed and coverage experiment                                       *)
(* (focused-fuzzing/speed_and_coverage_experiment.sh) for one benchmark: a *)
(* first run of "ff.sh speed", then more runs in parallel, all in the same *)
(* directory.  A run takes a number, and works on files that are shared by *)
(* all runs or that have its number in their name (ff-common.sh).          *)
(*                                                                         *)
(* A run makes its files one after the other.  Whether it makes a file or  *)
(* takes the one that is there is decided by a test, which sees less than  *)
(* what matters: here, whether the file is complete and who worked on it.  *)
(***************************************************************************)
EXTENDS Naturals, FiniteSets, Sequences

CONSTANTS Runs  \* the repetitions

ASSUME RunsAssumption == IsFiniteSet(Runs)

VARIABLES
  pc,        \* the file that each run makes next, or another step
  busy,      \* whether it is making it
  id,        \* run_id; 0 before it is known
  previous,  \* previous_run_id
  first,     \* the run that went first
  parallel,  \* whether the others may start
  idFile,    \* the number in the file run_id; 0 if it is empty or missing
  lock,      \* who holds .run_id.lock
  perfLock,  \* who holds the lock for perf
  files,     \* for each place and kind of file, its state and who made it
  numberLost, \* a run ended after it had emptied run_id
  sourcesLost \* a run ended while it got the sources

frVars == <<pc, busy, id, previous, first, parallel, idFile, lock, perfLock, files, numberLost, sourcesLost>>

\* What a run makes, in this order: the sources, libFuzzer as it is and with what
\* FUSS needs (-DFUSS), the initial build; its copy for profiling, the log of the
\* warmup, perf.data, the .llvm_prof file, the minimized corpus; the variants, most
\* of them without expensive checks, and their test.  All variants are one file here,
\* among them the one that is linked against the unmodified libFuzzer ("nofuss").
Shared == <<"sources", "libFuzzer", "fussLibFuzzer", "base">>
Own    == <<"copy", "warmup", "perf", "prof", "corpus", "fussed", "tested">>
Kinds  == Shared \o Own

KindSet   == {Kinds[n] : n \in DOMAIN Kinds}
SharedSet == {Shared[n] : n \in DOMAIN Shared}
Position(k) == CHOOSE n \in DOMAIN Kinds : Kinds[n] = k

Libraries == {"libFuzzer", "fussLibFuzzer"}

\* The files from which each is made.
Needs ==
  [sources |-> {}, libFuzzer |-> {}, fussLibFuzzer |-> {}, base |-> {"sources", "fussLibFuzzer"},
   copy |-> {"base"}, warmup |-> {"copy"}, perf |-> {"copy", "warmup"}, prof |-> {"copy", "perf"},
   corpus |-> {"copy", "perf"}, fussed |-> {"sources", "libFuzzer", "fussLibFuzzer", "prof"},
   tested |-> {"fussed", "corpus", "base"}]

\* The place of a file for run r: 0 for the shared ones, else its number.
Ids == 1..Cardinality(Runs)
Place(r, k) == IF k \in SharedSet THEN 0 ELSE id[r]
File(r, k)  == files[Place(r, k)][k]

NoFile == [state |-> "none", by |-> {}]

FRInit ==
  /\ pc = [r \in Runs |-> "ready"]
  /\ busy = [r \in Runs |-> FALSE]
  /\ id = [r \in Runs |-> 0] /\ previous = [r \in Runs |-> 0]
  /\ first = {} /\ parallel = FALSE
  /\ idFile = 0 /\ lock = {} /\ perfLock = {}
  /\ files = [i \in {0} \cup Ids |-> [k \in KindSet |-> NoFile]]
  /\ numberLost = FALSE /\ sourcesLost = FALSE

-----------------------------------------------------------------------------
(* speed_and_coverage_experiment.sh *)

\* "Run experiments a first time, only one instance per benchmark".  If it fails,
\* the user may try again in the same directory.
StartFirst(r) ==
  /\ ~ parallel /\ pc[r] = "ready"
  /\ \A q \in first : pc[q] = "failed"
  /\ first' = {r}
  /\ pc' = [pc EXCEPT ![r] = "lock"]
  /\ UNCHANGED <<busy, id, previous, parallel, idFile, lock, perfLock, files, numberLost, sourcesLost>>

\* do_clean, after a first run that failed: everything but the sources is removed.
Clean ==
  /\ ~ parallel /\ \A r \in first : pc[r] = "failed"
  /\ idFile' = 0 /\ numberLost' = FALSE
  /\ files' = [i \in DOMAIN files |-> [k \in KindSet |-> IF k = "sources" THEN files[i][k] ELSE NoFile]]
  /\ UNCHANGED <<pc, busy, id, previous, first, parallel, lock, perfLock, sourcesLost>>

\* Mutant: it is enough that the first run has ended.
MayGoOn_Ended == \A r \in first : pc[r] \in {"done", "failed"}

\* If the first run fails, so does parallel, and set -e ends the experiment.
MayGoOn == \A r \in first : pc[r] = "done"

GoOn ==
  /\ first # {} /\ ~ parallel /\ MayGoOn
  /\ parallel' = TRUE
  /\ UNCHANGED <<pc, busy, id, previous, first, idFile, lock, perfLock, files, numberLost, sourcesLost>>

\* "This time, we can parallelize everything".
StartParallel(r) ==
  /\ parallel /\ pc[r] = "ready"
  /\ pc' = [pc EXCEPT ![r] = "lock"]
  /\ UNCHANGED <<busy, id, previous, first, parallel, idFile, lock, perfLock, files, numberLost, sourcesLost>>

-----------------------------------------------------------------------------
(* get_run_id *)

TakeLock(r) ==
  /\ pc[r] = "lock" /\ lock = {}
  /\ lock' = lock \cup {r}
  /\ pc' = [pc EXCEPT ![r] = "read"]
  /\ UNCHANGED <<busy, id, previous, first, parallel, idFile, perfLock, files, numberLost, sourcesLost>>

\* Mutant: the run goes on without a number.
LockTimeout_Ignored(r) ==
  /\ pc[r] = "lock" /\ lock # {}
  /\ pc' = [pc EXCEPT ![r] = Kinds[1]]
  /\ UNCHANGED <<busy, id, previous, first, parallel, idFile, lock, perfLock, files, numberLost, sourcesLost>>

\* flock --timeout 1.
LockTimeout(r) ==
  /\ pc[r] = "lock" /\ lock # {}
  /\ pc' = [pc EXCEPT ![r] = "failed"]
  /\ UNCHANGED <<busy, id, previous, first, parallel, idFile, lock, perfLock, files, numberLost, sourcesLost>>

ReadId(r) ==
  /\ pc[r] = "read"
  /\ previous' = [previous EXCEPT ![r] = idFile]
  /\ pc' = [pc EXCEPT ![r] = "empty"]
  /\ UNCHANGED <<busy, id, first, parallel, idFile, lock, perfLock, files, numberLost, sourcesLost>>

\* The redirection empties the file before the number is written.
EmptyId(r) ==
  /\ pc[r] = "empty"
  /\ idFile' = 0
  /\ pc' = [pc EXCEPT ![r] = "write"]
  /\ UNCHANGED <<busy, id, previous, first, parallel, lock, perfLock, files, numberLost, sourcesLost>>

WriteId(r) ==
  /\ pc[r] = "write"
  /\ idFile' = previous[r] + 1
  /\ id' = [id EXCEPT ![r] = previous[r] + 1]
  /\ lock' = lock \ {r}
  /\ pc' = [pc EXCEPT ![r] = Kinds[1]]
  /\ UNCHANGED <<busy, previous, first, parallel, perfLock, files, numberLost, sourcesLost>>

-----------------------------------------------------------------------------
(* init_target, init_libfuzzer, build_all, test_all *)

Running(r) == pc[r] \notin {"ready", "done", "failed"}

Exists(r, k) == File(r, k).state # "none"
Linked(r, k) == File(r, k).state \in {"whole", "bad"}

\* What follows k.  The steps of profiling are left out if there is a .llvm_prof file.
Following(r, k) ==
  CASE k = "tested"                      -> "done"
    [] k = "base" /\ Exists(r, "prof")   -> "fussed"
    [] k = "base" /\ ~ Exists(r, "prof") -> "copy"
    [] k \notin {"base", "tested"}       -> Kinds[Position(k) + 1]

\* The tests that let a run take what is there: sources, logs and profiles count
\* as soon as they exist, libFuzzer and the builds when they are linked.
Skips(r, k) ==
  CASE k \in Libraries \cup {"base", "fussed"} -> Linked(r, k)
    [] k \in {"copy", "corpus"}              -> FALSE
    [] k \in {"sources", "warmup", "perf", "prof", "tested"} -> Exists(r, k)

Skip(r) ==
  /\ pc[r] \in KindSet /\ ~ busy[r] /\ Skips(r, pc[r])
  /\ pc' = [pc EXCEPT ![r] = Following(r, pc[r])]
  /\ UNCHANGED <<busy, id, previous, first, parallel, idFile, lock, perfLock, files, numberLost, sourcesLost>>

\* All that the file is made of is complete.
Ready(r, k) == \A n \in Needs[k] : File(r, n).state = "whole"

\* Two runs that make the same file at the same time spoil it.
Others(r) == {q \in Runs \ {r} : busy[q] /\ pc[q] = pc[r] /\ Place(q, pc[q]) = Place(r, pc[r])}

Working(r) ==
  /\ busy' = [busy EXCEPT ![r] = TRUE]
  /\ files' = [files EXCEPT ![Place(r, pc[r])][pc[r]] =
                 [state |-> IF Others(r) = {} /\ Ready(r, pc[r]) THEN "partial" ELSE "spoiled",
                  by |-> @.by \cup {r}]]

\* mkdir fails if a version of libFuzzer was left unfinished.
Begin(r) ==
  /\ pc[r] \in KindSet \ {"perf"} /\ ~ busy[r] /\ ~ Skips(r, pc[r])
  /\ IF pc[r] \in Libraries /\ Exists(r, pc[r])
     THEN pc' = [pc EXCEPT ![r] = "failed"] /\ UNCHANGED <<busy, files>>
     ELSE Working(r) /\ UNCHANGED pc
  /\ UNCHANGED <<id, previous, first, parallel, idFile, lock, perfLock, numberLost, sourcesLost>>

\* profile_fuzzer: perf.data is looked for before the wait for the lock.
WaitForPerf(r) ==
  /\ pc[r] = "perf" /\ ~ busy[r] /\ ~ Skips(r, "perf")
  /\ pc' = [pc EXCEPT ![r] = "perfLock"]
  /\ UNCHANGED <<busy, id, previous, first, parallel, idFile, lock, perfLock, files, numberLost, sourcesLost>>

BeginPerf(r) ==
  /\ pc[r] = "perfLock" /\ perfLock = {}
  /\ perfLock' = {r}
  /\ pc' = [pc EXCEPT ![r] = "perf"]
  /\ busy' = [busy EXCEPT ![r] = TRUE]
  /\ files' = [files EXCEPT ![id[r]]["perf"] =
                 [state |-> IF Ready(r, "perf") THEN "partial" ELSE "spoiled", by |-> @.by \cup {r}]]
  /\ UNCHANGED <<id, previous, first, parallel, idFile, lock, numberLost, sourcesLost>>

\* Mutant: the lock for perf is not given back.
Released_Never(r) == perfLock

Released(r) == perfLock \ {r}

\* What becomes of a file.  The script waits for the compilers of libFuzzer but does
\* not see whether one of them failed.
Outcomes(r) ==
  CASE File(r, pc[r]).state = "spoiled" \/ ~ Ready(r, pc[r]) -> {"bad"}
    [] OTHER -> IF pc[r] \in Libraries THEN {"whole", "bad"} ELSE {"whole"}

\* A build does not link if objects are missing in its libFuzzer.
LinkFails(r) == \E l \in Libraries \cap Needs[pc[r]] : File(r, l).state = "bad"

\* The command has ended.
End(r) ==
  /\ busy[r]
  /\ busy' = [busy EXCEPT ![r] = FALSE]
  /\ IF LinkFails(r)
     THEN pc' = [pc EXCEPT ![r] = "failed"] /\ UNCHANGED <<files, perfLock>>
     ELSE /\ pc' = [pc EXCEPT ![r] = Following(r, pc[r])]
          /\ \E s \in Outcomes(r) : files' = [files EXCEPT ![Place(r, pc[r])][pc[r]].state = s]
          /\ perfLock' = IF pc[r] = "perf" THEN Released(r) ELSE perfLock
  /\ UNCHANGED <<id, previous, first, parallel, idFile, lock, numberLost, sourcesLost>>

\* A command fails and set -e ends the run, or the run is killed.
Fail(r) ==
  /\ Running(r)
  /\ pc' = [pc EXCEPT ![r] = "failed"]
  /\ busy' = [busy EXCEPT ![r] = FALSE]
  /\ lock' = lock \ {r} /\ perfLock' = perfLock \ {r}
  /\ numberLost' = (numberLost \/ pc[r] = "write")
  /\ sourcesLost' = (sourcesLost \/ (busy[r] /\ pc[r] = "sources"))
  /\ UNCHANGED <<id, previous, first, parallel, idFile, files>>

Step(r) ==
  \/ TakeLock(r) \/ LockTimeout(r) \/ ReadId(r) \/ EmptyId(r) \/ WriteId(r)
  \/ Skip(r) \/ Begin(r) \/ WaitForPerf(r) \/ BeginPerf(r) \/ End(r)

FRNext == GoOn \/ Clean \/ \E r \in Runs : StartFirst(r) \/ StartParallel(r) \/ Step(r) \/ Fail(r)

\* Every command of a run ends: the fuzzers have a limit on their time.
FRFairness == \A r \in Runs : WF_frVars(Step(r))

FRSpec == FRInit /\ [][FRNext]_frVars /\ FRFairness

-----------------------------------------------------------------------------
FileStates == {"none", "partial", "spoiled", "whole", "bad"}

FRTypeOK ==
  /\ pc \in [Runs -> KindSet \cup {"ready", "lock", "read", "empty", "write", "perfLock", "done", "failed"}]
  /\ busy \in [Runs -> BOOLEAN]
  /\ id \in [Runs -> 0..Cardinality(Runs)] /\ previous \in [Runs -> 0..Cardinality(Runs)]
  /\ \A r \in Runs : pc[r] \in KindSet \cup {"perfLock", "done"} => id[r] \in Ids
  /\ first \subseteq Runs /\ Cardinality(first) <= 1
  /\ {parallel, numberLost, sourcesLost} \subseteq BOOLEAN
  /\ idFile \in 0..Cardinality(Runs)
  /\ lock \subseteq Runs /\ perfLock \subseteq Runs
  /\ files \in [{0} \cup Ids -> [KindSet -> [state : FileStates, by : SUBSET Runs]]]

\* "This time, we can parallelize everything": wherever runs fail or are killed, and
\* whether or not the directory is cleaned then, what a run that ends well used is
\* complete; it has made the files with its number itself, and nobody works on them
\* later.  Only two moments are fatal: a run that dies while it gets the sources
\* leaves a directory that passes for complete, and one that dies after emptying the
\* file run_id has numbers given out again.
RunsIndependent ==
  ~ sourcesLost => \A r \in Runs : pc[r] = "done" =>
    /\ \A k \in SharedSet : File(r, k).state = "whole"
    /\ numberLost \/ \A k \in KindSet \ SharedSet : File(r, k) = [state |-> "whole", by |-> {r}]

\* No lock is left behind: every run that was started ends, also if one that held a
\* lock was killed.
RunsEnd == \A r \in Runs : Running(r) ~> ~ Running(r)

=============================================================================
