----------------------------- MODULE FuzzerMerge -----------------------------
(***************************************************************************)
(* The crash-resistant merge of lib/Fuzzer/FuzzerMerge.cpp.                *)
(*                                                                         *)
(* An outer process writes the names of all inputs to a control file, and  *)
(* starts an inner process, again and again, until one exits with code 0.  *)
(* The inner process resumes behind the last STARTED line, executes inputs *)
(* and appends a STARTED and a DONE line for each.  STARTED is flushed;    *)
(* DONE stays in the stream's buffer until the next flush, except that the *)
(* stream writes the beginning of a line that is longer than its buffer.   *)
(* The outer process then reads the control file and picks the inputs to   *)
(* keep.                                                                   *)
(*                                                                         *)
(* An inner process ends in one of these ways:                             *)
(*   it crashes or times out while it executes an input;                   *)
(*   the thread that watches the memory limit ends it, at any time after   *)
(*   an input has used too much memory (RssThread polls the peak usage);   *)
(*   it is interrupted, and exits with code 0 (InterruptCallback);         *)
(*   it returns after the last input, with code 0 or, if the leak checker  *)
(*   finds a leak at exit, with another code.                              *)
(*                                                                         *)
(* Nobody removes an input while the merge runs.                           *)
(*                                                                         *)
(* Inputs are numbered from 1 in the order of the control file, the inputs *)
(* of the first corpus first.  A description of the inputs is a record:    *)
(*   n, first    the number of inputs, and of those in the first corpus    *)
(*   size, feats the size and the features of each input                   *)
(*   crash, hog  the inputs that crash, and that exceed the memory limit   *)
(*   long        the inputs whose DONE line does not fit into the buffer   *)
(***************************************************************************)
EXTENDS Integers, Sequences, FiniteSets, SequencesExt

CONSTANTS
  Corpora,  \* descriptions of the inputs that are merged
  Features  \* the numbers of features

ASSUME CorporaWellFormed ==
  \A c \in Corpora :
    /\ c.n \in Nat /\ c.first \in 0..c.n
    /\ c.size \in [1..c.n -> Nat]
    /\ c.feats \in [1..c.n -> SUBSET Features]
    /\ c.crash \subseteq 1..c.n /\ c.hog \subseteq 1..c.n /\ c.long \subseteq 1..c.n

VARIABLES
  in,           \* the inputs
  outer,        \* control state of the outer process
  attempt,      \* its loop counter
  control,      \* the STARTED and DONE lines in the control file
  inner,        \* control state of the inner process
  cur,          \* the inner process's loop counter
  buffer,       \* the line it has not flushed, if there is one
  hogged,       \* its peak memory usage is over the limit
  atStart,      \* history: lines in the control file when it was started
  exitCode,     \* the exit code of the last inner process
  interrupted,  \* history: some process was interrupted
  NewFiles,     \* the inputs that Merge selected
  toWrite,      \* those that are not yet in the output corpus
  written       \* inputs copied to the output corpus

innerVars == <<inner, cur, buffer, hogged, exitCode>>
vars == <<in, outer, attempt, control, inner, cur, buffer, hogged, atStart, exitCode,
          interrupted, NewFiles, toWrite, written>>

Line(m, i, f, t) == [marker |-> m, id |-> i, feats |-> f, torn |-> t]

Started(i) == Line("STARTED", i, {}, FALSE)
Done(i)    == Line("DONE", i, in.feats[i], FALSE)

\* The beginning of a DONE line, without the end of the line.
Torn(i, f) == Line("DONE", i, f, TRUE)

\* What is written after it completes it.
Rest(i)    == Line("REST", i, {}, FALSE)

\* Write a line to the control file L.  What another process writes after a torn
\* line becomes a part of that line, and ends the list of features in it.
WriteLine(L, line) ==
  IF L = <<>> \/ ~ Last(L).torn THEN Append(L, line)
  ELSE Front(L) \o <<IF line.marker = "REST" THEN Done(line.id)
                     ELSE [Last(L) EXCEPT !.torn = FALSE]>>

\* The control file when the buffer has been written.
Flushed == IF buffer = <<>> THEN control ELSE WriteLine(control, buffer[1])

-----------------------------------------------------------------------------
(***************************************************************************)
(* Merger::Parse.  STARTED lines are numbered consecutively, and a DONE    *)
(* line follows the STARTED line of the same input.  A last line that is   *)
(* torn is read like any other.                                            *)
(***************************************************************************)
StartedBefore(L, k) == Cardinality({j \in 1..(k-1) : L[j].marker = "STARTED"})

Parses(L) ==
  /\ in.n > 0
  /\ \A k \in 1..Len(L) :
       IF L[k].marker = "STARTED" THEN L[k].id = StartedBefore(L, k) + 1
       ELSE k > 1 /\ L[k-1] = Started(L[k].id)

\* Mutant: the inner process runs again what has no DONE line.
FirstNotProcessedFile_NotDone(L) == Cardinality({k \in 1..Len(L) : L[k].marker = "DONE"}) + 1

FirstNotProcessedFile(L) == StartedBefore(L, Len(L) + 1) + 1

\* The features of input i; an input without a DONE line has none.
ParsedFeatures(L, i) ==
  UNION {L[k].feats : k \in {k \in 1..Len(L) : L[k].marker = "DONE" /\ L[k].id = i}}

(***************************************************************************)
(* Merger::Merge: one greedy pass over the inputs of the other corpora,    *)
(* ordered by size and then by decreasing number of features the first     *)
(* corpus does not have.  std::sort leaves the order of equals open.       *)
(***************************************************************************)
\* Mutant: one input too many is taken for one of the first corpus.
InitialFeatures_OffByOne(L) == UNION {ParsedFeatures(L, i) : i \in 1..(in.first + 1)}

InitialFeatures(L) == UNION {ParsedFeatures(L, i) : i \in 1..in.first}

NewFeatures(L, i) == ParsedFeatures(L, i) \ InitialFeatures(L)

ParsedSize(L, i) == IF i < FirstNotProcessedFile(L) THEN in.size[i] ELSE 0

\* Mutant: larger inputs come first.
MayPrecede_LargestFirst(L, a, b) == ParsedSize(L, a) >= ParsedSize(L, b)

MayPrecede(L, a, b) ==
  \/ ParsedSize(L, a) < ParsedSize(L, b)
  \/ /\ ParsedSize(L, a) = ParsedSize(L, b)
     /\ Cardinality(NewFeatures(L, a)) >= Cardinality(NewFeatures(L, b))

Orders(L) ==
  {s \in SetToSeqs((in.first + 1)..in.n) :
     \A j, k \in 1..Len(s) : j < k => MayPrecede(L, s[j], s[k])}

Selected(L, s) ==
  {s[k] : k \in {k \in 1..Len(s) :
      ~ (NewFeatures(L, s[k]) \subseteq UNION {NewFeatures(L, s[j]) : j \in 1..(k-1)})}}

-----------------------------------------------------------------------------
Init ==
  /\ in \in Corpora
  /\ outer = "launch" /\ attempt = 1
  /\ control = <<>>
  /\ inner = "none" /\ cur = 0 /\ buffer = <<>> /\ hogged = FALSE
  /\ atStart = 0
  /\ exitCode = 0
  /\ interrupted = FALSE
  /\ NewFiles = {} /\ toWrite = {} /\ written = {}

\* Mutant: one attempt more.
Attempts_OneMore == in.n + 1

\* The attempts of CrashResistantMerge.
Attempts == in.n

\* CrashResistantMerge starts an inner process; the inner process reads the
\* control file and opens it for appending.
Launch ==
  /\ outer = "launch"
  /\ attempt <= Attempts
  /\ outer' = "wait"
  /\ inner' = IF Parses(control) THEN "next" ELSE "exit"
  /\ exitCode' = IF Parses(control) THEN exitCode ELSE 1
  /\ cur' = FirstNotProcessedFile(control)
  /\ buffer' = <<>>
  /\ hogged' = FALSE
  /\ atStart' = Len(control)
  /\ UNCHANGED <<in, attempt, control, interrupted, NewFiles, toWrite, written>>

\* The loop of attempts ends without success.
AttemptsExhausted ==
  /\ outer = "launch"
  /\ attempt > Attempts
  /\ outer' = "merge"
  /\ UNCHANGED <<in, attempt, control, innerVars, atStart, interrupted, NewFiles, toWrite, written>>

\* Mutants: the pre-run marker is not flushed; the buffer is lost.
PreRun_NoFlush     == Flushed
PreRun_LosesBuffer == WriteLine(control, Started(cur))

\* The control file after the pre-run marker has been written and flushed; this
\* also writes what is in the buffer.
PreRun == WriteLine(Flushed, Started(cur))

\* The inner process begins with an input.  Its file is assumed to be there: for one
\* that was removed after the outer process listed it, FileToVector exits before the
\* STARTED line.
StartInput ==
  /\ inner = "next"
  /\ cur <= in.n
  /\ control' = PreRun
  /\ buffer' = <<>>
  /\ inner' = "run"
  /\ UNCHANGED <<in, outer, attempt, cur, hogged, atStart, exitCode, interrupted, NewFiles,
                 toWrite, written>>

\* The features that can be read from the beginning of a DONE line: some of the
\* input's, and what the number that is cut in two reads as.
TornFeatures(i) == {f \cup g : f \in SUBSET in.feats[i], g \in {{}} \cup {{x} : x \in Features}}

\* The target returns; the post-run marker goes to the buffer.
FinishInput ==
  /\ inner = "run"
  /\ cur \notin in.crash
  /\ \/ /\ cur \notin in.long
        /\ buffer' = <<Done(cur)>>
        /\ UNCHANGED control
     \/ /\ cur \in in.long
        /\ \E f \in TornFeatures(cur) : control' = WriteLine(control, Torn(cur, f))
        /\ buffer' = <<Rest(cur)>>
  /\ hogged' = (hogged \/ cur \in in.hog)
  /\ cur' = cur + 1
  /\ inner' = "next"
  /\ UNCHANGED <<in, outer, attempt, atStart, exitCode, interrupted, NewFiles, toWrite, written>>

\* The inner process dies, and what it has not flushed is lost.
Die(code) ==
  /\ inner' = "exit"
  /\ exitCode' = code
  /\ buffer' = <<>>
  /\ UNCHANGED <<in, outer, attempt, control, cur, hogged, atStart, NewFiles, toWrite, written>>

\* The target crashes, or runs longer than the timeout.
Crash == inner = "run" /\ cur \in in.crash /\ Die(77) /\ UNCHANGED interrupted

\* RssLimitCallback, from the other thread: while the input that uses too much
\* memory runs, or later.
OutOfMemory ==
  /\ inner \in {"run", "next"}
  /\ hogged \/ (inner = "run" /\ cur \in in.hog)
  /\ Die(77)
  /\ UNCHANGED interrupted

\* InterruptCallback in the inner process.
InterruptInner ==
  /\ inner \in {"run", "next"}
  /\ Die(0)
  /\ interrupted' = TRUE

\* The end of CrashResistantMergeInternalStep closes the stream; then exit(0),
\* or the exit code of the leak checker.
Return(code) ==
  /\ inner = "next"
  /\ cur > in.n
  /\ control' = Flushed
  /\ buffer' = <<>>
  /\ inner' = "exit"
  /\ exitCode' = code
  /\ UNCHANGED <<in, outer, attempt, cur, hogged, atStart, interrupted, NewFiles, toWrite, written>>

\* Mutant: the attempts are not counted.
NextAttempt_NoCount == attempt

NextAttempt == IF exitCode = 0 THEN attempt ELSE attempt + 1

\* ExecuteCommand returns in the outer process.
Reap ==
  /\ outer = "wait"
  /\ inner = "exit"
  /\ inner' = "none"
  /\ outer' = IF exitCode = 0 THEN "merge" ELSE "launch"
  /\ attempt' = NextAttempt
  /\ UNCHANGED <<in, control, cur, buffer, hogged, atStart, exitCode, interrupted, NewFiles,
                 toWrite, written>>

\* Read the control file and select the inputs to add.
Merge ==
  /\ outer = "merge"
  /\ Parses(control)
  /\ outer' = "write"
  /\ \E s \in Orders(control) : NewFiles' = Selected(control, s)
  /\ toWrite' = NewFiles'
  /\ UNCHANGED <<in, attempt, control, innerVars, atStart, interrupted, written>>

\* ParseOrExit.
ParseFails ==
  /\ outer = "merge"
  /\ ~ Parses(control)
  /\ outer' = "failed"
  /\ UNCHANGED <<in, attempt, control, innerVars, atStart, interrupted, NewFiles, toWrite, written>>

\* WriteToOutputCorpus.
Write(i) ==
  /\ outer = "write"
  /\ toWrite' = toWrite \ {i}
  /\ written' = written \cup {i}
  /\ UNCHANGED <<in, outer, attempt, control, innerVars, atStart, interrupted, NewFiles>>

\* Remove the control file and exit.
Cleanup ==
  /\ outer = "write"
  /\ toWrite = {}
  /\ outer' = "done"
  /\ UNCHANGED <<in, attempt, control, innerVars, atStart, interrupted, NewFiles, toWrite, written>>

Stopped == outer \in {"done", "failed"} /\ UNCHANGED vars

Inner ==
  \/ StartInput \/ FinishInput \/ Crash \/ OutOfMemory
  \/ \E code \in {0, 23} : Return(code)

Outer ==
  \/ Launch \/ AttemptsExhausted \/ Reap \/ Merge \/ ParseFails
  \/ \E i \in toWrite : Write(i)
  \/ Cleanup

Next == Inner \/ InterruptInner \/ Outer \/ Stopped

\* Both processes are run by the operating system until they end.
Spec == Init /\ [][Next]_vars /\ WF_vars(Inner) /\ WF_vars(Outer)

-----------------------------------------------------------------------------
MarkedStarted == {i \in 1..in.n : \E k \in 1..Len(control) : control[k] = Started(i)}
MarkedDone    == {i \in 1..in.n : \E k \in 1..Len(control) : control[k] = Done(i)}

MergeTypeOK ==
  /\ outer \in {"launch", "wait", "merge", "write", "done", "failed"}
  /\ inner \in {"none", "next", "run", "exit"}
  /\ (inner # "none") <=> (outer = "wait")
  /\ attempt \in 1..(in.n + 1)
  /\ cur \in 0..(in.n + 1)
  /\ \A L \in {control, buffer} : \A k \in 1..Len(L) :
        L[k] \in [marker : {"STARTED", "DONE", "REST"}, id : 1..in.n,
                  feats : SUBSET Features, torn : BOOLEAN]
  /\ toWrite \subseteq NewFiles /\ written \subseteq NewFiles /\ NewFiles \subseteq 1..in.n

\* A process can die while a DONE line is torn.
Tearable == in.long # {} /\ (in.hog # {} \/ interrupted)

Merging == outer \in {"merge", "write", "done"} /\ in.n > 0 /\ ~ interrupted

\* The control file that several processes append to, each of which may die at
\* any point, always parses, so neither process ends in ParseOrExit's "unexpected
\* error" (except for a merge of no files, and where a DONE line can be torn).
ControlFileParses ==
  ~ Tearable => /\ in.n > 0 => Parses(control)
                /\ outer = "failed" => in.n = 0

\* "Every inner process should execute at least one input": an inner process
\* that fails has moved the control file on, or had nothing left to do.
EveryAttemptProgresses ==
  inner = "exit" /\ exitCode # 0 /\ ~ Tearable =>
    Len(control) > atStart \/ MarkedStarted = 1..in.n

\* Without memory trouble, an input loses its features only if it crashes
\* itself: no DONE line that was waiting in the buffer is lost with a crash.
OnlyCrashersLost ==
  Merging /\ in.hog = {} => (1..in.n) \ MarkedDone = in.crash

\* Nothing that is in the control file is lost by the merge: when it is done,
\* the first corpus has all features that were seen.
NoFeatureLost ==
  outer = "done" /\ ~ Tearable =>
    UNION {in.feats[i] : i \in MarkedDone}
      = UNION {in.feats[i] : i \in (MarkedDone \cap 1..in.first) \cup written}

\* The merge ends, whatever crashes.
MergeEnds == <>(outer \in {"done", "failed"})

-----------------------------------------------------------------------------
\* The abstract merge: an input's fate is decided by the lines it has in the
\* control file, once its inner process has written its DONE line or ended.  A
\* merge in which DONE lines can be torn is out of scope and maps to no steps.
InScope == in.long = {}

InProgress == {i \in 1..in.n : (inner = "run" /\ i = cur) \/ (buffer # <<>> /\ i = cur - 1)}

Verdict ==
  [i \in 1..in.n |->
     CASE InScope /\ i \in MarkedDone -> "done"
       [] InScope /\ i \in MarkedStarted \ (MarkedDone \cup InProgress) -> "failed"
       [] OTHER -> "pending"]

Result == IF InScope /\ outer \in {"write", "done"} THEN NewFiles ELSE {0}

Abstract == INSTANCE CorpusMerge WITH verdict <- Verdict, cut <- InScope /\ interrupted, result <- Result

\* The processes and the control file implement the abstract merge: whatever dies,
\* every input is executed or fails, and the selection keeps every known feature,
\* a smallest input for each new one, and no input in vain.
ImplementsMerge == Abstract!Spec

-----------------------------------------------------------------------------
\* FuzzerMerge.h: the outer process "repeatedly launches the inner process until
\* all inputs are processed".  An inner process that is interrupted exits with
\* code 0, which the outer process takes for success.
UntilAllInputsProcessed ==
  outer = "done" => MarkedStarted = 1..in.n

=============================================================================
