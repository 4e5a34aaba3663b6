---------------------------- MODULE SharedCorpus ----------------------------
(***************************************************************************)
(* Several fuzzing processes on one output directory, as -jobs and         *)
(* -workers start them: RunInMultipleProcesses and WorkerThread            *)
(* (lib/Fuzzer/FuzzerDriver.cpp), the reading and writing of corpus files  *)
(* (FuzzerIO.cpp, FuzzerIOPosix.cpp) and their callers in FuzzerLoop.cpp.  *)
(*                                                                         *)
(* The memory of a process is private, so it is changed in one step; every *)
(* system call on the shared directory is a step of its own.  Times are in *)
(* seconds.  What InputCorpus does inside one process is the subject of    *)
(* FuzzerCorpus; here a feature simply has an owner.                       *)
(***************************************************************************)
EXTENDS Integers, FiniteSets, Functions

CONSTANTS
  Workers,       \* the threads of RunInMultipleProcesses
  NumJobs,
  Units,         \* non-empty inputs; also the names of their files
  Size,          \* the size of each
  Features,
  Coverage,      \* the features of each
  Partials,      \* what else a file holds while the unit is written, but for nothing
  NewLine,       \* the input to start from if there is none
  Zeros,         \* the input of MaxInputLen zero bytes
  ShrinkOptions, \* settings of -shrink
  InitialFiles,  \* the contents of the directory at the start
  MaxFinds,      \* a bound on the mutated units a process runs
  MaxTime        \* a bound on the clock

NoUnit == "none"
Empty  == "empty"

ASSUME SharedAssumption ==
  /\ NumJobs \in Nat /\ MaxFinds \in Nat /\ MaxTime \in Nat \ {0}
  /\ Size \in [Units -> Nat \ {0}]
  /\ Coverage \in [Units -> SUBSET Features]
  /\ Partials \in [Units -> SUBSET Units]
  /\ {NewLine, Zeros} \subseteq Units
  /\ NoUnit \notin Units /\ Empty \notin Units
  /\ ShrinkOptions \subseteq BOOLEAN
  /\ InitialFiles \subseteq SUBSET Units

VARIABLES
  Shrink,
  proc,      \* the process each worker has started
  Counter,   \* the next job
  files,     \* the files: what they hold, their modification time, who writes them
  dirTime,   \* the modification time of the directory
  now,
  found,     \* units that were found and written completely
  torn       \* units a process was writing when it ended

sharedVars == <<Shrink, proc, Counter, files, dirTime, now, found, torn>>

Names == DOMAIN files

\* GetEpoch: the modification time of a file, 0 if there is none.
GetEpoch(x) == IF x \in Names THEN files[x].time ELSE 0

\* A process whose constructor has just run: EpochOfLastReadOfOutputCorpus is set
\* before the initial corpus is read.
NewProcess ==
  [pc |-> "list", reading |-> "initial", Epoch |-> dirTime, E |-> 0, dirE |-> 0,
   listed |-> {}, cur |-> NoUnit, queue |-> {}, U |-> NoUnit, evicted |-> {},
   owner |-> [f \in Features |-> NoUnit], Hashes |-> {}, mine |-> {}, last |-> 0, finds |-> 0]

NoProcess == [NewProcess EXCEPT !.pc = "none", !.Epoch = 0]

SharedInit ==
  /\ Shrink \in ShrinkOptions
  /\ now = 1 /\ dirTime = 1
  /\ \E S \in InitialFiles : files = [u \in S |-> [data |-> u, time |-> 1, open |-> {}]]
  /\ proc = [w \in Workers |-> NoProcess]
  /\ Counter = 0
  /\ found = {} /\ torn = {}

At(w, l) == proc[w].pc = l

-----------------------------------------------------------------------------
\* Mutant: one job too many.
MoreJobs_OneMore == Counter <= NumJobs

\* The number that a worker takes from Counter is that of a job.
MoreJobs == Counter < NumJobs

\* WorkerThread: the next job.
StartJob(w) ==
  /\ At(w, "none")
  /\ MoreJobs
  /\ Counter' = Counter + 1
  /\ proc' = [proc EXCEPT ![w] = NewProcess]
  /\ UNCHANGED <<Shrink, files, dirTime, now, found, torn>>

\* The time is up: the process ends by itself.
JobDone(w) ==
  /\ At(w, "loop")
  /\ proc' = [proc EXCEPT ![w] = NoProcess]
  /\ UNCHANGED <<Shrink, Counter, files, dirTime, now, found, torn>>

\* The file that is being written keeps what has been written so far.
LeftBehind(w, u) ==
  \E d \in Partials[u] \cup {Empty, u} :
    files' = [files EXCEPT ![u] = [data |-> d, time |-> now, open |-> @.open \ {w}]]

\* The process ends in any other way: a crash, a limit, a signal.
JobFails(w) ==
  /\ ~ At(w, "none")
  /\ proc' = [proc EXCEPT ![w] = NoProcess]
  /\ LET u == proc[w].U
     IN  IF At(w, "close") /\ u \in Names /\ w \in files[u].open
         THEN LeftBehind(w, u) /\ torn' = torn \cup {u}
         ELSE UNCHANGED <<files, torn>>
  /\ UNCHANGED <<Shrink, Counter, dirTime, now, found>>

Tick ==
  /\ now < MaxTime
  /\ now' = now + 1
  /\ UNCHANGED <<Shrink, proc, Counter, files, dirTime, found, torn>>

Local(w, p) ==
  /\ proc' = [proc EXCEPT ![w] = p]
  /\ UNCHANGED <<Shrink, Counter, files, dirTime, now, found, torn>>

-----------------------------------------------------------------------------
(* ReadDirToVectorOfUnits *)

\* ListFilesInDirRecursive returns at once.
DirUnchanged(w) == proc[w].Epoch >= dirTime

\* Loop and RereadOutputCorpus: at least a second has passed.
RereadOutputCorpus(w) ==
  /\ At(w, "loop")
  /\ now > proc[w].last
  /\ Local(w, IF DirUnchanged(w) THEN [proc[w] EXCEPT !.last = now]
              ELSE [proc[w] EXCEPT !.pc = "list", !.reading = "reload",
                                   !.E = proc[w].Epoch, !.dirE = dirTime])

\* After the last file the units are run.  Without an initial corpus the process
\* starts from a line break.
AfterFile(p) ==
  IF p.listed # {} THEN [p EXCEPT !.pc = "stat", !.cur = NoUnit]
  ELSE [p EXCEPT !.pc = "queue", !.cur = NoUnit,
                 !.queue = IF p.reading = "initial" /\ @ = {} THEN {NewLine} ELSE @]

\* The names in the directory, and the time the directory had before.
ListFiles(w) ==
  /\ At(w, "list")
  /\ LET p == [proc[w] EXCEPT !.listed = Names,
                 !.Epoch = IF proc[w].reading = "reload" THEN proc[w].dirE ELSE @]
     IN  Local(w, AfterFile(p))

\* Mutant: a file from the second of the last reading is skipped too.
Skips_Same(w, x) == proc[w].reading = "reload" /\ GetEpoch(x) <= proc[w].E

\* A file that is older than the last reading is skipped, and so is one that has
\* disappeared, unless all files are read.
Skips(w, x) == proc[w].reading = "reload" /\ GetEpoch(x) < proc[w].E

StatFile(w) ==
  /\ At(w, "stat")
  /\ \E x \in proc[w].listed :
       LET p == [proc[w] EXCEPT !.listed = @ \ {x}]
       IN  Local(w, IF Skips(w, x) THEN AfterFile(p) ELSE [p EXCEPT !.pc = "read", !.cur = x])

\* What opening and reading the file may give.  The length of a file that does
\* not exist is size_t(-1), which FileToVector cuts to MaxSize.
Contents(x) ==
  IF x \notin Names THEN {Zeros}
  ELSE IF files[x].open = {} THEN {files[x].data} ELSE Partials[x] \cup {Empty, x}

FileToVector(w) ==
  /\ At(w, "read")
  /\ \E d \in Contents(proc[w].cur) :
       Local(w, AfterFile([proc[w] EXCEPT !.queue = @ \cup ({d} \ {Empty})]))

-----------------------------------------------------------------------------
(* RunOne *)

\* AddFeature: the features that u takes.
Takes(p, u) ==
  {f \in Coverage[u] : p.owner[f] = NoUnit \/ (Shrink /\ Size[p.owner[f]] > Size[u])}

\* Mutant: a unit that loses any feature is evicted.
Evicts_Early(p, owner) == {v \in Range(p.owner) : \E f \in Features : p.owner[f] = v /\ owner[f] # v}

\* DeleteInput: the units that have lost all their features.
Evicts(p, owner) == Range(p.owner) \ Range(owner)

\* RunOne returns when the files are removed; a mutated unit with new features is
\* then written.
AfterRun(p) ==
  [p EXCEPT !.pc = CASE p.evicted # {}       -> "evict"
                     [] p.evicted = {} /\ p.reading # "mutate" -> "queue"
                     [] p.evicted = {} /\ p.reading = "mutate" ->
                          IF p.U = NoUnit THEN "loop" ELSE "open"]

\* The unit u is run.  If it has new features it is added, and the files of units
\* that it replaces are removed if this process wrote them.
Run(p, u) ==
  LET owner == [f \in Features |-> IF f \in Takes(p, u) THEN u ELSE p.owner[f]]
      isNew == Takes(p, u) # {}
      written == isNew /\ p.reading = "mutate"
  IN  AfterRun(
      [p EXCEPT !.owner   = owner,
                !.evicted = Evicts(p, owner) \cap p.mine,
                !.Hashes  = IF isNew THEN @ \cup {u} ELSE @,
                !.mine    = IF written THEN @ \cup {u} ELSE @,
                !.U       = IF written THEN u ELSE NoUnit])

\* The next unit that was read; when reloading, one that is known is skipped.
RunQueued(w) ==
  /\ At(w, "queue")
  /\ \E u \in proc[w].queue :
       LET p == [proc[w] EXCEPT !.queue = @ \ {u}]
       IN  Local(w, IF p.reading = "reload" /\ u \in p.Hashes THEN p ELSE Run(p, u))

\* ShuffleAndMinimize and RereadOutputCorpus are done; a process without any
\* interesting input exits.
QueueDone(w) ==
  /\ At(w, "queue")
  /\ proc[w].queue = {}
  /\ Local(w, IF proc[w].Hashes = {} THEN NoProcess
              ELSE [proc[w] EXCEPT !.pc = "loop", !.reading = "mutate", !.last = now,
                                   !.E = 0, !.dirE = 0])

\* MutateAndTestOne: any unit.
Mutate(w) ==
  /\ At(w, "loop")
  /\ proc[w].finds < MaxFinds
  /\ \E u \in Units :
       Local(w, Run([proc[w] EXCEPT !.finds = @ + 1], u))

\* DeleteInput: unlink.
RemoveFile(w) ==
  /\ At(w, "evict")
  /\ \E v \in proc[w].evicted :
       /\ files' = [x \in Names \ {v} |-> files[x]]
       /\ dirTime' = IF v \in Names THEN now ELSE dirTime
       /\ LET p == [proc[w] EXCEPT !.evicted = @ \ {v}]
          IN  proc' = [proc EXCEPT ![w] = AfterRun(p)]
  /\ UNCHANGED <<Shrink, Counter, now, found, torn>>

-----------------------------------------------------------------------------
(* WriteToFile *)

\* fopen creates the file or empties it; only the former changes the directory.
OpenFile(w) ==
  /\ At(w, "open")
  /\ LET u == proc[w].U
         others == IF u \in Names THEN files[u].open ELSE {}
     IN  /\ files' = [x \in Names \cup {u} |->
                        IF x = u THEN [data |-> Empty, time |-> now, open |-> others \cup {w}]
                        ELSE files[x]]
         /\ dirTime' = IF u \in Names THEN dirTime ELSE now
  /\ proc' = [proc EXCEPT ![w].pc = "close"]
  /\ UNCHANGED <<Shrink, Counter, now, found, torn>>

\* fwrite and fclose; the file may have been removed in the meantime.
CloseFile(w) ==
  /\ At(w, "close")
  /\ LET u == proc[w].U
     IN  /\ files' = IF u \in Names /\ w \in files[u].open
                     THEN [files EXCEPT ![u] = [data |-> u, time |-> now, open |-> @.open \ {w}]]
                     ELSE files
         /\ found' = found \cup {u}
  /\ proc' = [proc EXCEPT ![w].pc = "loop", ![w].U = NoUnit]
  /\ UNCHANGED <<Shrink, Counter, dirTime, now, torn>>

SharedNext ==
  \/ \E w \in Workers :
       \/ StartJob(w) \/ JobDone(w) \/ JobFails(w)
       \/ RereadOutputCorpus(w) \/ ListFiles(w) \/ StatFile(w) \/ FileToVector(w)
       \/ RunQueued(w) \/ QueueDone(w) \/ Mutate(w) \/ RemoveFile(w)
       \/ OpenFile(w) \/ CloseFile(w)
  \/ Tick

SharedSpec == SharedInit /\ [][SharedNext]_sharedVars

-----------------------------------------------------------------------------
Process ==
  [pc : {"none", "list", "stat", "read", "queue", "evict", "loop", "open", "close"},
   reading : {"initial", "reload", "mutate"}, Epoch : 0..now, E : 0..now, dirE : 0..now,
   listed : SUBSET Units, cur : Units \cup {NoUnit}, queue : SUBSET Units,
   U : Units \cup {NoUnit}, evicted : SUBSET Units, owner : [Features -> Units \cup {NoUnit}],
   Hashes : SUBSET Units, mine : SUBSET Units, last : 0..now, finds : 0..MaxFinds]

SharedTypeOK ==
  /\ Shrink \in BOOLEAN
  /\ now \in 1..MaxTime /\ dirTime \in 1..now
  /\ Counter \in 0..NumJobs
  /\ Names \subseteq Units
  /\ \A x \in Names : files[x] \in [data : Units \cup {Empty}, time : 1..now, open : SUBSET Workers]
  /\ DOMAIN proc = Workers
  /\ \A w \in Workers : proc[w] \in Process
  /\ found \subseteq Units /\ torn \subseteq Units

IsWhole(x) == x \in Names /\ files[x].open = {} /\ files[x].data = x

Fuzzing(w) ==
  \/ proc[w].pc \in {"loop", "open", "close"}
  \/ proc[w].pc = "evict" /\ proc[w].reading = "mutate"

\* "The corpus directory is re-read periodically to check for new inputs": whatever
\* is written or removed while a process reads the directory, and although the
\* directory is skipped when its time has not changed, a process misses no file
\* that is older than its last reading.  It has all features of such a file, with
\* -shrink=1 from units that are not larger.
ReloadMissesNothingOld ==
  \A w \in Workers : Fuzzing(w) =>
    \A x \in Names : IsWhole(x) /\ files[x].time < proc[w].Epoch =>
      \A f \in Coverage[x] :
        /\ proc[w].owner[f] # NoUnit
        /\ Shrink => Size[proc[w].owner[f]] <= Size[x]

\* The one smallest unit of some feature.
UniqueSmallest(u) ==
  \E f \in Coverage[u] : \A v \in Units \ {u} : f \in Coverage[v] => Size[v] > Size[u]

\* Processes that shrink one directory at the same time, and read units that are
\* only partly written or already gone, remove each other's files; but never the
\* file of the one smallest unit for a feature, and without -shrink=1 none.  Such
\* a file is only damaged by a process that ends while it writes it once more.
SmallestKept ==
  \A u \in found : ~ Shrink \/ UniqueSmallest(u) =>
    /\ u \in Names
    /\ files[u].open = {} /\ u \notin torn => IsWhole(u)

-----------------------------------------------------------------------------
\* "Any new inputs found by one fuzzer process will be available to the other
\* fuzzer processes": as long as no process has ended, and while none is in the
\* middle of something, what was found is on disk, itself or in other units with
\* its features.
FoundIsAvailable ==
  Counter = Cardinality(Workers) /\ (\A w \in Workers : At(w, "loop")) =>
    \A u \in found : \A f \in Coverage[u] : \E v \in Names : IsWhole(v) /\ f \in Coverage[v]

=============================================================================
