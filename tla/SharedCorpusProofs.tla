------------------------- MODULE SharedCorpusProofs -------------------------
(***************************************************************************)
(* Fuzzing processes on one directory: for any number of processes, jobs   *)
(* and units, a process misses no file that is older than its last         *)
(* reading, and the one smallest unit of a feature stays on disk.          *)
(***************************************************************************)
EXTENDS SharedCorpus, TLAPS

\* The process p has the features of the unit x, with -shrink=1 from units that are
\* not larger.
Covers(p, x) ==
  \A f \in Coverage[x] :
    /\ p.owner[f] # NoUnit
    /\ Shrink => Size[p.owner[f]] <= Size[x]

\* Where a process is, and what is in its lists.
Places(p) ==
  /\ p.pc \in {"list", "stat", "read", "queue"} => p.reading # "mutate"
  /\ p.pc \in {"loop", "open", "close"} => p.reading = "mutate"
  /\ p.pc \in {"open", "close"} => p.U # NoUnit
  /\ p.pc \notin {"stat", "read"} => p.listed = {}
  /\ p.pc # "read" => p.cur = NoUnit
  /\ p.reading = "mutate" => p.queue = {}

\* A process owns features only through units it has, it has all features of these,
\* and the units it will evict have lost their features to smaller ones.
Memory(p) ==
  /\ \A f \in Features : p.owner[f] # NoUnit => f \in Coverage[p.owner[f]] /\ p.owner[f] \in p.Hashes
  /\ \A u \in p.Hashes : Covers(p, u)
  /\ \A u \in p.evicted : Shrink /\ ~ UniqueSmallest(u)

\* A unit whose file no process removes.
Protected(u) == ~ Shrink \/ UniqueSmallest(u)

\* The files: only one that is being written, or was when its writer died, is not whole.
Disk ==
  /\ \A x \in Names : files[x].open = {} /\ x \notin torn => files[x].data = x
  /\ \A u \in found : Protected(u) => u \in Names
  /\ \A w \in Workers : proc[w].pc = "close" /\ Protected(proc[w].U) =>
       proc[w].U \in Names /\ w \in files[proc[w].U].open

\* A whole file of the directory F that is older than t.
OldFile(F, x, t) == x \in DOMAIN F /\ F[x].open = {} /\ F[x].data = x /\ F[x].time < t

\* What is older than the current reading is still to be read, or known; and while the
\* directory F is read again, what is older than the reading before is known.
Reading(F, p) ==
  /\ p.pc \notin {"none", "list"} =>
       \A x \in Units : OldFile(F, x, p.Epoch) =>
         x \in p.listed \cup {p.cur} \cup p.queue \/ Covers(p, x)
  /\ p.pc # "none" /\ p.reading = "reload" =>
       \A x \in Units : OldFile(F, x, p.E) => Covers(p, x)

SharedInv ==
  /\ SharedTypeOK
  /\ \A w \in Workers : Places(proc[w]) /\ Memory(proc[w]) /\ Reading(files, proc[w])
  /\ Disk

-----------------------------------------------------------------------------
(* Processes *)

\* Two processes with the same memory.
SameMemory(p, q) == q.owner = p.owner /\ q.Hashes = p.Hashes /\ q.evicted = p.evicted

LEMMA SameMemoryFacts ==
  ASSUME NEW p, NEW q, SameMemory(p, q)
  PROVE  (\A x : Covers(p, x) <=> Covers(q, x)) /\ (Memory(p) <=> Memory(q))
<1>1. \A x : Covers(p, x) <=> Covers(q, x)
  BY DEF SameMemory, Covers
<1> QED BY <1>1 DEF SameMemory, Memory

LEMMA Assumptions ==
  /\ NewLine \in Units /\ Zeros \in Units /\ NoUnit \notin Units /\ Empty \notin Units
  /\ \A u \in Units : Size[u] \in Nat /\ Coverage[u] \subseteq Features /\ Partials[u] \subseteq Units
  /\ NumJobs \in Nat /\ MaxFinds \in Nat /\ MaxTime \in Nat
BY SharedAssumption

\* What AfterFile changes.
AfterFileOf(p, q) ==
  /\ q \in Process /\ SameMemory(p, q) /\ q.listed = p.listed /\ q.cur = NoUnit
  /\ q.reading = p.reading /\ q.Epoch = p.Epoch /\ q.E = p.E /\ p.queue \subseteq q.queue
  /\ q.pc \in {"stat", "queue"} /\ (q.pc = "queue" => q.listed = {})

LEMMA AfterFileFacts == ASSUME NEW p \in Process PROVE AfterFileOf(p, AfterFile(p))
<1>1. CASE p.listed # {}
  <2>1. AfterFile(p) = [p EXCEPT !.pc = "stat", !.cur = NoUnit]
    BY <1>1 DEF AfterFile
  <2> QED BY <2>1 DEF Process, AfterFileOf, SameMemory
<1>2. CASE p.listed = {}
  <2> DEFINE Q == IF p.reading = "initial" /\ p.queue = {} THEN {NewLine} ELSE p.queue
  <2>1. AfterFile(p) = [p EXCEPT !.pc = "queue", !.cur = NoUnit, !.queue = Q]
    BY <1>2 DEF AfterFile, Process
  <2>2. Q \in SUBSET Units /\ p.queue \subseteq Q
    BY Assumptions DEF Process
  <2> HIDE DEF Q
  <2>3. AfterFile(p) \in Process
    BY <2>1, <2>2 DEF Process
  <2>4. SameMemory(p, AfterFile(p))
    BY <2>1 DEF Process, SameMemory
  <2>5. LET q == AfterFile(p) IN
          /\ q.listed = p.listed /\ q.cur = NoUnit /\ q.reading = p.reading
          /\ q.Epoch = p.Epoch /\ q.E = p.E /\ q.queue = Q /\ q.pc = "queue"
    BY <2>1 DEF Process
  <2> QED BY <1>2, <2>2, <2>3, <2>4, <2>5 DEF AfterFileOf
<1> QED BY <1>1, <1>2

\* AfterRun only moves the process.
AfterRunOf(p, q) ==
  /\ q \in Process /\ SameMemory(p, q) /\ q.listed = p.listed /\ q.cur = p.cur /\ q.queue = p.queue
  /\ q.reading = p.reading /\ q.Epoch = p.Epoch /\ q.E = p.E /\ q.U = p.U
  /\ q.pc \in {"evict", "queue", "loop", "open"}
  /\ q.pc = "queue" => p.reading # "mutate"
  /\ q.pc \in {"loop", "open"} => p.reading = "mutate"
  /\ q.pc = "open" => p.U # NoUnit

LEMMA AfterRunFacts == ASSUME NEW p \in Process PROVE AfterRunOf(p, AfterRun(p))
<1>1. PICK l : AfterRun(p) = [p EXCEPT !.pc = l] /\ l \in {"evict", "queue", "loop", "open"}
               /\ (l = "queue" => p.reading # "mutate")
               /\ (l \in {"loop", "open"} => p.reading = "mutate")
               /\ (l = "open" => p.U # NoUnit)
  BY DEF AfterRun
<1> QED BY <1>1 DEF Process, AfterRunOf, SameMemory

\* The effect of a run on the memory: the features taken, and the units evicted.
RunOwner(p, u) == [f \in Features |-> IF f \in Takes(p, u) THEN u ELSE p.owner[f]]

RunOf(p, u, q) ==
  /\ q \in Process /\ q.owner = RunOwner(p, u) /\ q.evicted = Evicts(p, RunOwner(p, u)) \cap p.mine
  /\ q.Hashes = IF Takes(p, u) # {} THEN p.Hashes \cup {u} ELSE p.Hashes
  /\ q.listed = p.listed /\ q.cur = p.cur /\ q.queue = p.queue
  /\ q.reading = p.reading /\ q.Epoch = p.Epoch /\ q.E = p.E
  /\ q.pc \in {"evict", "queue", "loop", "open"}
  /\ q.pc = "queue" => p.reading # "mutate"
  /\ q.pc \in {"loop", "open"} => p.reading = "mutate"
  /\ q.pc = "open" => q.U # NoUnit

LEMMA RunFacts == ASSUME NEW p \in Process, NEW u \in Units PROVE RunOf(p, u, Run(p, u))
<1> DEFINE o == RunOwner(p, u)
           e == Evicts(p, o) \cap p.mine
           h == IF Takes(p, u) # {} THEN p.Hashes \cup {u} ELSE p.Hashes
           m == IF Takes(p, u) # {} /\ p.reading = "mutate" THEN p.mine \cup {u} ELSE p.mine
           v == IF Takes(p, u) # {} /\ p.reading = "mutate" THEN u ELSE NoUnit
           r == [p EXCEPT !.owner = o, !.evicted = e, !.Hashes = h, !.mine = m, !.U = v]
<1>1. Run(p, u) = AfterRun(r)
  BY DEF Run, RunOwner, Process
<1>2. o \in [Features -> Units \cup {NoUnit}]
  BY DEF RunOwner, Process
<1>3. e \in SUBSET Units /\ h \in SUBSET Units /\ m \in SUBSET Units /\ v \in Units \cup {NoUnit}
  BY DEF Process
<1> HIDE DEF o, e, h, m, v
<1>4. /\ r \in Process /\ r.owner = o /\ r.evicted = e /\ r.Hashes = h /\ r.listed = p.listed
      /\ r.cur = p.cur /\ r.queue = p.queue /\ r.reading = p.reading /\ r.Epoch = p.Epoch /\ r.E = p.E
  BY <1>2, <1>3 DEF Process
<1> HIDE DEF r
<1>5. AfterRunOf(r, AfterRun(r))
  BY <1>4, AfterRunFacts
<1> QED BY <1>1, <1>4, <1>5 DEF AfterRunOf, SameMemory, RunOf, o, e, h

\* A run keeps the memory in order, loses no feature, and knows the unit afterwards.
LEMMA RunMemory ==
  ASSUME Shrink \in BOOLEAN, NEW p \in Process, NEW u \in Units, NEW q, RunOf(p, u, q), Memory(p)
  PROVE  /\ Memory(q) /\ Covers(q, u)
         /\ \A x \in Units : Covers(p, x) => Covers(q, x)
<1>1. /\ p.owner \in [Features -> Units \cup {NoUnit}] /\ p.Hashes \subseteq Units /\ p.mine \subseteq Units
      /\ Coverage[u] \subseteq Features /\ NoUnit \notin Units
  BY Assumptions DEF Process
<1>2. /\ \A f \in Features : q.owner[f] = IF f \in Takes(p, u) THEN u ELSE p.owner[f]
      /\ q.evicted = (Range(p.owner) \ Range(q.owner)) \cap p.mine
      /\ q.Hashes = IF Takes(p, u) # {} THEN p.Hashes \cup {u} ELSE p.Hashes
      /\ q.owner \in [Features -> Units \cup {NoUnit}]
  BY <1>1 DEF RunOf, RunOwner, Evicts
<1>3. \A f \in Features : f \in Takes(p, u) <=>
        f \in Coverage[u] /\ (p.owner[f] = NoUnit \/ (Shrink /\ Size[p.owner[f]] > Size[u]))
  BY DEF Takes
<1>4. \A f \in Features : p.owner[f] # NoUnit =>
        q.owner[f] # NoUnit /\ (Shrink => Size[q.owner[f]] <= Size[p.owner[f]])
  BY <1>1, <1>2, <1>3, Assumptions
<1>5. \A x \in Units : Covers(p, x) => Covers(q, x)
  BY <1>1, <1>2, <1>4, Assumptions DEF Covers
<1>6. Covers(q, u)
  BY <1>1, <1>2, <1>3, Assumptions DEF Covers
<1>7. \A f \in Features : q.owner[f] # NoUnit => f \in Coverage[q.owner[f]] /\ q.owner[f] \in q.Hashes
  BY <1>1, <1>2, <1>3 DEF Memory
<1>8. \A x \in q.Hashes : Covers(q, x)
  BY <1>1, <1>2, <1>5, <1>6 DEF Memory
<1>9. ASSUME NEW x \in q.evicted PROVE Shrink /\ ~ UniqueSmallest(x)
  <2>1. PICK f \in Features : p.owner[f] = x
    BY <1>1, <1>2 DEF Range
  <2>2. x \in Units /\ \A g \in Features : q.owner[g] # x
    BY <1>1, <1>2 DEF Range
  <2>3. Shrink
    BY <1>1, <1>2, <1>3, <2>1, <2>2
  <2>4. ASSUME UniqueSmallest(x) PROVE FALSE
    <3>1. PICK g \in Coverage[x] : \A v \in Units \ {x} : g \in Coverage[v] => Size[v] > Size[x]
      BY <2>4 DEF UniqueSmallest
    <3>2. g \in Features
      BY <2>2, Assumptions
    <3>3. Covers(p, x)
      BY <1>1, <2>1, <2>2 DEF Memory
    <3>4. Covers(q, x)
      BY <1>5, <2>2, <3>3
    <3>5. q.owner[g] \in Units /\ g \in Coverage[q.owner[g]] /\ Size[q.owner[g]] <= Size[x]
      BY <1>2, <1>7, <2>3, <3>2, <3>4 DEF Covers
    <3> QED BY <2>2, <3>1, <3>2, <3>5, Assumptions
  <2> QED BY <2>3, <2>4
<1> QED BY <1>5, <1>6, <1>7, <1>8, <1>9 DEF Memory

-----------------------------------------------------------------------------
(* Steps *)

\* The setting does not change, and so what a process knows does not.
LEMMA SharedFrame ==
  ASSUME Shrink' = Shrink
  PROVE  /\ \A p, x : Covers(p, x)' <=> Covers(p, x)
         /\ \A p : Memory(p)' <=> Memory(p)
         /\ \A u : Protected(u)' <=> Protected(u)
         /\ \A F, p : Reading(F, p)' <=> Reading(F, p)
<1>1. \A p, x : Covers(p, x)' <=> Covers(p, x)
  BY DEF Covers
<1>2. \A p : Memory(p)' <=> Memory(p)
  BY <1>1 DEF Memory
<1>3. \A u : Protected(u)' <=> Protected(u)
  BY DEF Protected
<1>4. \A F, p : Reading(F, p)' <=> Reading(F, p)
  BY <1>1 DEF Reading
<1> QED BY <1>1, <1>2, <1>3, <1>4

\* Every process is in order, and so are the files.
LEMMA Assemble ==
  ASSUME Shrink' = Shrink, SharedTypeOK', Disk',
         \A v \in Workers : Places(proc'[v]) /\ Memory(proc'[v]) /\ Reading(files', proc'[v])
  PROVE  SharedInv'
<1>1. \A v \in Workers : Places(proc[v])'
  BY DEF Places
<1>2. \A v \in Workers : Memory(proc[v])'
  <2>1. \A v \in Workers : Memory(proc'[v])
    OBVIOUS
  <2> QED BY <2>1 DEF Memory, Covers
<1>3. \A v \in Workers : Reading(files, proc[v])'
  <2>1. \A v \in Workers : Reading(files', proc'[v])
    OBVIOUS
  <2> QED BY <2>1 DEF Reading, Covers
<1> QED BY <1>1, <1>2, <1>3 DEF SharedInv

\* One process becomes q, and the files stay as they are.
LEMMA ProcessStep ==
  ASSUME SharedInv, NEW w \in Workers, NEW q \in Process, Places(q), Memory(q), Reading(files, q),
         q.pc # "close", proc' = [proc EXCEPT ![w] = q], Counter' \in 0..NumJobs,
         UNCHANGED <<Shrink, files, dirTime, now, found, torn>>
  PROVE  SharedInv'
<1>1. SharedTypeOK /\ Disk /\ DOMAIN proc = Workers
  BY DEF SharedInv, SharedTypeOK
<1>2. /\ DOMAIN proc' = Workers
      /\ \A v \in Workers : proc'[v] = q \/ proc'[v] = proc[v]
      /\ \A v \in Workers : proc'[v].pc = "close" => proc'[v] = proc[v]
  BY <1>1
<1>3. Process' = Process
  BY DEF Process
<1>4. SharedTypeOK'
  BY <1>1, <1>2, <1>3 DEF SharedTypeOK, Names
<1>5. Disk'
  BY <1>1, <1>2, SharedFrame DEF Disk, Names, Protected
<1>6. \A v \in Workers : Places(proc'[v]) /\ Memory(proc'[v]) /\ Reading(files', proc'[v])
  BY <1>2 DEF SharedInv
<1> QED BY <1>4, <1>5, <1>6, Assemble

LEMMA LocalStep ==
  ASSUME SharedInv, NEW w \in Workers, NEW q \in Process, Places(q), Memory(q), Reading(files, q),
         q.pc # "close", Local(w, q)
  PROVE  SharedInv'
<1>1. Counter \in 0..NumJobs
  BY DEF SharedInv, SharedTypeOK
<1> QED BY <1>1, ProcessStep DEF Local

\* The processes that have just started, and that have ended.
LEMMA FreshFacts ==
  ASSUME SharedInv
  PROVE  \A q \in {NewProcess, NoProcess} :
           q \in Process /\ Places(q) /\ Memory(q) /\ Reading(files, q) /\ q.pc # "close"
<1>1. now \in Nat /\ dirTime \in 0..now /\ MaxFinds \in Nat /\ NoUnit \notin Units
  BY Assumptions DEF SharedInv, SharedTypeOK
<1>2. NewProcess \in Process
  BY <1>1 DEF NewProcess, Process
<1>3. /\ NewProcess.pc = "list" /\ NewProcess.reading = "initial" /\ NewProcess.listed = {}
      /\ NewProcess.cur = NoUnit /\ NewProcess.Hashes = {} /\ NewProcess.evicted = {}
      /\ NewProcess.owner = [f \in Features |-> NoUnit]
  BY DEF NewProcess
<1>4. /\ NoProcess \in Process
      /\ \A q \in {NewProcess, NoProcess} :
           /\ q.pc \in {"none", "list"} /\ q.reading = "initial" /\ q.listed = {} /\ q.cur = NoUnit
           /\ q.Hashes = {} /\ q.evicted = {} /\ q.owner = [f \in Features |-> NoUnit]
  <2>1. PICK p \in Process : p = NewProcess
    BY <1>2
  <2>2. NoProcess = [p EXCEPT !.pc = "none", !.Epoch = 0]
    BY <2>1 DEF NoProcess
  <2>3. /\ NoProcess \in Process /\ NoProcess.pc = "none" /\ NoProcess.reading = p.reading
        /\ NoProcess.listed = p.listed /\ NoProcess.cur = p.cur /\ NoProcess.Hashes = p.Hashes
        /\ NoProcess.evicted = p.evicted /\ NoProcess.owner = p.owner
    <3>1. PICK z \in 0..now : z = 0
      BY <1>1
    <3>2. NoProcess = [p EXCEPT !.pc = "none", !.Epoch = z]
      BY <2>2, <3>1
    <3> QED BY <3>2 DEF Process
  <2> QED BY <1>3, <2>1, <2>3
<1>5. \A q \in {NewProcess, NoProcess} : Memory(q)
  BY <1>4 DEF Memory
<1>6. \A q \in {NewProcess, NoProcess} : Places(q) /\ Reading(files, q) /\ q.pc # "close"
  BY <1>4 DEF Places, Reading
<1> QED BY <1>2, <1>4, <1>5, <1>6

\* What the invariant says of one process.
LEMMA OneProcess ==
  ASSUME SharedInv, NEW w \in Workers
  PROVE  /\ proc[w] \in Process /\ Places(proc[w]) /\ Memory(proc[w]) /\ Reading(files, proc[w])
         /\ Shrink \in BOOLEAN /\ now \in Nat /\ dirTime \in 0..now /\ Names \subseteq Units
         /\ Names = DOMAIN files
         /\ \A x \in Names : files[x].data \in Units \cup {Empty} /\ files[x].time \in 0..now
BY DEF SharedInv, SharedTypeOK, Names

LEMMA StartJobInv == ASSUME SharedInv, NEW w \in Workers, StartJob(w) PROVE SharedInv'
<1>1. Counter' \in 0..NumJobs
  BY Assumptions DEF SharedInv, SharedTypeOK, StartJob, MoreJobs
<1> QED BY <1>1, FreshFacts, ProcessStep DEF StartJob

LEMMA JobDoneInv == ASSUME SharedInv, NEW w \in Workers, JobDone(w) PROVE SharedInv'
<1>1. Counter' \in 0..NumJobs
  BY DEF SharedInv, SharedTypeOK, JobDone
<1> QED BY <1>1, FreshFacts, ProcessStep DEF JobDone

LEMMA RereadInv == ASSUME SharedInv, NEW w \in Workers, RereadOutputCorpus(w) PROVE SharedInv'
<1> DEFINE p == proc[w]
<1>1. /\ p \in Process /\ Places(p) /\ Memory(p) /\ Reading(files, p) /\ p.pc = "loop"
      /\ now \in Nat /\ dirTime \in 0..now
  BY OneProcess DEF RereadOutputCorpus, At
<1>2. p.listed = {} /\ p.cur = NoUnit /\ p.queue = {} /\ p.Epoch \in 0..now /\ NoUnit \notin Units
  BY <1>1, Assumptions DEF Places, Process
<1>3. CASE Local(w, [p EXCEPT !.last = now])
  <2> DEFINE q == [p EXCEPT !.last = now]
  <2>1. /\ q \in Process /\ SameMemory(p, q) /\ q.pc = "loop" /\ q.listed = p.listed /\ q.cur = p.cur
        /\ q.queue = p.queue /\ q.Epoch = p.Epoch /\ q.E = p.E /\ q.reading = p.reading /\ q.U = p.U
    BY <1>1 DEF Process, SameMemory
  <2> HIDE DEF q
  <2>2. Memory(q) /\ \A x : Covers(p, x) <=> Covers(q, x)
    BY <1>1, <2>1, SameMemoryFacts
  <2>3. Places(q) /\ Reading(files, q)
    BY <1>1, <2>1, <2>2 DEF Places, Reading
  <2> QED BY <1>3, <2>1, <2>2, <2>3, LocalStep DEF q
<1>4. CASE Local(w, [p EXCEPT !.pc = "list", !.reading = "reload", !.E = p.Epoch, !.dirE = dirTime])
  <2> DEFINE q == [p EXCEPT !.pc = "list", !.reading = "reload", !.E = p.Epoch, !.dirE = dirTime]
  <2>1. /\ q \in Process /\ SameMemory(p, q) /\ q.pc = "list" /\ q.listed = p.listed /\ q.cur = p.cur
        /\ q.queue = p.queue /\ q.Epoch = p.Epoch /\ q.E = p.Epoch /\ q.reading = "reload"
    BY <1>1, <1>2 DEF Process, SameMemory
  <2> HIDE DEF q
  <2>2. Memory(q) /\ \A x : Covers(p, x) <=> Covers(q, x)
    BY <1>1, <2>1, SameMemoryFacts
  <2>3. \A x \in Units : OldFile(files, x, p.Epoch) => Covers(p, x)
    BY <1>1, <1>2 DEF Reading
  <2>4. Places(q) /\ Reading(files, q)
    BY <1>2, <2>1, <2>2, <2>3 DEF Places, Reading
  <2> QED BY <1>4, <2>1, <2>2, <2>4, LocalStep DEF q
<1> QED BY <1>3, <1>4 DEF RereadOutputCorpus

\* The list of files, or what is left of it, is read on.
LEMMA AfterFileStep ==
  ASSUME SharedInv, NEW w \in Workers, NEW p \in Process, Local(w, AfterFile(p)),
         Memory(p), p.reading # "mutate",
         \A x \in Units : OldFile(files, x, p.Epoch) => x \in p.listed \cup p.queue \/ Covers(p, x),
         p.reading = "reload" => \A x \in Units : OldFile(files, x, p.E) => Covers(p, x)
  PROVE  SharedInv'
<1>1. PICK q : q = AfterFile(p)
  OBVIOUS
<1>2. AfterFileOf(p, q)
  BY <1>1, AfterFileFacts
<1>3. Memory(q) /\ \A x : Covers(p, x) <=> Covers(q, x)
  BY <1>2, SameMemoryFacts DEF AfterFileOf
<1>4. Places(q)
  BY <1>2 DEF AfterFileOf, Places
<1>5. Reading(files, q)
  BY <1>2, <1>3 DEF AfterFileOf, Reading
<1>6. q \in Process /\ q.pc # "close"
  BY <1>2 DEF AfterFileOf
<1> QED BY <1>1, <1>3, <1>4, <1>5, <1>6, LocalStep

LEMMA ListFilesInv == ASSUME SharedInv, NEW w \in Workers, ListFiles(w) PROVE SharedInv'
<1> DEFINE p == proc[w]
           t == IF p.reading = "reload" THEN p.dirE ELSE p.Epoch
           q == [p EXCEPT !.listed = Names, !.Epoch = t]
<1>1. /\ p \in Process /\ Places(p) /\ Memory(p) /\ Reading(files, p) /\ p.pc = "list"
      /\ Names \subseteq Units /\ Names = DOMAIN files
  BY OneProcess DEF ListFiles, At
<1>2. Local(w, AfterFile(q))
  BY <1>1 DEF ListFiles, Process
<1>3. t \in 0..now
  BY <1>1 DEF Process
<1> HIDE DEF t
<1>4. /\ q \in Process /\ SameMemory(p, q) /\ q.listed = Names /\ q.reading = p.reading /\ q.E = p.E
  BY <1>1, <1>3 DEF Process, SameMemory
<1> HIDE DEF q
<1>5. Memory(q) /\ \A x : Covers(p, x) <=> Covers(q, x)
  BY <1>1, <1>4, SameMemoryFacts
<1>6. \A x \in Units : OldFile(files, x, q.Epoch) => x \in q.listed
  BY <1>1, <1>4 DEF OldFile
<1>7. q.reading # "mutate"
  BY <1>1, <1>4 DEF Places
<1>8. q.reading = "reload" => \A x \in Units : OldFile(files, x, q.E) => Covers(q, x)
  BY <1>1, <1>4, <1>5 DEF Reading
<1> QED BY <1>2, <1>4, <1>5, <1>6, <1>7, <1>8, AfterFileStep

LEMMA StatFileInv == ASSUME SharedInv, NEW w \in Workers, StatFile(w) PROVE SharedInv'
<1> DEFINE p == proc[w]
<1>1. /\ p \in Process /\ Places(p) /\ Memory(p) /\ Reading(files, p) /\ p.pc = "stat"
      /\ Names \subseteq Units /\ Names = DOMAIN files
  BY OneProcess DEF StatFile, At
<1>2. PICK x \in p.listed :
        LET q == [p EXCEPT !.listed = p.listed \ {x}]
        IN  Local(w, IF Skips(w, x) THEN AfterFile(q) ELSE [q EXCEPT !.pc = "read", !.cur = x])
  BY <1>1 DEF StatFile, Process
<1> DEFINE q == [p EXCEPT !.listed = p.listed \ {x}]
<1>3. /\ q \in Process /\ SameMemory(p, q) /\ q.listed = p.listed \ {x} /\ q.reading = p.reading
      /\ q.E = p.E /\ q.Epoch = p.Epoch /\ q.queue = p.queue /\ q.cur = p.cur
  BY <1>1 DEF Process, SameMemory
<1>4. x \in Units
  BY <1>1 DEF Process
<1>5. p.reading # "mutate"
  BY <1>1 DEF Places
<1>6. CASE Skips(w, x) /\ Local(w, AfterFile(q))
  <2> HIDE DEF q
  <2>1. Memory(q) /\ \A y : Covers(p, y) <=> Covers(q, y)
    BY <1>1, <1>3, SameMemoryFacts
  <2>2. OldFile(files, x, p.Epoch) => Covers(q, x)
    <3>1. p.reading = "reload" /\ (x \in DOMAIN files => files[x].time < p.E)
      BY <1>1, <1>6 DEF Skips, GetEpoch
    <3> QED BY <1>1, <1>4, <2>1, <3>1 DEF Reading, OldFile
  <2>3. \A y \in Units : OldFile(files, y, q.Epoch) => y \in q.listed \cup q.queue \/ Covers(q, y)
    <3> SUFFICES ASSUME NEW y \in Units, OldFile(files, y, p.Epoch), ~ Covers(q, y)
        PROVE  y \in q.listed \cup q.queue
      BY <1>3
    <3>1. y \in p.listed \cup {p.cur} \cup p.queue /\ y # x
      BY <1>1, <2>1, <2>2 DEF Reading
    <3>2. p.cur = NoUnit /\ NoUnit \notin Units
      BY <1>1, Assumptions DEF Places
    <3> QED BY <1>3, <3>1, <3>2
  <2>4. q.reading = "reload" => \A y \in Units : OldFile(files, y, q.E) => Covers(q, y)
    BY <1>1, <1>3, <2>1 DEF Reading
  <2> QED BY <1>3, <1>5, <1>6, <2>1, <2>3, <2>4, AfterFileStep
<1>7. CASE Local(w, [q EXCEPT !.pc = "read", !.cur = x])
  <2> DEFINE r == [q EXCEPT !.pc = "read", !.cur = x]
  <2>1. /\ r \in Process /\ SameMemory(q, r) /\ r.listed = q.listed /\ r.reading = q.reading
        /\ r.E = q.E /\ r.Epoch = q.Epoch /\ r.queue = q.queue /\ r.cur = x /\ r.pc = "read"
    <3> HIDE DEF q
    <3> QED BY <1>3, <1>4 DEF Process, SameMemory
  <2> HIDE DEF q, r
  <2>2. SameMemory(p, r)
    BY <1>3, <2>1 DEF SameMemory
  <2>3. Memory(r) /\ \A y : Covers(p, y) <=> Covers(r, y)
    BY <1>1, <2>2, SameMemoryFacts
  <2>4. Places(r)
    BY <1>3, <1>5, <2>1 DEF Places
  <2>5. Reading(files, r)
    <3>1. p.cur = NoUnit /\ NoUnit \notin Units
      BY <1>1, Assumptions DEF Places
    <3> QED BY <1>1, <1>3, <2>1, <2>3, <3>1 DEF Reading
  <2> QED BY <1>7, <2>1, <2>3, <2>4, <2>5, LocalStep DEF r
<1> QED BY <1>2, <1>6, <1>7

\* An old file that is read is whole, and no writer is in it.
LEMMA FileToVectorInv == ASSUME SharedInv, NEW w \in Workers, FileToVector(w) PROVE SharedInv'
<1> DEFINE p == proc[w]
<1>1. /\ p \in Process /\ Places(p) /\ Memory(p) /\ Reading(files, p) /\ p.pc = "read"
      /\ Names \subseteq Units /\ Names = DOMAIN files
      /\ \A x \in Names : files[x].data \in Units \cup {Empty}
  BY OneProcess DEF FileToVector, At
<1>2. PICK d \in Contents(p.cur) :
        Local(w, AfterFile([p EXCEPT !.queue = p.queue \cup ({d} \ {Empty})]))
  BY <1>1 DEF FileToVector, Process
<1> DEFINE q == [p EXCEPT !.queue = p.queue \cup ({d} \ {Empty})]
<1>3. {d} \ {Empty} \subseteq Units
  BY <1>1, <1>2, Assumptions DEF Contents
<1>4. /\ q \in Process /\ SameMemory(p, q) /\ q.listed = p.listed /\ q.reading = p.reading
      /\ q.E = p.E /\ q.Epoch = p.Epoch /\ q.queue = p.queue \cup ({d} \ {Empty})
  BY <1>1, <1>3 DEF Process, SameMemory
<1> HIDE DEF q
<1>5. Memory(q) /\ \A x : Covers(p, x) <=> Covers(q, x)
  BY <1>1, <1>4, SameMemoryFacts
<1>6. \A x \in Units : OldFile(files, x, p.Epoch) /\ x = p.cur => x \in q.queue
  BY <1>1, <1>2, <1>4, Assumptions DEF OldFile, Contents
<1>7. \A x \in Units : OldFile(files, x, q.Epoch) => x \in q.listed \cup q.queue \/ Covers(q, x)
  BY <1>1, <1>4, <1>5, <1>6 DEF Reading
<1>8. q.reading = "reload" => \A x \in Units : OldFile(files, x, q.E) => Covers(q, x)
  BY <1>1, <1>4, <1>5 DEF Reading
<1>9. q.reading # "mutate"
  BY <1>1, <1>4 DEF Places
<1> QED BY <1>2, <1>4, <1>5, <1>7, <1>8, <1>9, AfterFileStep DEF q

\* A run of the unit u, which may have been in the queue.
LEMMA RunStep ==
  ASSUME SharedInv, NEW w \in Workers, NEW p \in Process, NEW u \in Units, Local(w, Run(p, u)),
         Memory(p), p.listed = {}, p.cur = NoUnit, p.reading = "mutate" => p.queue = {},
         \A x \in Units : OldFile(files, x, p.Epoch) => x = u \/ x \in p.queue \/ Covers(p, x),
         p.reading = "reload" => \A x \in Units : OldFile(files, x, p.E) => Covers(p, x)
  PROVE  SharedInv'
<1>1. PICK q : q = Run(p, u)
  OBVIOUS
<1>2. RunOf(p, u, q)
  BY <1>1, RunFacts
<1>3. Shrink \in BOOLEAN
  BY DEF SharedInv, SharedTypeOK
<1>4. Memory(q) /\ Covers(q, u) /\ \A x \in Units : Covers(p, x) => Covers(q, x)
  BY <1>2, <1>3, RunMemory
<1>5. /\ q.reading = p.reading /\ q.Epoch = p.Epoch /\ q.E = p.E /\ q.listed = {} /\ q.cur = NoUnit
      /\ q.queue = p.queue /\ q \in Process /\ q.pc \in {"evict", "queue", "loop", "open"}
      /\ q.pc = "queue" => p.reading # "mutate"
      /\ q.pc \in {"loop", "open"} => p.reading = "mutate"
      /\ q.pc = "open" => q.U # NoUnit
  BY <1>2 DEF RunOf
<1>6. Places(q)
  BY <1>5 DEF Places
<1>7. Reading(files, q)
  BY <1>4, <1>5 DEF Reading
<1> QED BY <1>1, <1>4, <1>5, <1>6, <1>7, LocalStep

LEMMA RunQueuedInv == ASSUME SharedInv, NEW w \in Workers, RunQueued(w) PROVE SharedInv'
<1> DEFINE p == proc[w]
<1>1. /\ p \in Process /\ Places(p) /\ Memory(p) /\ Reading(files, p) /\ p.pc = "queue"
  BY OneProcess DEF RunQueued, At
<1>2. PICK u \in p.queue :
        LET q == [p EXCEPT !.queue = p.queue \ {u}]
        IN  Local(w, IF q.reading = "reload" /\ u \in q.Hashes THEN q ELSE Run(q, u))
  BY <1>1 DEF RunQueued, Process
<1> DEFINE q == [p EXCEPT !.queue = p.queue \ {u}]
<1>3. /\ q \in Process /\ SameMemory(p, q) /\ q.listed = p.listed /\ q.reading = p.reading
      /\ q.E = p.E /\ q.Epoch = p.Epoch /\ q.queue = p.queue \ {u} /\ q.cur = p.cur /\ q.pc = p.pc
      /\ u \in Units
  BY <1>1 DEF Process, SameMemory
<1>4. Local(w, IF q.reading = "reload" /\ u \in q.Hashes THEN q ELSE Run(q, u))
  BY <1>2
<1> HIDE DEF q
<1>5. Memory(q) /\ \A x : Covers(p, x) <=> Covers(q, x)
  BY <1>1, <1>3, SameMemoryFacts
<1>6. /\ q.listed = {} /\ q.cur = NoUnit /\ q.reading # "mutate" /\ NoUnit \notin Units
  BY <1>1, <1>3, Assumptions DEF Places
<1>7. \A x \in Units : OldFile(files, x, q.Epoch) => x = u \/ x \in q.queue \/ Covers(q, x)
  BY <1>1, <1>3, <1>5, <1>6 DEF Reading
<1>8. q.reading = "reload" => \A x \in Units : OldFile(files, x, q.E) => Covers(q, x)
  BY <1>1, <1>3, <1>5 DEF Reading
<1>9. CASE q.reading = "reload" /\ u \in q.Hashes
  <2>1. Covers(q, u)
    BY <1>5, <1>9 DEF Memory
  <2>2. Places(q)
    BY <1>1, <1>3, <1>6 DEF Places
  <2>3. Reading(files, q)
    BY <1>1, <1>3, <1>7, <1>8, <2>1 DEF Reading
  <2>4. q.pc # "close"
    BY <1>1, <1>3
  <2> QED BY <1>3, <1>4, <1>5, <1>9, <2>2, <2>3, <2>4, LocalStep
<1>10. CASE ~ (q.reading = "reload" /\ u \in q.Hashes)
  BY <1>3, <1>4, <1>5, <1>6, <1>7, <1>8, <1>10, RunStep
<1> QED BY <1>9, <1>10

LEMMA QueueDoneInv == ASSUME SharedInv, NEW w \in Workers, QueueDone(w) PROVE SharedInv'
<1> DEFINE p == proc[w]
           q == [p EXCEPT !.pc = "loop", !.reading = "mutate", !.last = now, !.E = 0, !.dirE = 0]
<1>1. /\ p \in Process /\ Places(p) /\ Memory(p) /\ Reading(files, p) /\ p.pc = "queue"
      /\ p.queue = {} /\ now \in Nat
  BY OneProcess DEF QueueDone, At
<1>2. CASE Local(w, NoProcess)
  BY <1>2, FreshFacts, LocalStep
<1>3. CASE Local(w, q)
  <2>1. PICK z \in 0..now : z = 0
    BY <1>1
  <2>2. q = [p EXCEPT !.pc = "loop", !.reading = "mutate", !.last = now, !.E = z, !.dirE = z]
    BY <2>1
  <2> HIDE DEF q
  <2>3. now \in 0..now
    BY <1>1
  <2>4. /\ q \in Process /\ SameMemory(p, q) /\ q.listed = p.listed /\ q.reading = "mutate"
        /\ q.Epoch = p.Epoch /\ q.queue = p.queue /\ q.cur = p.cur /\ q.pc = "loop"
    BY <1>1, <2>2, <2>3 DEF Process, SameMemory
  <2>5. Memory(q) /\ \A x : Covers(p, x) <=> Covers(q, x)
    BY <1>1, <2>4, SameMemoryFacts
  <2>6. Places(q)
    BY <1>1, <2>4 DEF Places
  <2>7. Reading(files, q)
    BY <1>1, <2>4, <2>5 DEF Reading
  <2> QED BY <1>3, <2>4, <2>5, <2>6, <2>7, LocalStep
<1> QED BY <1>2, <1>3 DEF QueueDone

LEMMA MutateInv == ASSUME SharedInv, NEW w \in Workers, Mutate(w) PROVE SharedInv'
<1> DEFINE p == proc[w]
           q == [p EXCEPT !.finds = p.finds + 1]
<1>1. /\ p \in Process /\ Places(p) /\ Memory(p) /\ Reading(files, p) /\ p.pc = "loop"
      /\ p.finds < MaxFinds /\ MaxFinds \in Nat
  BY OneProcess, Assumptions DEF Mutate, At
<1>2. PICK u \in Units : Local(w, Run(q, u))
  BY <1>1 DEF Mutate, Process
<1>3. p.finds + 1 \in 0..MaxFinds
  BY <1>1 DEF Process
<1>4. /\ q \in Process /\ SameMemory(p, q) /\ q.listed = p.listed /\ q.reading = p.reading
      /\ q.E = p.E /\ q.Epoch = p.Epoch /\ q.queue = p.queue /\ q.cur = p.cur
  BY <1>1, <1>3 DEF Process, SameMemory
<1> HIDE DEF q
<1>5. Memory(q) /\ \A x : Covers(p, x) <=> Covers(q, x)
  BY <1>1, <1>4, SameMemoryFacts
<1>6. q.listed = {} /\ q.cur = NoUnit /\ q.queue = {} /\ q.reading = "mutate" /\ NoUnit \notin Units
  BY <1>1, <1>4, Assumptions DEF Places
<1>7. \A x \in Units : OldFile(files, x, q.Epoch) => Covers(q, x)
  BY <1>1, <1>4, <1>5, <1>6 DEF Reading
<1> QED BY <1>2, <1>4, <1>5, <1>6, <1>7, RunStep

\* What a step writes is as young as the clock: a file of the directory G is one of F,
\* or was written now.
Later(F, G) ==
  \A x \in DOMAIN G :
    \/ x \in DOMAIN F /\ G[x] = F[x]
    \/ G[x] \in [data : Units \cup {Empty}, time : {now}, open : SUBSET Workers]

LEMMA LaterReading ==
  ASSUME now \in Nat, NEW F, NEW G, Later(F, G), NEW p \in Process, Reading(F, p)
  PROVE  Reading(G, p)
<1>1. p.Epoch \in 0..now /\ p.E \in 0..now
  BY DEF Process
<1>2. ASSUME NEW t \in 0..now, NEW x, OldFile(G, x, t) PROVE OldFile(F, x, t)
  <2>1. x \in DOMAIN G /\ G[x].open = {} /\ G[x].data = x /\ G[x].time < t
    BY <1>2 DEF OldFile
  <2>2. ~ (G[x] \in [data : Units \cup {Empty}, time : {now}, open : SUBSET Workers])
    BY <2>1
  <2> QED BY <2>1, <2>2 DEF Later, OldFile
<1> QED BY <1>1, <1>2 DEF Reading

\* One process becomes q, and files are written or removed.
LEMMA FilesStep ==
  ASSUME SharedInv, NEW w \in Workers, NEW q \in Process, Places(q), Memory(q), Reading(files, q),
         proc' = [proc EXCEPT ![w] = q], UNCHANGED <<Shrink, Counter, now>>,
         dirTime' \in {dirTime, now}, found' \subseteq Units, torn' \subseteq Units,
         DOMAIN files' \subseteq Units, Later(files, files'), Disk'
  PROVE  SharedInv'
<1>1. /\ SharedTypeOK /\ DOMAIN proc = Workers /\ now \in Nat /\ now \in 1..now /\ dirTime' \in 1..now
  BY DEF SharedInv, SharedTypeOK
<1>2. /\ DOMAIN proc' = Workers
      /\ \A v \in Workers : proc'[v] = q \/ proc'[v] = proc[v]
  BY <1>1
<1>3. Process' = Process
  BY DEF Process
<1>4. \A x \in DOMAIN files' :
        files'[x] \in [data : Units \cup {Empty}, time : 1..now, open : SUBSET Workers]
  <2> SUFFICES ASSUME NEW x \in DOMAIN files'
      PROVE  files'[x] \in [data : Units \cup {Empty}, time : 1..now, open : SUBSET Workers]
    OBVIOUS
  <2>1. CASE x \in DOMAIN files /\ files'[x] = files[x]
    BY <1>1, <2>1 DEF SharedTypeOK, Names
  <2>2. CASE files'[x] \in [data : Units \cup {Empty}, time : {now}, open : SUBSET Workers]
    BY <1>1, <2>2
  <2> QED BY <2>1, <2>2 DEF Later
<1>5. \A v \in Workers : proc'[v] \in Process
  BY <1>1, <1>2 DEF SharedTypeOK
<1>6. SharedTypeOK'
  BY <1>1, <1>2, <1>3, <1>4, <1>5 DEF SharedTypeOK, Names
<1>7. \A v \in Workers : Places(proc'[v]) /\ Memory(proc'[v]) /\ Reading(files, proc'[v])
  BY <1>2 DEF SharedInv
<1>8. \A v \in Workers : Reading(files', proc'[v])
  BY <1>1, <1>5, <1>7, LaterReading
<1> QED BY <1>6, <1>7, <1>8, Assemble

\* A process removes no file of a protected unit.
LEMMA RemoveFileInv == ASSUME SharedInv, NEW w \in Workers, RemoveFile(w) PROVE SharedInv'
<1> DEFINE p == proc[w]
<1>1. /\ p \in Process /\ Places(p) /\ Memory(p) /\ Reading(files, p) /\ p.pc = "evict"
      /\ Names \subseteq Units /\ Names = DOMAIN files /\ DOMAIN proc = Workers /\ Disk
  BY OneProcess DEF RemoveFile, At, SharedInv, SharedTypeOK
<1>2. PICK v \in p.evicted :
        /\ files' = [x \in Names \ {v} |-> files[x]]
        /\ dirTime' = IF v \in Names THEN now ELSE dirTime
        /\ proc' = [proc EXCEPT ![w] = AfterRun([p EXCEPT !.evicted = p.evicted \ {v}])]
  BY <1>1 DEF RemoveFile, Process
<1>3. UNCHANGED <<Shrink, Counter, now, found, torn>>
  BY DEF RemoveFile
<1>4. PICK r : r = [p EXCEPT !.evicted = p.evicted \ {v}]
  OBVIOUS
<1>5. /\ r \in Process /\ r.owner = p.owner /\ r.Hashes = p.Hashes /\ r.evicted \subseteq p.evicted
      /\ r.listed = p.listed /\ r.cur = p.cur /\ r.queue = p.queue /\ r.reading = p.reading
      /\ r.Epoch = p.Epoch /\ r.E = p.E
  BY <1>1, <1>4 DEF Process
<1>6. PICK q : q = AfterRun(r)
  OBVIOUS
<1>7. AfterRunOf(r, q)
  BY <1>5, <1>6, AfterRunFacts
<1>8. (\A x : Covers(p, x) <=> Covers(q, x)) /\ Memory(q)
  <2>1. q.owner = p.owner /\ q.Hashes = p.Hashes /\ q.evicted \subseteq p.evicted
    BY <1>5, <1>7 DEF AfterRunOf, SameMemory
  <2>2. \A x : Covers(p, x) <=> Covers(q, x)
    BY <2>1 DEF Covers
  <2> QED BY <1>1, <2>1, <2>2 DEF Memory
<1>9. Places(q) /\ q \in Process /\ q.pc # "close"
  BY <1>1, <1>5, <1>7 DEF AfterRunOf, Places
<1>10. Reading(files, q)
  BY <1>1, <1>5, <1>7, <1>8 DEF AfterRunOf, Reading
<1>11. proc' = [proc EXCEPT ![w] = q]
  BY <1>2, <1>4, <1>6
<1>12. ~ Protected(v)
  BY <1>1 DEF Memory, Protected
<1>13. /\ DOMAIN files' = DOMAIN files \ {v} /\ \A x \in DOMAIN files' : files'[x] = files[x]
  BY <1>1, <1>2
<1>14. \A u \in Workers : proc'[u].pc = "close" => proc'[u] = proc[u]
  BY <1>1, <1>9, <1>11
<1>15. Disk'
  BY <1>1, <1>3, <1>12, <1>13, <1>14, SharedFrame DEF Disk, Names, Protected
<1>16. Later(files, files') /\ DOMAIN files' \subseteq Units /\ dirTime' \in {dirTime, now}
  BY <1>1, <1>2, <1>13 DEF Later
<1>17. found' \subseteq Units /\ torn' \subseteq Units
  BY <1>3 DEF SharedInv, SharedTypeOK
<1> QED BY <1>3, <1>8, <1>9, <1>10, <1>11, <1>15, <1>16, <1>17, FilesStep

LEMMA OpenFileInv == ASSUME SharedInv, NEW w \in Workers, OpenFile(w) PROVE SharedInv'
<1> DEFINE p == proc[w]
           u == p.U
           others == IF u \in Names THEN files[u].open ELSE {}
           q == [p EXCEPT !.pc = "close"]
           new == [data |-> Empty, time |-> now, open |-> others \cup {w}]
<1>1. /\ p \in Process /\ Places(p) /\ Memory(p) /\ Reading(files, p) /\ p.pc = "open"
      /\ Names \subseteq Units /\ Names = DOMAIN files /\ DOMAIN proc = Workers /\ Disk
  BY OneProcess DEF OpenFile, At, SharedInv, SharedTypeOK
<1>2. u \in Units
  BY <1>1 DEF Places, Process
<1>3. others \subseteq Workers
  BY DEF SharedInv, SharedTypeOK
<1>4. /\ files' = [x \in Names \cup {u} |-> IF x = u THEN new ELSE files[x]]
      /\ proc' = [proc EXCEPT ![w] = q] /\ dirTime' \in {dirTime, now}
      /\ UNCHANGED <<Shrink, Counter, now, found, torn>>
  BY <1>1 DEF OpenFile
<1>5. new \in [data : Units \cup {Empty}, time : {now}, open : SUBSET Workers] /\ new.open = others \cup {w}
  BY <1>3
<1>6. /\ q \in Process /\ SameMemory(p, q) /\ q.listed = p.listed /\ q.reading = p.reading /\ q.U = u
      /\ q.E = p.E /\ q.Epoch = p.Epoch /\ q.queue = p.queue /\ q.cur = p.cur /\ q.pc = "close"
  BY <1>1 DEF Process, SameMemory
<1>7. \A v \in Workers : files[u].open = others \/ u \notin Names
  OBVIOUS
<1> HIDE DEF q, new, others, u
<1>8. Memory(q) /\ \A x : Covers(p, x) <=> Covers(q, x)
  BY <1>1, <1>6, SameMemoryFacts
<1>9. Places(q) /\ Reading(files, q)
  BY <1>1, <1>6, <1>8 DEF Places, Reading, u
<1>10. /\ DOMAIN files' = DOMAIN files \cup {u} /\ files'[u].open = others \cup {w}
       /\ \A x \in DOMAIN files \ {u} : files'[x] = files[x]
  BY <1>1, <1>4, <1>5
<1>11. Later(files, files') /\ DOMAIN files' \subseteq Units
  BY <1>1, <1>2, <1>4, <1>5 DEF Later
<1>12. \A v \in Workers : proc'[v] = proc[v] \/ (v = w /\ proc'[v].U = u)
  BY <1>1, <1>4, <1>6
<1>13. Disk'
  <2>1. \A x \in Names' : files'[x].open = {} /\ x \notin torn' => files'[x].data = x
    BY <1>1, <1>4, <1>10 DEF Disk, Names
  <2>2. \A x \in found' : Protected(x)' => x \in Names'
    BY <1>1, <1>4, <1>10, SharedFrame DEF Disk, Names
  <2>3. ASSUME NEW v \in Workers, proc'[v].pc = "close", Protected(proc'[v].U)
        PROVE  proc'[v].U \in Names' /\ v \in files'[proc'[v].U].open
    <3>1. CASE v = w /\ proc'[v].U = u
      BY <1>10, <3>1 DEF Names
    <3>2. CASE proc'[v] = proc[v]
      <4>1. proc[v].U \in Names /\ v \in files[proc[v].U].open
        BY <1>1, <2>3, <3>2 DEF Disk
      <4> QED BY <1>1, <1>7, <1>10, <3>2, <4>1 DEF Names
    <3> QED BY <1>12, <3>1, <3>2
  <2>4. \A v \in Workers : Protected(proc[v].U)' <=> Protected(proc'[v].U)
    BY <1>4 DEF Protected, UniqueSmallest
  <2> QED BY <2>1, <2>2, <2>3, <2>4 DEF Disk
<1>14. found' \subseteq Units /\ torn' \subseteq Units
  BY <1>4 DEF SharedInv, SharedTypeOK
<1> QED BY <1>4, <1>6, <1>8, <1>9, <1>11, <1>13, <1>14, FilesStep

\* The file u is written by w, for the last time, and gets the data d.
WrittenBy(w, u, d) ==
  files' = [files EXCEPT ![u] = [data |-> d, time |-> now, open |-> files[u].open \ {w}]]

\* The process w leaves the file it writes, whole or torn.
LEMMA LeaveFile ==
  ASSUME SharedInv, NEW w \in Workers, NEW u \in Names, NEW d \in Units \cup {Empty}, WrittenBy(w, u, d),
         NEW q \in Process, q.pc # "close", proc' = [proc EXCEPT ![w] = q],
         UNCHANGED <<Shrink, now>>, torn \subseteq torn', d = u \/ u \in torn',
         \A x \in found' : x \in found \/ x = u
  PROVE  Disk' /\ Later(files, files') /\ DOMAIN files' \subseteq Units
<1>1. Names \subseteq Units /\ Names = DOMAIN files /\ DOMAIN proc = Workers /\ Disk
  BY DEF SharedInv, SharedTypeOK, Names
<1>2. files[u].open \subseteq Workers
  BY DEF SharedInv, SharedTypeOK
<1>3. /\ DOMAIN files' = Names /\ \A x \in Names \ {u} : files'[x] = files[x]
      /\ files'[u] = [data |-> d, time |-> now, open |-> files[u].open \ {w}]
  BY <1>1 DEF WrittenBy
<1>4. files'[u].data = d /\ files'[u].open = files[u].open \ {w}
  BY <1>3
<1>5. Later(files, files') /\ DOMAIN files' \subseteq Units
  <2>1. files'[u] \in [data : Units \cup {Empty}, time : {now}, open : SUBSET Workers]
    BY <1>2, <1>3
  <2> QED BY <1>1, <1>3, <2>1 DEF Later
<1>6. \A x \in Names' : files'[x].open = {} /\ x \notin torn' => files'[x].data = x
  BY <1>1, <1>3, <1>4 DEF Disk, Names
<1>7. \A x \in found' : Protected(x)' => x \in Names'
  BY <1>1, <1>3, SharedFrame DEF Disk, Names
<1>8. ASSUME NEW v \in Workers, proc'[v].pc = "close", Protected(proc'[v].U)
      PROVE  proc'[v].U \in Names' /\ v \in files'[proc'[v].U].open
  <2>1. v # w /\ proc'[v] = proc[v]
    BY <1>1, <1>8
  <2>2. proc[v].U \in Names /\ v \in files[proc[v].U].open
    BY <1>1, <1>8, <2>1 DEF Disk
  <2> QED BY <1>1, <1>3, <1>4, <2>1, <2>2 DEF Names
<1>9. \A v \in Workers : Protected(proc[v].U)' <=> Protected(proc'[v].U)
  BY DEF Protected, UniqueSmallest
<1>10. Disk'
  BY <1>6, <1>7, <1>8, <1>9 DEF Disk
<1> QED BY <1>5, <1>10

LEMMA CloseFileInv == ASSUME SharedInv, NEW w \in Workers, CloseFile(w) PROVE SharedInv'
<1> DEFINE p == proc[w]
           u == p.U
           q == [p EXCEPT !.pc = "loop", !.U = NoUnit]
<1>1. /\ p \in Process /\ Places(p) /\ Memory(p) /\ Reading(files, p) /\ p.pc = "close"
      /\ Names \subseteq Units /\ Names = DOMAIN files /\ DOMAIN proc = Workers /\ Disk
  BY OneProcess DEF CloseFile, At, SharedInv, SharedTypeOK
<1>2. u \in Units
  BY <1>1 DEF Places, Process
<1>3. /\ proc' = [proc EXCEPT ![w] = q] /\ found' = found \cup {u}
      /\ UNCHANGED <<Shrink, Counter, dirTime, now, torn>>
  BY <1>1 DEF CloseFile
<1>4. /\ q \in Process /\ SameMemory(p, q) /\ q.listed = p.listed /\ q.reading = p.reading
      /\ q.E = p.E /\ q.Epoch = p.Epoch /\ q.queue = p.queue /\ q.cur = p.cur /\ q.pc = "loop"
  BY <1>1 DEF Process, SameMemory
<1> HIDE DEF q
<1>5. Memory(q) /\ \A x : Covers(p, x) <=> Covers(q, x)
  BY <1>1, <1>4, SameMemoryFacts
<1>6. Places(q) /\ Reading(files, q)
  BY <1>1, <1>4, <1>5 DEF Places, Reading
<1>7. found' \subseteq Units /\ torn' \subseteq Units
  BY <1>2, <1>3 DEF SharedInv, SharedTypeOK
<1>8. CASE u \in Names /\ w \in files[u].open
  <2>1. WrittenBy(w, u, u)
    BY <1>1, <1>8 DEF CloseFile, WrittenBy
  <2>2. Disk' /\ Later(files, files') /\ DOMAIN files' \subseteq Units
    BY <1>2, <1>3, <1>4, <1>8, <2>1, LeaveFile
  <2> QED BY <1>3, <1>4, <1>5, <1>6, <1>7, <2>2, FilesStep
<1>9. CASE ~ (u \in Names /\ w \in files[u].open)
  <2>1. files' = files
    BY <1>9 DEF CloseFile
  <2>2. ~ Protected(u)
    BY <1>1, <1>9 DEF Disk
  <2>3. \A v \in Workers : proc'[v].pc = "close" => proc'[v] = proc[v]
    BY <1>1, <1>3, <1>4
  <2>4. Disk'
    BY <1>1, <1>3, <2>1, <2>2, <2>3 DEF Disk, Names, Protected
  <2>5. Later(files, files') /\ DOMAIN files' \subseteq Units
    BY <1>1, <2>1 DEF Later
  <2> QED BY <1>3, <1>4, <1>5, <1>6, <1>7, <2>4, <2>5, FilesStep
<1> QED BY <1>8, <1>9

LEMMA JobFailsInv == ASSUME SharedInv, NEW w \in Workers, JobFails(w) PROVE SharedInv'
<1> DEFINE u == proc[w].U
           q == NoProcess
<1>1. /\ q \in Process /\ Places(q) /\ Memory(q) /\ Reading(files, q) /\ q.pc # "close"
  BY FreshFacts
<1>2. proc' = [proc EXCEPT ![w] = q] /\ UNCHANGED <<Shrink, Counter, dirTime, now, found>>
  BY DEF JobFails
<1> HIDE DEF q
<1>3. CASE UNCHANGED <<files, torn>>
  <2>1. Counter' \in 0..NumJobs
    BY <1>2 DEF SharedInv, SharedTypeOK
  <2> QED BY <1>1, <1>2, <1>3, <2>1, ProcessStep
<1>4. CASE u \in Names /\ LeftBehind(w, u) /\ torn' = torn \cup {u}
  <2>1. Names \subseteq Units /\ found \subseteq Units /\ torn \subseteq Units
    BY DEF SharedInv, SharedTypeOK
  <2>2. PICK d \in Partials[u] \cup {Empty, u} : WrittenBy(w, u, d)
    BY <1>4 DEF LeftBehind, WrittenBy
  <2>3. d \in Units \cup {Empty}
    BY <1>4, <2>1, Assumptions
  <2>4. Disk' /\ Later(files, files') /\ DOMAIN files' \subseteq Units
    BY <1>1, <1>2, <1>4, <2>2, <2>3, LeaveFile
  <2> QED BY <1>1, <1>2, <1>4, <2>1, <2>4, FilesStep
<1> QED BY <1>3, <1>4 DEF JobFails

LEMMA TickInv == ASSUME SharedInv, Tick PROVE SharedInv'
<1>1. /\ now \in 1..MaxTime /\ MaxTime \in Nat /\ now' = now + 1 /\ now < MaxTime
      /\ UNCHANGED <<Shrink, proc, Counter, files, dirTime, found, torn>>
  BY Assumptions DEF SharedInv, SharedTypeOK, Tick
<1>2. 0..now \subseteq 0..(now + 1) /\ 1..now \subseteq 1..(now + 1)
  BY <1>1
<1>3. \A p \in Process : p \in Process'
  BY <1>1, <1>2 DEF Process
<1>4. SharedTypeOK'
  <2>1. \A x \in Names' : files'[x] \in [data : Units \cup {Empty}, time : 1..now', open : SUBSET Workers]
    BY <1>1, <1>2 DEF SharedInv, SharedTypeOK, Names
  <2>2. now' \in 1..MaxTime /\ dirTime' \in 1..now'
    BY <1>1 DEF SharedInv, SharedTypeOK
  <2>3. \A w \in Workers : proc'[w] \in Process'
    BY <1>1, <1>3 DEF SharedInv, SharedTypeOK
  <2> QED BY <1>1, <2>1, <2>2, <2>3 DEF SharedInv, SharedTypeOK, Names
<1>5. Disk'
  BY <1>1 DEF SharedInv, Disk, Names, Protected
<1>6. \A v \in Workers : Places(proc'[v]) /\ Memory(proc'[v]) /\ Reading(files', proc'[v])
  BY <1>1 DEF SharedInv
<1> QED BY <1>1, <1>4, <1>5, <1>6, Assemble

-----------------------------------------------------------------------------
(* The theorems *)

LEMMA SharedInitInv == SharedInit => SharedInv
<1> SUFFICES ASSUME SharedInit PROVE SharedInv
  OBVIOUS
<1>1. /\ now = 1 /\ dirTime = 1 /\ Shrink \in BOOLEAN /\ MaxTime \in Nat \ {0} /\ 1 \in 1..MaxTime
      /\ NumJobs \in Nat /\ MaxFinds \in Nat
  BY SharedAssumption DEF SharedInit
<1>2. PICK S \in SUBSET Units : files = [u \in S |-> [data |-> u, time |-> 1, open |-> {}]]
  BY SharedAssumption DEF SharedInit
<1>3. /\ Names = S
      /\ \A x \in S : files[x] \in [data : Units \cup {Empty}, time : 1..now, open : SUBSET Workers]
      /\ \A x \in S : files[x].data = x
  BY <1>1, <1>2 DEF Names
<1>4. NoProcess \in Process /\ NoProcess.pc = "none" /\ NoProcess.reading = "initial"
      /\ NoProcess.listed = {} /\ NoProcess.cur = NoUnit /\ NoProcess.Hashes = {}
      /\ NoProcess.evicted = {} /\ NoProcess.owner = [f \in Features |-> NoUnit]
  <2>1. NewProcess \in Process
    BY <1>1 DEF NewProcess, Process
  <2>2. /\ NewProcess.pc = "list" /\ NewProcess.reading = "initial" /\ NewProcess.listed = {}
        /\ NewProcess.cur = NoUnit /\ NewProcess.Hashes = {} /\ NewProcess.evicted = {}
        /\ NewProcess.owner = [f \in Features |-> NoUnit]
    BY DEF NewProcess
  <2>3. PICK p \in Process : p = NewProcess
    BY <2>1
  <2>4. PICK z \in 0..now : z = 0
    BY <1>1
  <2>5. NoProcess = [p EXCEPT !.pc = "none", !.Epoch = z]
    BY <2>3, <2>4 DEF NoProcess
  <2>6. /\ NoProcess \in Process /\ NoProcess.pc = "none" /\ NoProcess.reading = p.reading
        /\ NoProcess.listed = p.listed /\ NoProcess.cur = p.cur /\ NoProcess.Hashes = p.Hashes
        /\ NoProcess.evicted = p.evicted /\ NoProcess.owner = p.owner
    BY <2>5 DEF Process
  <2> QED BY <2>2, <2>3, <2>6
<1>5. proc = [w \in Workers |-> NoProcess] /\ Counter = 0 /\ found = {} /\ torn = {}
  BY DEF SharedInit
<1>6. SharedTypeOK
  BY <1>1, <1>3, <1>4, <1>5 DEF SharedTypeOK
<1>7. Disk
  BY <1>3, <1>4, <1>5 DEF Disk
<1>8. Places(NoProcess) /\ Memory(NoProcess) /\ Reading(files, NoProcess)
  BY <1>4 DEF Places, Memory, Reading
<1> QED BY <1>5, <1>6, <1>7, <1>8 DEF SharedInv

LEMMA SharedInvStep == SharedInv /\ [SharedNext]_sharedVars => SharedInv'
<1> SUFFICES ASSUME SharedInv, [SharedNext]_sharedVars PROVE SharedInv'
  OBVIOUS
<1>1. ASSUME NEW w \in Workers,
             \/ StartJob(w) \/ JobDone(w) \/ JobFails(w)
             \/ RereadOutputCorpus(w) \/ ListFiles(w) \/ StatFile(w) \/ FileToVector(w)
             \/ RunQueued(w) \/ QueueDone(w) \/ Mutate(w) \/ RemoveFile(w)
             \/ OpenFile(w) \/ CloseFile(w)
      PROVE  SharedInv'
  BY <1>1, StartJobInv, JobDoneInv, JobFailsInv, RereadInv, ListFilesInv, StatFileInv,
     FileToVectorInv, RunQueuedInv, QueueDoneInv, MutateInv, RemoveFileInv, OpenFileInv, CloseFileInv
<1>2. CASE Tick
  BY <1>2, TickInv
<1>3. CASE UNCHANGED sharedVars
  <2>1. UNCHANGED <<Shrink, proc, Counter, files, dirTime, now, found, torn>>
    BY <1>3 DEF sharedVars
  <2>2. Process' = Process
    BY <2>1 DEF Process
  <2>3. SharedTypeOK' /\ Disk'
    BY <2>1, <2>2 DEF SharedInv, SharedTypeOK, Disk, Names, Protected
  <2>4. \A v \in Workers : Places(proc'[v]) /\ Memory(proc'[v]) /\ Reading(files', proc'[v])
    BY <2>1 DEF SharedInv
  <2> QED BY <2>1, <2>3, <2>4, Assemble
<1> QED BY <1>1, <1>2, <1>3 DEF SharedNext

\* The processes and the directory keep the invariant in every interleaving of their
\* system calls, whichever processes die.
THEOREM SharedInvariant == SharedSpec => []SharedInv
BY SharedInitInv, SharedInvStep, PTL DEF SharedSpec

\* The jobs, the files, their times and the memory of the processes have their types;
\* WorkerThread starts no more jobs than there are.
THEOREM SharedTypeCorrect == SharedSpec => []SharedTypeOK
<1>1. SharedInv => SharedTypeOK
  BY DEF SharedInv
<1> QED BY <1>1, SharedInvariant, PTL

\* RereadOutputCorpus misses no whole file that is older than the process's last
\* reading of the directory, whatever is written or removed while it reads, for any
\* number of processes.
THEOREM NothingOldIsMissed == SharedSpec => []ReloadMissesNothingOld
<1>1. SharedInv => ReloadMissesNothingOld
  <2> SUFFICES ASSUME SharedInv, NEW w \in Workers, Fuzzing(w), NEW x \in Names, IsWhole(x),
                      files[x].time < proc[w].Epoch
      PROVE  Covers(proc[w], x)
    BY DEF ReloadMissesNothingOld, Covers
  <2> DEFINE p == proc[w]
  <2>1. Places(p) /\ Reading(files, p) /\ Names \subseteq Units /\ NoUnit \notin Units
    BY OneProcess, Assumptions
  <2>2. p.pc \in {"loop", "open", "close", "evict"} /\ p.reading = "mutate"
    BY <2>1 DEF Fuzzing, Places
  <2>3. p.listed = {} /\ p.cur = NoUnit /\ p.queue = {}
    BY <2>1, <2>2 DEF Places
  <2>4. OldFile(files, x, p.Epoch) /\ x \in Units
    BY <2>1 DEF OldFile, IsWhole, Names
  <2> QED BY <2>1, <2>2, <2>3, <2>4 DEF Reading
<1> QED BY <1>1, SharedInvariant, PTL

\* DeleteInput in one of several processes never removes the file of the one smallest
\* unit for a feature, nor any file without -shrink=1, and such a file is whole unless
\* it is being written or its writer died.
THEOREM SmallestAlwaysKept == SharedSpec => []SmallestKept
<1>1. SharedInv => SmallestKept
  BY DEF SharedInv, Disk, Protected, SmallestKept, IsWhole
<1> QED BY <1>1, SharedInvariant, PTL

=============================================================================
