---------------------------- MODULE FussRunsProofs ----------------------------
(***************************************************************************)
(* Runs of the speed experiment do not disturb each other, for any number  *)
(* of runs.                                                                *)
(***************************************************************************)
EXTENDS FussRuns, FiniteSetTheorems, SequenceTheorems, TLAPS

\* The order in which a run makes its files, and where it is.
Rank ==
  [sources |-> 1, libFuzzer |-> 2, fussLibFuzzer |-> 3, base |-> 4, copy |-> 5, warmup |-> 6, perf |-> 7,
   perfLock |-> 7, prof |-> 8, corpus |-> 9, fussed |-> 10, tested |-> 11, done |-> 12]

OwnSet == KindSet \ SharedSet

\* The run has a number, and has not failed.
Live(r) == pc[r] \in KindSet \cup {"perfLock", "done"}

\* No more numbers are given out than there are runs.
Numbered == {r \in Runs : id[r] # 0}

Counted ==
  /\ idFile <= Cardinality(Numbered)
  /\ \A r \in Runs : /\ previous[r] <= Cardinality(Numbered)
                     /\ pc[r] \in {"ready", "lock", "read", "empty", "write"} => id[r] = 0

\* The file run_id belongs to the run that holds its lock.
InGetRunId(r) == pc[r] \in {"read", "empty", "write"}

Locked ==
  /\ \A r \in Runs : InGetRunId(r) => r \in lock
  /\ \A r, q \in lock : r = q

\* Until the first run is done, no other one is there.
Alone ==
  /\ \A r, q \in first : r = q
  /\ ~ parallel => \A r \in Runs \ first : pc[r] \in {"ready", "failed"}
  /\ parallel => \E r \in first : pc[r] = "done"
  /\ \A r \in Runs : busy[r] => pc[r] \in KindSet

\* Numbers above n are new.
NewAbove(n) ==
  /\ \A r \in Runs : Live(r) => id[r] <= n
  /\ \A i \in Ids : \A k \in OwnSet : i > n => files[i][k] = NoFile

Fresh ==
  ~ numberLost =>
    /\ \A r, q \in Runs : Live(r) /\ Live(q) /\ id[r] = id[q] => r = q
    /\ (\A r \in Runs : pc[r] # "write") => NewAbove(idFile)
    /\ \A r \in Runs : /\ pc[r] = "empty" => previous[r] = idFile
                       /\ pc[r] = "write" => NewAbove(previous[r])

SharedState(k) == files[0][k].state

\* The variants in place i are linked.
FussedLinked(i) == files[i]["fussed"].state \in {"whole", "bad"}

\* The shared files, which only the first run makes.
SharedMade ==
  ~ sourcesLost =>
    /\ \/ SharedState("sources") \in {"none", "whole"}
       \/ SharedState("sources") = "partial" /\ \E r \in Runs : busy[r] /\ pc[r] = "sources"
    /\ \A l \in Libraries : SharedState(l) # "spoiled"
    /\ \/ SharedState("base") \in {"none", "partial", "whole"}
       \/ SharedState("base") = "spoiled" /\ SharedState("fussLibFuzzer") = "bad"
    /\ SharedState("base") = "whole" =>
         /\ SharedState("sources") = "whole" /\ SharedState("fussLibFuzzer") = "whole"
         /\ SharedState("libFuzzer") \in {"whole", "bad"}
    /\ \A i \in Ids : FussedLinked(i) => SharedState("libFuzzer") = "whole"
    /\ parallel => SharedState("base") = "whole" /\ SharedState("libFuzzer") = "whole"
    /\ \A r \in Runs : Live(r) =>
         /\ Rank[pc[r]] > 1 => SharedState("sources") = "whole"
         /\ Rank[pc[r]] > 2 => SharedState("libFuzzer") \in {"whole", "bad"}
         /\ Rank[pc[r]] > 3 => SharedState("fussLibFuzzer") \in {"whole", "bad"}
         /\ Rank[pc[r]] > 4 => SharedState("base") = "whole"
         /\ Rank[pc[r]] > 10 => SharedState("libFuzzer") = "whole"
         /\ busy[r] /\ pc[r] \in {"sources"} \cup Libraries => SharedState(pc[r]) = "partial"
         /\ busy[r] /\ pc[r] = "base" =>
              \/ SharedState("base") = "partial" /\ SharedState("fussLibFuzzer") = "whole"
              \/ SharedState("base") = "spoiled" /\ SharedState("fussLibFuzzer") = "bad"

\* The files with the number of a run: it made all of those that it is done with,
\* is making one, and the others do not exist.  Variants that it makes with an
\* unusable libFuzzer will not link.
Making(k) == IF k = "fussed" /\ SharedState("libFuzzer") = "bad" THEN "spoiled" ELSE "partial"

OwnFile(r, k) ==
  IF Rank[k] < Rank[pc[r]] THEN [state |-> "whole", by |-> {r}]
  ELSE IF busy[r] /\ k = pc[r] THEN [state |-> Making(k), by |-> {r}]
  ELSE NoFile

OwnMade ==
  ~ sourcesLost /\ ~ numberLost =>
    \A r \in Runs : Live(r) => \A k \in OwnSet : files[id[r]][k] = OwnFile(r, k)

FRInv ==
  /\ FRTypeOK
  /\ Counted
  /\ Locked
  /\ Alone
  /\ Fresh
  /\ SharedMade
  /\ OwnMade

-----------------------------------------------------------------------------
\* The lists of files, written out.
LEMMA KindFacts ==
  /\ DOMAIN Kinds = 1..11
  /\ Kinds[1] = "sources" /\ Kinds[2] = "libFuzzer" /\ Kinds[3] = "fussLibFuzzer" /\ Kinds[4] = "base"
  /\ Kinds[5] = "copy" /\ Kinds[6] = "warmup" /\ Kinds[7] = "perf" /\ Kinds[8] = "prof"
  /\ Kinds[9] = "corpus" /\ Kinds[10] = "fussed" /\ Kinds[11] = "tested"
  /\ SharedSet = {"sources", "libFuzzer", "fussLibFuzzer", "base"}
  /\ KindSet = {"sources", "libFuzzer", "fussLibFuzzer", "base", "copy", "warmup", "perf", "prof", "corpus",
                "fussed", "tested"}
  /\ OwnSet = {"copy", "warmup", "perf", "prof", "corpus", "fussed", "tested"}
<1> DEFINE Names == {"sources", "libFuzzer", "fussLibFuzzer", "base", "copy", "warmup", "perf", "prof",
                     "corpus", "fussed", "tested"}
<1>1. /\ Shared \in Seq(Names) /\ Len(Shared) = 4
      /\ Shared[1] = "sources" /\ Shared[2] = "libFuzzer" /\ Shared[3] = "fussLibFuzzer"
      /\ Shared[4] = "base"
  BY DEF Shared
<1>2. /\ Own \in Seq(Names) /\ Len(Own) = 7
      /\ Own[1] = "copy" /\ Own[2] = "warmup" /\ Own[3] = "perf" /\ Own[4] = "prof"
      /\ Own[5] = "corpus" /\ Own[6] = "fussed" /\ Own[7] = "tested"
  BY DEF Own
<1> HIDE DEF Names
<1>0. /\ Kinds \in Seq(Names) /\ Len(Kinds) = 11
      /\ \A i \in 1..11 : Kinds[i] = IF i <= 4 THEN Shared[i] ELSE Own[i - 4]
  <2>1. /\ Kinds \in Seq(Names) /\ Len(Kinds) = Len(Shared) + Len(Own)
        /\ \A i \in 1..Len(Shared) + Len(Own) :
             Kinds[i] = IF i <= Len(Shared) THEN Shared[i] ELSE Own[i - Len(Shared)]
    BY <1>1, <1>2, ConcatProperties, Zenon DEF Kinds
  <2> QED BY <1>1, <1>2, <2>1
<1>3. DOMAIN Kinds = 1..11
  BY <1>0
<1>4. /\ Kinds[1] = Shared[1] /\ Kinds[2] = Shared[2] /\ Kinds[3] = Shared[3] /\ Kinds[4] = Shared[4]
      /\ Kinds[5] = Own[1] /\ Kinds[6] = Own[2] /\ Kinds[7] = Own[3] /\ Kinds[8] = Own[4]
      /\ Kinds[9] = Own[5] /\ Kinds[10] = Own[6] /\ Kinds[11] = Own[7]
  BY <1>0
<1>5. SharedSet = {"sources", "libFuzzer", "fussLibFuzzer", "base"}
  <2>1. DOMAIN Shared = {1, 2, 3, 4}
    BY <1>1
  <2> QED BY <1>1, <2>1 DEF SharedSet
<1>6. KindSet = {"sources", "libFuzzer", "fussLibFuzzer", "base", "copy", "warmup", "perf", "prof",
                 "corpus", "fussed", "tested"}
  <2>1. DOMAIN Kinds = {1, 2, 3, 4, 5, 6, 7, 8, 9, 10, 11}
    BY <1>3
  <2> QED BY <1>1, <1>2, <1>4, <2>1 DEF KindSet
<1>7. OwnSet = {"copy", "warmup", "perf", "prof", "corpus", "fussed", "tested"}
  BY <1>5, <1>6 DEF OwnSet
<1> QED BY <1>1, <1>2, <1>3, <1>4, <1>5, <1>6, <1>7

\* One file follows the other.
LEMMA FollowingFacts ==
  ASSUME NEW r, NEW k \in KindSet, k = "base" => ~ Exists(r, "prof")
  PROVE  /\ Following(r, k) \in KindSet \cup {"done"}
         /\ Rank[Following(r, k)] = Rank[k] + 1
<1>1. ASSUME NEW n \in 1..11 PROVE Position(Kinds[n]) = n
  <2>1. \A m \in DOMAIN Kinds : Kinds[m] = Kinds[n] => m = n
    BY KindFacts
  <2>2. n \in DOMAIN Kinds
    BY KindFacts
  <2> QED BY <2>1, <2>2 DEF Position
<1>2. /\ Position("sources") = 1 /\ Position("libFuzzer") = 2 /\ Position("fussLibFuzzer") = 3
      /\ Position("copy") = 5 /\ Position("warmup") = 6 /\ Position("perf") = 7 /\ Position("prof") = 8
      /\ Position("corpus") = 9 /\ Position("fussed") = 10
  BY <1>1, KindFacts
<1> QED BY <1>2, KindFacts DEF Following, Rank

\* A file is made from earlier ones.
LEMMA NeedsEarlier ==
  ASSUME NEW k \in KindSet, NEW n \in Needs[k]
  PROVE  n \in KindSet /\ Rank[n] < Rank[k]
BY KindFacts DEF Needs, Rank

LEMMA RankType ==
  /\ \A k \in KindSet : Rank[k] \in 1..11
  /\ \A k \in OwnSet : Rank[k] > 4
  /\ Rank["perfLock"] = Rank["perf"] /\ Rank["done"] = 12
  /\ \A k, j \in KindSet : Rank[k] = Rank[j] => k = j
BY KindFacts DEF Rank

LEMMA NumberedFacts ==
  ASSUME FRTypeOK
  PROVE  /\ IsFiniteSet(Numbered)
         /\ Cardinality(Numbered) \in Nat /\ Cardinality(Runs) \in Nat
         /\ Cardinality(Numbered) <= Cardinality(Runs)
BY RunsAssumption, FS_Subset, FS_CardinalityType DEF Numbered

LEMMA FRInitInv == FRInit => FRInv
<1> SUFFICES ASSUME FRInit PROVE FRInv
  OBVIOUS
<1>1. Cardinality(Runs) \in Nat
  BY RunsAssumption, FS_CardinalityType
<1>2. Cardinality(first) <= 1
  BY FS_EmptySet DEF FRInit
<1>3. NoFile \in [state : FileStates, by : SUBSET Runs]
  BY DEF NoFile, FileStates
<1>4. FRTypeOK
  <2>1. files \in [{0} \cup Ids -> [KindSet -> [state : FileStates, by : SUBSET Runs]]]
    BY <1>3 DEF FRInit
  <2>2. \A r \in Runs : pc[r] \notin KindSet \cup {"perfLock", "done"}
    BY KindFacts DEF FRInit
  <2>3. {parallel, numberLost, sourcesLost} \subseteq BOOLEAN
    BY DEF FRInit
  <2>4. busy \in [Runs -> BOOLEAN]
    BY DEF FRInit
  <2>5. /\ pc \in [Runs -> KindSet \cup {"ready", "lock", "read", "empty", "write", "perfLock", "done", "failed"}]
        /\ id \in [Runs -> 0..Cardinality(Runs)] /\ previous \in [Runs -> 0..Cardinality(Runs)]
        /\ idFile \in 0..Cardinality(Runs)
        /\ first \subseteq Runs /\ lock \subseteq Runs /\ perfLock \subseteq Runs
    BY <1>1 DEF FRInit
  <2> QED BY <1>2, <2>1, <2>2, <2>3, <2>4, <2>5 DEF FRTypeOK
<1>5. Counted
  BY <1>4, NumberedFacts DEF FRInit, Counted
<1>6. Locked /\ Alone
  BY DEF FRInit, Locked, Alone, InGetRunId
<1>7. \A r \in Runs : ~ Live(r)
  BY KindFacts DEF FRInit, Live
<1>8. \A i \in {0} \cup Ids : \A k \in KindSet : files[i][k] = NoFile
  BY DEF FRInit
<1>9. Fresh
  BY <1>7, <1>8 DEF FRInit, Fresh, NewAbove, OwnSet
<1>10. SharedMade /\ OwnMade
  BY <1>7, <1>8, KindFacts DEF FRInit, SharedMade, OwnMade, SharedState, NoFile, FussedLinked, Libraries
<1> QED BY <1>4, <1>5, <1>6, <1>9, <1>10 DEF FRInv

\* Before the others may start there is one run.
LEMMA OneRun ==
  ASSUME FRInv, ~ parallel, NEW r \in Runs, NEW q \in Runs, pc[r] \notin {"ready", "failed"},
         pc[q] \notin {"ready", "failed"}
  PROVE  r = q
BY DEF FRInv, Alone

\* Whoever is in get_run_id is alone there.
LEMMA OneInGetRunId ==
  ASSUME FRInv, NEW r \in Runs, NEW q \in Runs, InGetRunId(r), InGetRunId(q)
  PROVE  r = q
BY DEF FRInv, Locked

\* A run that makes no file now and none later leaves the files as they are.
LEMMA NoFilesFrame ==
  ASSUME FRInv, NEW r \in Runs, NEW x \in {"lock", "read", "empty", "write", "failed"},
         pc' = [pc EXCEPT ![r] = x], busy' = [busy EXCEPT ![r] = FALSE],
         id' = id, files' = files, parallel' = parallel,
         numberLost => numberLost', sourcesLost => sourcesLost',
         busy[r] /\ pc[r] = "sources" => sourcesLost'
  PROVE  SharedMade' /\ OwnMade'
<1>1. /\ pc \in [Runs -> KindSet \cup {"ready", "lock", "read", "empty", "write", "perfLock", "done", "failed"}]
      /\ busy \in [Runs -> BOOLEAN]
  BY DEF FRInv, FRTypeOK
<1>2. ~ Live(r)' /\ \A q \in Runs : Live(q)' => q # r
  BY <1>1, KindFacts DEF Live
<1>3. \A q \in Runs \ {r} : pc'[q] = pc[q] /\ busy'[q] = busy[q] /\ (Live(q)' <=> Live(q))
  BY <1>1 DEF Live
<1>4. SharedMade'
  <2>1. CASE sourcesLost'
    BY <2>1 DEF SharedMade
  <2>2. CASE ~ sourcesLost'
    <3>1. SharedMade /\ ~ sourcesLost
      BY <2>2 DEF FRInv
    <3>2. \A k : SharedState(k)' = SharedState(k)
      BY DEF SharedState
    <3>3. SharedState("sources") = "partial" => \E q \in Runs : busy'[q] /\ pc'[q] = "sources"
      BY <2>2, <3>1, <1>3 DEF SharedMade
    <3> QED BY <3>1, <3>2, <3>3, <1>2, <1>3 DEF SharedMade, FussedLinked, Ids
  <2> QED BY <2>1, <2>2
<1>5. OwnMade'
  BY <1>2, <1>3 DEF FRInv, OwnMade, OwnFile, Making, SharedState
<1> QED BY <1>4, <1>5

\* The numbers that were given out stay apart.
LEMMA NumbersFrame ==
  ASSUME FRInv, NEW r \in Runs, NEW x, pc' = [pc EXCEPT ![r] = x],
         Live(r)' => Live(r), id' = id, files' = files, ~ numberLost
  PROVE  /\ \A p, q \in Runs : Live(p)' /\ Live(q)' /\ id'[p] = id'[q] => p = q
         /\ \A n \in Nat : NewAbove(n) => NewAbove(n)'
<1>1. \A q \in Runs : Live(q)' => Live(q)
  BY DEF FRInv, FRTypeOK, Live
<1> QED BY <1>1 DEF FRInv, Fresh, NewAbove

\* A run is moved; no number is given out.
LEMMA MoveType ==
  ASSUME FRTypeOK, NEW r \in Runs,
         NEW x \in KindSet \cup {"lock", "read", "empty", "write", "perfLock", "done", "failed"},
         x \in KindSet \cup {"perfLock", "done"} => id[r] \in Ids,
         pc' = [pc EXCEPT ![r] = x], id' = id
  PROVE  /\ pc' \in [Runs -> KindSet \cup {"ready", "lock", "read", "empty", "write", "perfLock", "done", "failed"}]
         /\ id' \in [Runs -> 0..Cardinality(Runs)]
         /\ \A q \in Runs : pc'[q] \in KindSet \cup {"perfLock", "done"} => id'[q] \in Ids
BY DEF FRTypeOK

LEMMA MoveCounted ==
  ASSUME FRTypeOK, Counted, NEW r \in Runs, NEW x, pc' = [pc EXCEPT ![r] = x],
         x \in {"ready", "lock", "read", "empty", "write"} =>
           pc[r] \in {"ready", "lock", "read", "empty", "write"},
         id' = id, idFile' = idFile, previous' = previous
  PROVE  Counted'
<1>1. Numbered' = Numbered
  BY DEF Numbered
<1> QED BY <1>1 DEF FRTypeOK, Counted

\* A run that does not touch run_id, its lock, or the files.
LEMMA MoveNumbers ==
  ASSUME FRInv, NEW r \in Runs, NEW x \in KindSet \cup {"lock", "read", "perfLock", "done", "failed"},
         pc' = [pc EXCEPT ![r] = x], pc[r] # "write",
         x \in KindSet \cup {"perfLock", "done"} => Live(r),
         id' = id, files' = files, idFile' = idFile, previous' = previous, numberLost' = numberLost
  PROVE  Fresh'
<1>1. CASE numberLost
  BY <1>1 DEF Fresh
<1>2. CASE ~ numberLost
  <2>1. pc \in [Runs -> KindSet \cup {"ready", "lock", "read", "empty", "write", "perfLock", "done", "failed"}]
    BY DEF FRInv, FRTypeOK
  <2>2. \A q \in Runs : (pc'[q] = "write" <=> pc[q] = "write") /\ (pc'[q] = "empty" => pc[q] = "empty")
    BY <2>1, KindFacts
  <2>3. idFile \in Nat /\ \A q \in Runs : previous[q] \in Nat
    BY NumberedFacts DEF FRInv, FRTypeOK
  <2>0. Live(r)' => Live(r)
    BY <2>1 DEF Live
  <2>4. /\ \A p, q \in Runs : Live(p)' /\ Live(q)' /\ id'[p] = id'[q] => p = q
        /\ \A n \in Nat : NewAbove(n) => NewAbove(n)'
    BY <1>2, <2>0, NumbersFrame
  <2>5. (\A q \in Runs : pc'[q] # "write") => NewAbove(idFile)'
    BY <1>2, <2>2, <2>3, <2>4 DEF FRInv, Fresh, NewAbove
  <2>6. \A q \in Runs : pc'[q] = "write" => NewAbove(previous[q])'
    BY <1>2, <2>2, <2>3, <2>4 DEF FRInv, Fresh, NewAbove
  <2> QED BY <1>2, <2>2, <2>4, <2>5, <2>6 DEF FRInv, Fresh
<1> QED BY <1>1, <1>2

\* A run that was started before.
LEMMA MoveAlone ==
  ASSUME FRInv, NEW r \in Runs, NEW x, pc' = [pc EXCEPT ![r] = x], pc[r] # "done",
         NEW b \in BOOLEAN, busy' = [busy EXCEPT ![r] = b], b => x \in KindSet,
         parallel \/ pc[r] \notin {"ready", "failed"}, first' = first, parallel' = parallel
  PROVE  Alone'
<1>1. /\ pc'[r] = x /\ busy'[r] = b
      /\ \A q \in Runs \ {r} : pc'[q] = pc[q] /\ busy'[q] = busy[q]
  BY DEF FRInv, FRTypeOK
<1>2. \A p, q \in first : p = q
  BY DEF FRInv, Alone
<1>3. ~ parallel => \A q \in Runs \ first : pc'[q] \in {"ready", "failed"}
  BY <1>1 DEF FRInv, Alone
<1>4. parallel => \E q \in first : pc'[q] = "done"
  BY <1>1 DEF FRInv, FRTypeOK, Alone
<1>5. \A q \in Runs : busy'[q] => pc'[q] \in KindSet
  BY <1>1 DEF FRInv, Alone
<1> QED BY <1>2, <1>3, <1>4, <1>5 DEF Alone

LEMMA NotBusy ==
  ASSUME FRInv, NEW r \in Runs, ~ busy[r]
  PROVE  busy = [busy EXCEPT ![r] = FALSE]
<1>1. busy \in [Runs -> BOOLEAN]
  BY DEF FRInv, FRTypeOK
<1>2. busy[r] = FALSE
  BY <1>1
<1> QED BY <1>1, <1>2

-----------------------------------------------------------------------------
\* One lemma for each action.

LEMMA StartFirstInv == ASSUME FRInv, NEW r \in Runs, StartFirst(r) PROVE FRInv'
<1> USE DEF StartFirst
<1>1. ~ busy[r]
  BY KindFacts DEF FRInv, Alone
<1>2. FRTypeOK'
  <2>1. first' \subseteq Runs /\ Cardinality(first') <= 1
    <3>1. Cardinality({r}) = 1
      BY FS_Singleton, Zenon
    <3> QED BY <3>1
  <2> QED BY <2>1, MoveType, KindFacts DEF FRInv, FRTypeOK
<1>3. Counted'
  BY MoveCounted DEF FRInv
<1>4. Locked'
  BY DEF FRInv, FRTypeOK, Locked, InGetRunId
<1>5. Alone'
  <2>1. /\ pc'[r] = "lock" /\ \A q \in Runs \ {r} : pc'[q] = pc[q]
    BY DEF FRInv, FRTypeOK
  <2>2. \A q \in Runs \ {r} : pc[q] \in {"ready", "failed"}
    BY DEF FRInv, Alone
  <2>3. \A q \in Runs : busy[q] => pc'[q] \in KindSet
    BY <1>1, <2>1 DEF FRInv, Alone
  <2> QED BY <2>1, <2>2, <2>3 DEF Alone
<1>7. Fresh'
  BY KindFacts, MoveNumbers
<1>8. SharedMade' /\ OwnMade'
  BY <1>1, NotBusy, NoFilesFrame
<1> QED BY <1>2, <1>3, <1>4, <1>5, <1>7, <1>8 DEF FRInv

LEMMA StartParallelInv == ASSUME FRInv, NEW r \in Runs, StartParallel(r) PROVE FRInv'
<1> USE DEF StartParallel
<1>1. ~ busy[r]
  BY KindFacts DEF FRInv, Alone
<1>2. FRTypeOK'
  BY MoveType, KindFacts DEF FRInv, FRTypeOK
<1>3. Counted'
  BY MoveCounted DEF FRInv
<1>4. Locked'
  BY DEF FRInv, FRTypeOK, Locked, InGetRunId
<1>5. Alone'
  <2>1. busy' = [busy EXCEPT ![r] = FALSE]
    BY <1>1, NotBusy
  <2> QED BY <2>1, MoveAlone
<1>7. Fresh'
  BY KindFacts, MoveNumbers
<1>8. SharedMade' /\ OwnMade'
  BY <1>1, NotBusy, NoFilesFrame
<1> QED BY <1>2, <1>3, <1>4, <1>5, <1>7, <1>8 DEF FRInv

LEMMA TakeLockInv == ASSUME FRInv, NEW r \in Runs, TakeLock(r) PROVE FRInv'
<1> USE DEF TakeLock
<1>1. ~ busy[r]
  BY KindFacts DEF FRInv, Alone
<1>2. FRTypeOK'
  BY MoveType, KindFacts DEF FRInv, FRTypeOK
<1>3. Counted'
  BY MoveCounted DEF FRInv
<1>4. Locked'
  BY DEF FRInv, FRTypeOK, Locked, InGetRunId
<1>5. Alone'
  <2>1. busy' = [busy EXCEPT ![r] = FALSE]
    BY <1>1, NotBusy
  <2> QED BY <2>1, MoveAlone
<1>6. Fresh'
  BY KindFacts, MoveNumbers
<1>7. SharedMade' /\ OwnMade'
  BY <1>1, NotBusy, NoFilesFrame
<1> QED BY <1>2, <1>3, <1>4, <1>5, <1>6, <1>7 DEF FRInv

LEMMA LockTimeoutInv == ASSUME FRInv, NEW r \in Runs, LockTimeout(r) PROVE FRInv'
<1> USE DEF LockTimeout
<1>1. ~ busy[r]
  BY KindFacts DEF FRInv, Alone
<1>2. FRTypeOK'
  BY MoveType, KindFacts DEF FRInv, FRTypeOK
<1>3. Counted'
  BY MoveCounted DEF FRInv
<1>4. Locked'
  BY DEF FRInv, FRTypeOK, Locked, InGetRunId
<1>5. Alone'
  <2>1. busy' = [busy EXCEPT ![r] = FALSE]
    BY <1>1, NotBusy
  <2> QED BY <2>1, MoveAlone
<1>6. Fresh'
  BY KindFacts, MoveNumbers
<1>7. SharedMade' /\ OwnMade'
  BY <1>1, NotBusy, NoFilesFrame
<1> QED BY <1>2, <1>3, <1>4, <1>5, <1>6, <1>7 DEF FRInv

\* The number that is read is still the last one when run_id is emptied: nobody
\* else is in get_run_id.
LEMMA ReadIdInv == ASSUME FRInv, NEW r \in Runs, ReadId(r) PROVE FRInv'
<1> USE DEF ReadId
<1>1. ~ busy[r]
  BY KindFacts DEF FRInv, Alone
<1>2. FRTypeOK'
  BY MoveType, KindFacts DEF FRInv, FRTypeOK
<1>3. Counted'
  <2>1. Numbered' = Numbered
    BY DEF Numbered
  <2> QED BY <2>1 DEF FRInv, FRTypeOK, Counted
<1>4. Locked'
  BY DEF FRInv, FRTypeOK, Locked, InGetRunId
<1>5. Alone'
  <2>1. busy' = [busy EXCEPT ![r] = FALSE]
    BY <1>1, NotBusy
  <2> QED BY <2>1, MoveAlone
<1>6. Fresh'
  <2>1. CASE numberLost
    BY <2>1 DEF Fresh
  <2>2. CASE ~ numberLost
    <3>1. \A q \in Runs \ {r} : ~ InGetRunId(q)
      BY OneInGetRunId DEF InGetRunId
    <3>2. /\ pc'[r] = "empty" /\ previous'[r] = idFile
          /\ \A q \in Runs \ {r} : pc'[q] = pc[q]
      BY DEF FRInv, FRTypeOK
    <3>3. NewAbove(idFile)
      BY <2>2, <3>1 DEF FRInv, Fresh, InGetRunId
    <3>4. \A q \in Runs : Live(q)' => Live(q)
      BY <3>2, KindFacts DEF Live
    <3>5. NewAbove(idFile)'
      BY <3>3, <3>4 DEF NewAbove
    <3>6. \A p, q \in Runs : Live(p)' /\ Live(q)' /\ id'[p] = id'[q] => p = q
      BY <2>2, <3>4 DEF FRInv, Fresh
    <3> QED BY <3>1, <3>2, <3>5, <3>6 DEF Fresh, InGetRunId
  <2> QED BY <2>1, <2>2
<1>7. SharedMade' /\ OwnMade'
  BY <1>1, NotBusy, NoFilesFrame
<1> QED BY <1>2, <1>3, <1>4, <1>5, <1>6, <1>7 DEF FRInv

LEMMA EmptyIdInv == ASSUME FRInv, NEW r \in Runs, EmptyId(r) PROVE FRInv'
<1> USE DEF EmptyId
<1>1. ~ busy[r]
  BY KindFacts DEF FRInv, Alone
<1>2. FRTypeOK'
  <2>1. idFile' \in 0..Cardinality(Runs)
    BY NumberedFacts DEF FRInv
  <2> QED BY <2>1, MoveType, KindFacts DEF FRInv, FRTypeOK
<1>3. Counted'
  <2>1. Numbered' = Numbered
    BY DEF Numbered
  <2> QED BY <2>1, NumberedFacts DEF FRInv, FRTypeOK, Counted
<1>4. Locked'
  BY DEF FRInv, FRTypeOK, Locked, InGetRunId
<1>5. Alone'
  <2>1. busy' = [busy EXCEPT ![r] = FALSE]
    BY <1>1, NotBusy
  <2> QED BY <2>1, MoveAlone
<1>6. Fresh'
  <2>1. CASE numberLost
    BY <2>1 DEF Fresh
  <2>2. CASE ~ numberLost
    <3>1. \A q \in Runs \ {r} : ~ InGetRunId(q)
      BY OneInGetRunId DEF InGetRunId
    <3>2. pc'[r] = "write" /\ \A q \in Runs \ {r} : pc'[q] = pc[q]
      BY DEF FRInv, FRTypeOK
    <3>3. NewAbove(idFile) /\ previous[r] = idFile
      BY <2>2, <3>1 DEF FRInv, Fresh, InGetRunId
    <3>4. \A q \in Runs : Live(q)' => Live(q)
      BY <3>2, KindFacts DEF Live
    <3>5. NewAbove(previous[r])'
      BY <3>3, <3>4 DEF NewAbove
    <3>6. \A p, q \in Runs : Live(p)' /\ Live(q)' /\ id'[p] = id'[q] => p = q
      BY <2>2, <3>4 DEF FRInv, Fresh
    <3> QED BY <3>1, <3>2, <3>5, <3>6 DEF Fresh, InGetRunId
  <2> QED BY <2>1, <2>2
<1>7. SharedMade' /\ OwnMade'
  BY <1>1, NotBusy, NoFilesFrame
<1> QED BY <1>2, <1>3, <1>4, <1>5, <1>6, <1>7 DEF FRInv

\* The run gets a number that nobody had.
LEMMA WriteIdInv == ASSUME FRInv, NEW r \in Runs, WriteId(r) PROVE FRInv'
<1> USE DEF WriteId
<1>1. ~ busy[r]
  BY KindFacts DEF FRInv, Alone
<1>2. FRTypeOK /\ pc' = [pc EXCEPT ![r] = "sources"]
  BY KindFacts DEF FRInv
<1>3. /\ pc'[r] = "sources" /\ id'[r] = previous[r] + 1
      /\ \A q \in Runs \ {r} : pc'[q] = pc[q] /\ id'[q] = id[q]
  BY <1>2 DEF FRTypeOK
<1>4. previous[r] \in Nat /\ previous[r] <= Cardinality(Numbered)
  BY <1>2, NumberedFacts DEF FRInv, Counted, FRTypeOK
<1>5. Cardinality(Numbered') = Cardinality(Numbered) + 1
  <2>1. Numbered' = Numbered \cup {r} /\ r \notin Numbered
    BY <1>3, <1>4 DEF FRInv, Counted, Numbered
  <2> QED BY <1>2, <2>1, NumberedFacts, FS_AddElement
<1>6. previous[r] + 1 \in 1..Cardinality(Runs)
  <2>1. Cardinality(Numbered') <= Cardinality(Runs)
    BY RunsAssumption, FS_Subset DEF Numbered
  <2> QED BY <1>2, <1>4, <1>5, <2>1, NumberedFacts
<1>7. FRTypeOK'
  <2>1. /\ id' \in [Runs -> 0..Cardinality(Runs)] /\ idFile' \in 0..Cardinality(Runs)
        /\ pc' \in [Runs -> KindSet \cup {"ready", "lock", "read", "empty", "write", "perfLock", "done", "failed"}]
    BY <1>2, <1>6, KindFacts DEF FRTypeOK
  <2>2. \A q \in Runs : pc'[q] \in KindSet \cup {"perfLock", "done"} => id'[q] \in Ids
    BY <1>2, <1>3, <1>6 DEF FRTypeOK, Ids
  <2>3. lock' \subseteq Runs
    BY <1>2 DEF FRTypeOK
  <2> QED BY <1>2, <2>1, <2>2, <2>3 DEF FRTypeOK
<1>8. Counted'
  <2>1. \A q \in Runs : previous[q] <= Cardinality(Numbered) /\ previous[q] \in Nat
    BY <1>2, NumberedFacts DEF FRInv, Counted, FRTypeOK
  <2>2. idFile' <= Cardinality(Numbered')
    BY <1>2, <1>4, <1>5, NumberedFacts
  <2> QED BY <1>2, <1>3, <1>5, <2>1, <2>2, NumberedFacts DEF FRInv, Counted
<1>9. \A q \in Runs \ {r} : ~ InGetRunId(q)
  BY OneInGetRunId DEF InGetRunId
<1>10. Locked'
  BY <1>3, <1>9 DEF FRInv, Locked, InGetRunId
<1>11. Alone'
  <2>1. busy' = [busy EXCEPT ![r] = FALSE]
    BY <1>1, NotBusy
  <2> QED BY <1>2, <2>1, MoveAlone
<1>12. \A q \in Runs \ {r} : Live(q)' <=> Live(q)
  BY <1>3 DEF Live
<1>13. ~ numberLost => NewAbove(previous[r])
  BY DEF FRInv, Fresh
<1>14. Fresh'
  <2>1. CASE numberLost
    BY <2>1 DEF Fresh
  <2>2. CASE ~ numberLost
    <3>1. \A q \in Runs : Live(q) => id[q] <= previous[r] /\ id[q] \in Nat
      BY <1>2, <1>13, <2>2, NumberedFacts DEF NewAbove, FRTypeOK
    <3>2. \A p, q \in Runs : Live(p)' /\ Live(q)' /\ id'[p] = id'[q] => p = q
      BY <1>3, <1>4, <1>12, <2>2, <3>1 DEF FRInv, Fresh
    <3>3. NewAbove(previous[r] + 1)'
      <4>1. \A q \in Runs : Live(q)' => id'[q] <= previous[r] + 1
        BY <1>3, <1>4, <1>12, <3>1
      <4>2. \A i \in Ids : \A k \in OwnSet : i > previous[r] + 1 => files[i][k] = NoFile
        <5>1. \A i \in Ids : i > previous[r] + 1 => i > previous[r]
          BY <1>2, <1>4, NumberedFacts DEF Ids
        <5> QED BY <5>1, <1>13, <2>2 DEF NewAbove
      <4> QED BY <4>1, <4>2 DEF NewAbove
    <3> QED BY <1>3, <1>9, <3>2, <3>3 DEF Fresh, InGetRunId, NewAbove
  <2> QED BY <2>1, <2>2
<1>15. SharedMade'
  <2> SUFFICES ASSUME ~ sourcesLost PROVE SharedMade'
    BY DEF SharedMade
  <2>1. Rank[pc'[r]] = 1
    BY <1>3 DEF Rank
  <2>2. \A k : SharedState(k)' = SharedState(k)
    BY DEF SharedState
  <2>3. (\E q \in Runs : busy[q] /\ pc[q] = "sources") => \E q \in Runs : busy'[q] /\ pc'[q] = "sources"
    BY <1>1, <1>3
  <2> QED BY <1>1, <1>3, <1>12, <2>1, <2>2, <2>3 DEF FRInv, SharedMade, FussedLinked, Ids
<1>16. OwnMade'
  <2> SUFFICES ASSUME ~ sourcesLost, ~ numberLost PROVE OwnMade'
    BY DEF OwnMade
  <2>1. \A k \in OwnSet : files[previous[r] + 1][k] = NoFile
    BY <1>4, <1>6, <1>13 DEF NewAbove, Ids
  <2>2. \A k \in OwnSet : Rank[k] > 4 /\ Rank[k] \in Nat
    BY RankType DEF OwnSet
  <2>3. Rank["sources"] = 1
    BY DEF Rank
  <2>4. \A k \in OwnSet : files'[id'[r]][k] = OwnFile(r, k)'
    BY <1>1, <1>3, <2>1, <2>2, <2>3 DEF OwnFile
  <2>5. \A q \in Runs \ {r} : Live(q) => \A k \in OwnSet : files'[id'[q]][k] = OwnFile(q, k)'
    BY <1>3 DEF FRInv, OwnMade, OwnFile, Making, SharedState
  <2> QED BY <1>12, <2>4, <2>5 DEF OwnMade
<1> QED BY <1>7, <1>8, <1>10, <1>11, <1>14, <1>15, <1>16 DEF FRInv

LEMMA GoOnInv == ASSUME FRInv, GoOn PROVE FRInv'
<1> USE DEF GoOn
<1>1. \E r \in first : pc[r] = "done" /\ r \in Runs
  BY DEF MayGoOn, FRInv, FRTypeOK
<1>2. FRTypeOK' /\ Counted' /\ Locked'
  BY DEF FRInv, FRTypeOK, Counted, Numbered, Locked, InGetRunId
<1>3. Alone'
  BY <1>1 DEF FRInv, Alone
<1>4. Fresh'
  BY DEF FRInv, Fresh, NewAbove, Live
<1>5. ~ sourcesLost => SharedState("base") = "whole" /\ SharedState("libFuzzer") = "whole"
  BY <1>1 DEF FRInv, SharedMade, Live, Rank
<1>6. SharedMade' /\ OwnMade'
  BY <1>5 DEF FRInv, SharedMade, OwnMade, OwnFile, Live, SharedState, FussedLinked, Making
<1> QED BY <1>2, <1>3, <1>4, <1>6 DEF FRInv

\* Nobody works in the directory while it is cleaned.
LEMMA CleanInv == ASSUME FRInv, Clean PROVE FRInv'
<1> USE DEF Clean
<1>1. \A r \in Runs : pc[r] \in {"ready", "failed"}
  BY DEF FRInv, Alone
<1>2. \A r \in Runs : ~ Live(r) /\ ~ Live(r)' /\ ~ busy[r]
  BY <1>1, KindFacts DEF Live, FRInv, Alone
<1>3. /\ DOMAIN files = {0} \cup Ids
      /\ \A i \in {0} \cup Ids : \A k \in KindSet :
           files'[i][k] = IF k = "sources" THEN files[i][k] ELSE NoFile
  BY DEF FRInv, FRTypeOK
<1>4. FRTypeOK'
  <2>1. NoFile \in [state : FileStates, by : SUBSET Runs]
    BY DEF NoFile, FileStates
  <2>2. files' \in [{0} \cup Ids -> [KindSet -> [state : FileStates, by : SUBSET Runs]]]
    BY <1>3, <2>1 DEF FRInv, FRTypeOK
  <2>3. idFile' \in 0..Cardinality(Runs)
    BY NumberedFacts DEF FRInv
  <2> QED BY <2>2, <2>3 DEF FRInv, FRTypeOK
<1>5. Counted' /\ Locked' /\ Alone'
  <2>1. Counted'
    <3>1. Numbered' = Numbered
      BY DEF Numbered
    <3> QED BY <3>1, NumberedFacts DEF FRInv, Counted
  <2>2. Locked' /\ Alone'
    BY DEF FRInv, Locked, InGetRunId, Alone
  <2> QED BY <2>1, <2>2
<1>6. Fresh'
  BY <1>1, <1>2, <1>3, KindFacts DEF Fresh, NewAbove
<1>7. SharedMade'
  BY <1>2, <1>3, KindFacts DEF FRInv, Alone, SharedMade, SharedState, NoFile, FussedLinked, Libraries
<1>8. OwnMade'
  BY <1>2 DEF OwnMade
<1> QED BY <1>4, <1>5, <1>6, <1>7, <1>8 DEF FRInv

LEMMA FailInv == ASSUME FRInv, NEW r \in Runs, Fail(r) PROVE FRInv'
<1> USE DEF Fail
<1>1. FRTypeOK'
  <2>1. busy' \in [Runs -> BOOLEAN]
    BY DEF FRInv, FRTypeOK
  <2>2. {parallel', numberLost', sourcesLost'} \subseteq BOOLEAN
    BY DEF FRInv, FRTypeOK
  <2>3. lock' \subseteq Runs /\ perfLock' \subseteq Runs
    BY DEF FRInv, FRTypeOK
  <2> QED BY <2>1, <2>2, <2>3, MoveType, KindFacts DEF FRInv, FRTypeOK
<1>2. Counted'
  BY MoveCounted DEF FRInv
<1>3. pc'[r] = "failed" /\ \A q \in Runs \ {r} : pc'[q] = pc[q]
  BY DEF FRInv, FRTypeOK
<1>4. Locked'
  BY <1>3 DEF FRInv, Locked, InGetRunId
<1>5. Alone'
  BY MoveAlone DEF Running
<1>6. Fresh'
  <2> SUFFICES ASSUME ~ numberLost' PROVE Fresh'
    BY DEF Fresh
  <2>1. ~ numberLost /\ pc[r] # "write"
    OBVIOUS
  <2>2. ~ Live(r)'
    BY <1>3, KindFacts DEF Live
  <2>3. /\ \A p, q \in Runs : Live(p)' /\ Live(q)' /\ id'[p] = id'[q] => p = q
        /\ \A n \in Nat : NewAbove(n) => NewAbove(n)'
    BY <2>1, <2>2, NumbersFrame
  <2>4. idFile \in Nat /\ \A q \in Runs : previous[q] \in Nat
    BY NumberedFacts DEF FRInv, FRTypeOK
  <2>5. (\A q \in Runs : pc'[q] # "write") => NewAbove(idFile)'
    BY <1>3, <2>1, <2>3, <2>4 DEF FRInv, Fresh, NewAbove
  <2>6. \A q \in Runs : pc'[q] = "write" => NewAbove(previous[q])'
    BY <1>3, <2>1, <2>3, <2>4 DEF FRInv, Fresh, NewAbove
  <2> QED BY <1>3, <2>1, <2>3, <2>5, <2>6 DEF FRInv, Fresh
<1>7. SharedMade' /\ OwnMade'
  BY NoFilesFrame
<1> QED BY <1>1, <1>2, <1>4, <1>5, <1>6, <1>7 DEF FRInv

-----------------------------------------------------------------------------
(* The steps of a run that makes its files. *)

\* Once the others may start, they find the shared files complete.
LEMMA SharedComplete ==
  ASSUME FRInv, ~ sourcesLost, SharedState("base") = "whole", NEW k \in SharedSet,
         k = "libFuzzer" => SharedState("libFuzzer") = "whole"
  PROVE  SharedState(k) = "whole"
BY KindFacts DEF FRInv, SharedMade

\* Nobody makes the same file.
LEMMA NoOthers ==
  ASSUME FRInv, NEW r \in Runs, pc[r] \in KindSet,
         IF pc[r] \in SharedSet THEN ~ parallel ELSE ~ numberLost
  PROVE  Others(r) = {}
<1> SUFFICES ASSUME NEW q \in Runs \ {r}, busy[q], pc[q] = pc[r], Place(q, pc[q]) = Place(r, pc[r])
    PROVE  FALSE
  BY DEF Others
<1>1. CASE pc[r] \in SharedSet
  BY <1>1, OneRun, KindFacts
<1>2. CASE pc[r] \notin SharedSet
  BY <1>2 DEF Place, FRInv, Fresh, Live
<1> QED BY <1>1, <1>2

\* A run has all that it needs for the next of its own files.
LEMMA ReadyOwn ==
  ASSUME FRInv, ~ sourcesLost, ~ numberLost, NEW r \in Runs, Live(r), NEW k \in OwnSet,
         Rank[k] = Rank[pc[r]], k = "fussed" => SharedState("libFuzzer") = "whole"
  PROVE  Ready(r, k)
<1> SUFFICES ASSUME NEW n \in Needs[k] PROVE File(r, n).state = "whole"
  BY DEF Ready
<1>1. n \in KindSet /\ Rank[n] < Rank[pc[r]] /\ Rank[pc[r]] > 4
  BY NeedsEarlier, RankType DEF OwnSet
<1>2. CASE n \in SharedSet
  <2>1. SharedState("base") = "whole"
    BY <1>1 DEF FRInv, SharedMade
  <2>2. n = "libFuzzer" => SharedState("libFuzzer") = "whole"
    BY KindFacts DEF Needs
  <2> QED BY <1>2, <2>1, <2>2, SharedComplete DEF File, Place, SharedState
<1>3. CASE n \in OwnSet
  <2>1. files[id[r]][n] = [state |-> "whole", by |-> {r}]
    BY <1>1, <1>3 DEF FRInv, OwnMade, OwnFile
  <2> QED BY <1>3, <2>1 DEF File, Place, OwnSet
<1> QED BY <1>1, <1>2, <1>3 DEF OwnSet

\* A run with a number works on its own files only.
LEMMA LiveFresh ==
  ASSUME FRInv, NEW r \in Runs, Live(r), NEW x \in KindSet \cup {"perfLock", "done", "failed"},
         pc' = [pc EXCEPT ![r] = x], id' = id, idFile' = idFile, previous' = previous,
         numberLost' = numberLost,
         \A i \in Ids : \A k \in OwnSet : i # id[r] => files'[i][k] = files[i][k]
  PROVE  Fresh'
<1> SUFFICES ASSUME ~ numberLost PROVE Fresh'
  BY DEF Fresh
<1>1. \A q \in Runs : Live(q)' => Live(q)
  BY DEF FRInv, FRTypeOK, Live
<1>2. pc[r] \notin {"empty", "write"} /\ x \notin {"empty", "write"}
  BY KindFacts DEF Live
<1>3. /\ \A q \in Runs : (pc'[q] = "write" <=> pc[q] = "write")
      /\ \A q \in Runs : (pc'[q] = "empty" <=> pc[q] = "empty")
  BY <1>2 DEF FRInv, FRTypeOK
<1>4. id[r] \in Nat /\ \A i \in Ids : i \in Nat
  BY NumberedFacts DEF FRInv, FRTypeOK, Ids
<1>5. \A n \in Nat : NewAbove(n) => NewAbove(n)'
  <2> SUFFICES ASSUME NEW n \in Nat, NewAbove(n) PROVE NewAbove(n)'
    OBVIOUS
  <2>1. id[r] <= n
    BY DEF NewAbove
  <2>2. \A i \in Ids : i > n => i # id[r]
    BY <2>1, <1>4
  <2> QED BY <1>1, <2>2 DEF NewAbove
<1>6. idFile \in Nat /\ \A q \in Runs : previous[q] \in Nat
  BY NumberedFacts DEF FRInv, FRTypeOK
<1>7. (\A q \in Runs : pc'[q] # "write") => NewAbove(idFile)'
  BY <1>3, <1>5, <1>6 DEF FRInv, Fresh, NewAbove
<1>8. \A q \in Runs : pc'[q] = "write" => NewAbove(previous[q])'
  BY <1>3, <1>5, <1>6 DEF FRInv, Fresh, NewAbove
<1> QED BY <1>1, <1>3, <1>7, <1>8 DEF FRInv, Fresh

\* The others keep theirs.
LEMMA LiveOthers ==
  ASSUME FRInv, NEW r \in Runs, Live(r), NEW x, NEW b, ~ sourcesLost, ~ numberLost,
         pc' = [pc EXCEPT ![r] = x], busy' = [busy EXCEPT ![r] = b], id' = id,
         parallel => SharedState("libFuzzer")' = SharedState("libFuzzer"),
         \A i \in Ids : \A k \in OwnSet : i # id[r] => files'[i][k] = files[i][k]
  PROVE  \A q \in Runs \ {r} : Live(q)' => \A k \in OwnSet : files'[id'[q]][k] = OwnFile(q, k)'
<1> SUFFICES ASSUME NEW q \in Runs \ {r}, Live(q)', NEW k \in OwnSet
    PROVE  files'[id'[q]][k] = OwnFile(q, k)'
  OBVIOUS
<1>1. pc'[q] = pc[q] /\ busy'[q] = busy[q] /\ Live(q)
  BY DEF FRInv, FRTypeOK, Live
<1>2. id[q] # id[r] /\ id[q] \in Ids
  BY <1>1 DEF FRInv, FRTypeOK, Fresh, Live
<1>3. SharedState("libFuzzer")' = SharedState("libFuzzer")
  BY <1>1, OneRun, KindFacts DEF Live
<1> QED BY <1>1, <1>2, <1>3 DEF FRInv, OwnMade, OwnFile, Making

\* A step that leaves the shared files as they are.
LEMMA LiveShared ==
  ASSUME FRInv, NEW r \in Runs, Live(r), NEW x \in KindSet \cup {"perfLock", "done"},
         NEW b \in BOOLEAN, ~ sourcesLost,
         pc' = [pc EXCEPT ![r] = x], busy' = [busy EXCEPT ![r] = b],
         \A k \in SharedSet : files'[0][k] = files[0][k],
         parallel' = parallel, b => x \in OwnSet, busy[r] => pc[r] # "sources",
         Rank[x] > 1 => SharedState("sources") = "whole",
         Rank[x] > 2 => SharedState("libFuzzer") \in {"whole", "bad"},
         Rank[x] > 3 => SharedState("fussLibFuzzer") \in {"whole", "bad"},
         Rank[x] > 4 => SharedState("base") = "whole",
         Rank[x] > 10 => SharedState("libFuzzer") = "whole",
         \A i \in Ids : FussedLinked(i)' => FussedLinked(i) \/ SharedState("libFuzzer") = "whole"
  PROVE  SharedMade'
<1>1. \A k \in SharedSet : SharedState(k)' = SharedState(k)
  BY DEF SharedState
<1>2. SharedState("sources")' = SharedState("sources")
  BY <1>1, KindFacts
<1>3. SharedState("libFuzzer")' = SharedState("libFuzzer")
  BY <1>1, KindFacts
<1>4. /\ SharedState("base")' = SharedState("base")
      /\ SharedState("fussLibFuzzer")' = SharedState("fussLibFuzzer")
  BY <1>1, KindFacts
<1>5. pc'[r] = x /\ busy'[r] = b /\ \A q \in Runs \ {r} : pc'[q] = pc[q] /\ busy'[q] = busy[q]
  BY DEF FRInv, FRTypeOK
<1>6. \A q \in Runs \ {r} : Live(q)' => Live(q)
  BY <1>5 DEF Live
<1>7. SharedMade
  BY DEF FRInv
<1>8. (\E q \in Runs : busy[q] /\ pc[q] = "sources") => \E q \in Runs : busy'[q] /\ pc'[q] = "sources"
  BY <1>5
<1>9. \A q \in Runs \ {r} : Live(q)' =>
         /\ Rank[pc'[q]] > 1 => SharedState("sources") = "whole"
         /\ Rank[pc'[q]] > 2 => SharedState("libFuzzer") \in {"whole", "bad"}
         /\ Rank[pc'[q]] > 3 => SharedState("fussLibFuzzer") \in {"whole", "bad"}
         /\ Rank[pc'[q]] > 4 => SharedState("base") = "whole"
         /\ Rank[pc'[q]] > 10 => SharedState("libFuzzer") = "whole"
         /\ busy'[q] /\ pc'[q] \in {"sources"} \cup Libraries => SharedState(pc'[q]) = "partial"
         /\ busy'[q] /\ pc'[q] = "base" =>
              \/ SharedState("base") = "partial" /\ SharedState("fussLibFuzzer") = "whole"
              \/ SharedState("base") = "spoiled" /\ SharedState("fussLibFuzzer") = "bad"
  BY <1>5, <1>6, <1>7 DEF SharedMade
<1>10. b => x \notin {"sources", "base"} \cup Libraries
  BY KindFacts DEF Libraries
<1>11. Libraries \subseteq SharedSet /\ "sources" \in SharedSet
  BY KindFacts DEF Libraries
<1>12. \A i \in Ids' : FussedLinked(i)' => SharedState("libFuzzer") = "whole"
  BY <1>7 DEF SharedMade, Ids
<1>13. \A q \in Runs : Live(q)' =>
         /\ Rank[pc'[q]] > 1 => SharedState("sources")' = "whole"
         /\ Rank[pc'[q]] > 2 => SharedState("libFuzzer")' \in {"whole", "bad"}
         /\ Rank[pc'[q]] > 3 => SharedState("fussLibFuzzer")' \in {"whole", "bad"}
         /\ Rank[pc'[q]] > 4 => SharedState("base")' = "whole"
         /\ Rank[pc'[q]] > 10 => SharedState("libFuzzer")' = "whole"
         /\ busy'[q] /\ pc'[q] \in {"sources"} \cup Libraries => files'[0][pc'[q]].state = "partial"
         /\ busy'[q] /\ pc'[q] = "base" =>
              \/ SharedState("base")' = "partial" /\ SharedState("fussLibFuzzer")' = "whole"
              \/ SharedState("base")' = "spoiled" /\ SharedState("fussLibFuzzer")' = "bad"
  <2> SUFFICES ASSUME NEW q \in Runs, Live(q)'
      PROVE
         /\ Rank[pc'[q]] > 1 => SharedState("sources") = "whole"
         /\ Rank[pc'[q]] > 2 => SharedState("libFuzzer") \in {"whole", "bad"}
         /\ Rank[pc'[q]] > 3 => SharedState("fussLibFuzzer") \in {"whole", "bad"}
         /\ Rank[pc'[q]] > 4 => SharedState("base") = "whole"
         /\ Rank[pc'[q]] > 10 => SharedState("libFuzzer") = "whole"
         /\ busy'[q] /\ pc'[q] \in {"sources"} \cup Libraries => SharedState(pc'[q]) = "partial"
         /\ busy'[q] /\ pc'[q] = "base" =>
              \/ SharedState("base") = "partial" /\ SharedState("fussLibFuzzer") = "whole"
              \/ SharedState("base") = "spoiled" /\ SharedState("fussLibFuzzer") = "bad"
    BY <1>1, <1>2, <1>3, <1>4, <1>11 DEF SharedState
  <2>1. CASE q = r
    BY <2>1, <1>5, <1>10
  <2>2. CASE q # r
    BY <2>2, <1>9
  <2> QED BY <2>1, <2>2
<1>14. \A l \in Libraries : SharedState(l)' # "spoiled"
  BY <1>1, <1>7, <1>11 DEF SharedMade
<1> QED BY <1>2, <1>3, <1>4, <1>7, <1>8, <1>12, <1>13, <1>14 DEF SharedMade, SharedState

LEMMA FollowingBase ==
  ASSUME NEW r PROVE Following(r, "base") \in {"copy", "fussed"} /\ Rank[Following(r, "base")] \in {5, 10}
BY KindFacts DEF Following, Rank

\* No file with the number of a run is there before it makes it.
LEMMA OwnNotThere ==
  ASSUME FRInv, ~ sourcesLost, ~ numberLost, NEW r \in Runs, Live(r), ~ busy[r], NEW k \in OwnSet,
         Rank[k] >= Rank[pc[r]]
  PROVE  files[id[r]][k] = NoFile /\ ~ Exists(r, k)
<1>1. Rank[k] \in Nat /\ Rank[pc[r]] \in Nat
  BY KindFacts DEF Live, Rank
<1>2. ~ (Rank[k] < Rank[pc[r]])
  BY <1>1
<1>3. files[id[r]][k] = NoFile
  BY <1>2 DEF FRInv, OwnMade, OwnFile
<1> QED BY <1>3 DEF Exists, File, Place, OwnSet, NoFile

\* What a run finds is complete, and it is one of the shared files.
LEMMA SkipInv == ASSUME FRInv, NEW r \in Runs, Skip(r) PROVE FRInv'
<1> USE DEF Skip
<1> DEFINE k == pc[r]
           x == Following(r, k)
<1>1. k \in KindSet /\ Live(r) /\ id[r] \in Ids
  BY DEF Live, FRInv, FRTypeOK
<1>2. x \in KindSet \cup {"done"} /\ (k # "base" => Rank[x] = Rank[k] + 1)
  <2>1. CASE k # "base"
    BY <1>1, <2>1, FollowingFacts
  <2>2. CASE k = "base"
    BY <2>2, FollowingBase, KindFacts
  <2> QED BY <2>1, <2>2
<1>3. busy' = [busy EXCEPT ![r] = FALSE] /\ pc' = [pc EXCEPT ![r] = x]
  BY NotBusy
<1>4. k \notin {"ready", "lock", "read", "empty", "write", "perfLock", "done", "failed"}
  BY <1>1, KindFacts
<1> HIDE DEF x
<1>5. FRTypeOK'
  <2>1. /\ pc' \in [Runs -> KindSet \cup {"ready", "lock", "read", "empty", "write", "perfLock", "done", "failed"}]
        /\ id' \in [Runs -> 0..Cardinality(Runs)]
        /\ \A q \in Runs : pc'[q] \in KindSet \cup {"perfLock", "done"} => id'[q] \in Ids
    BY <1>1, <1>2, <1>3, MoveType DEF FRInv
  <2>2. busy' \in [Runs -> BOOLEAN]
    BY <1>3 DEF FRInv, FRTypeOK
  <2> QED BY <2>1, <2>2 DEF FRInv, FRTypeOK
<1>6. Counted'
  <2>1. x \notin {"ready", "lock", "read", "empty", "write"}
    BY <1>2, KindFacts
  <2> QED BY <1>3, <2>1, MoveCounted DEF FRInv
<1>7. Locked'
  BY <1>2, <1>3, KindFacts DEF FRInv, FRTypeOK, Locked, InGetRunId
<1>8. Alone'
  BY <1>3, <1>4, MoveAlone
<1>9. Fresh'
  BY <1>1, <1>2, <1>3, LiveFresh
<1>10. SharedMade'
  <2> SUFFICES ASSUME ~ sourcesLost PROVE SharedMade'
    BY DEF SharedMade
  <2>1. /\ k = "sources" => SharedState("sources") = "whole"
        /\ k = "libFuzzer" => SharedState("libFuzzer") \in {"whole", "bad"}
        /\ k = "fussLibFuzzer" => SharedState("fussLibFuzzer") \in {"whole", "bad"}
        /\ k = "base" => SharedState("base") = "whole"
        /\ k = "fussed" => SharedState("libFuzzer") = "whole"
    <3>1. k \in SharedSet => File(r, k).state = SharedState(k)
      BY DEF File, Place, SharedState
    <3>2. ASSUME k = "sources" PROVE SharedState("sources") = "whole"
      <4>1. SharedState("sources") # "none"
        BY <3>1, <3>2, KindFacts DEF Skips, Exists
      <4>2. CASE parallel
        BY <4>2, SharedComplete, KindFacts DEF FRInv, SharedMade
      <4>3. CASE ~ parallel
        <5>1. \A q \in Runs : busy[q] => pc[q] # "sources"
          BY <4>3, <1>4, OneRun
        <5> QED BY <4>1, <5>1 DEF FRInv, SharedMade
      <4> QED BY <4>2, <4>3
    <3>3. ASSUME k \in Libraries PROVE SharedState(k) \in {"whole", "bad"}
      BY <3>1, <3>3, KindFacts DEF Skips, Linked, Libraries
    <3>4. ASSUME k = "base" PROVE SharedState("base") = "whole"
      <4>1. SharedState("base") \in {"whole", "bad"}
        BY <3>1, <3>4, KindFacts DEF Skips, Linked
      <4> QED BY <4>1 DEF FRInv, SharedMade
    <3>5. ASSUME k = "fussed" PROVE SharedState("libFuzzer") = "whole"
      <4>1. FussedLinked(id[r])
        BY <3>5, KindFacts DEF Skips, Linked, File, Place, FussedLinked, Libraries
      <4> QED BY <1>1, <4>1 DEF FRInv, SharedMade
    <3>6. {"libFuzzer", "fussLibFuzzer"} \subseteq Libraries
      BY DEF Libraries
    <3> QED BY <3>2, <3>3, <3>4, <3>5, <3>6
  <2>2. /\ Rank["sources"] = 1 /\ Rank["libFuzzer"] = 2 /\ Rank["fussLibFuzzer"] = 3 /\ Rank["base"] = 4
        /\ Rank["fussed"] = 10
    BY DEF Rank
  <2>3. /\ k \notin {"sources", "libFuzzer", "fussLibFuzzer", "base"} => Rank[k] > 4 /\ Rank[k] \in Nat
        /\ Rank[k] = 10 => k = "fussed"
    BY <1>1, <2>2, RankType, KindFacts
  <2>4. /\ Rank[k] > 1 => SharedState("sources") = "whole"
        /\ Rank[k] > 2 => SharedState("libFuzzer") \in {"whole", "bad"}
        /\ Rank[k] > 3 => SharedState("fussLibFuzzer") \in {"whole", "bad"}
        /\ Rank[k] > 4 => SharedState("base") = "whole"
        /\ Rank[k] > 10 => SharedState("libFuzzer") = "whole"
    BY <1>1 DEF FRInv, SharedMade
  <2>5. /\ Rank[x] > 1 => SharedState("sources") = "whole"
        /\ Rank[x] > 2 => SharedState("libFuzzer") \in {"whole", "bad"}
        /\ Rank[x] > 3 => SharedState("fussLibFuzzer") \in {"whole", "bad"}
        /\ Rank[x] > 4 => SharedState("base") = "whole"
        /\ Rank[x] > 10 => SharedState("libFuzzer") = "whole"
    <3>1. k = "base" => Rank[x] \in {5, 10}
      BY FollowingBase DEF x
    <3> QED BY <1>2, <2>1, <2>2, <2>3, <2>4, <3>1
  <2>6. \A i \in Ids : FussedLinked(i)' => FussedLinked(i)
    BY DEF FussedLinked
  <2> QED BY <2>6, <1>1, <1>2, <1>3, <2>5, LiveShared
<1>11. OwnMade'
  <2> SUFFICES ASSUME ~ sourcesLost, ~ numberLost PROVE OwnMade'
    BY DEF OwnMade
  <2>1. Rank[k] \in Nat /\ \A j \in OwnSet : Rank[j] \in Nat /\ Rank[j] > 4
    BY <1>1, RankType DEF OwnSet
  <2>2. k \notin OwnSet
    <3>1. ASSUME k \in OwnSet PROVE FALSE
      <4>1. ~ Exists(r, k) /\ ~ Linked(r, k)
        BY <1>1, <2>1, <3>1, OwnNotThere DEF Exists, Linked
      <4> QED BY <3>1, <4>1, KindFacts DEF Skips, Libraries
    <3> QED BY <3>1
  <2>3. k = "base" => x = "copy"
    <3>1. k = "base" => ~ Exists(r, "prof")
      BY <1>1, OwnNotThere, KindFacts DEF Rank
    <3> QED BY <3>1, <1>1, FollowingFacts, FollowingBase DEF x, Rank
  <2>4. Rank[x] \in Nat /\ Rank[x] <= 5
    BY <1>1, <1>2, <2>2, <2>3, KindFacts DEF Rank
  <2>5. \A j \in OwnSet : files[id[r]][j] = NoFile
    BY <1>1, <2>1, <2>2, OwnNotThere, KindFacts DEF Rank
  <2>6. pc'[r] = x /\ busy'[r] = FALSE
    BY <1>3 DEF FRInv, FRTypeOK
  <2>7. \A j \in OwnSet : files'[id'[r]][j] = OwnFile(r, j)'
    BY <2>1, <2>4, <2>5, <2>6 DEF OwnFile
  <2>8. \A q \in Runs \ {r} : Live(q)' => \A j \in OwnSet : files'[id'[q]][j] = OwnFile(q, j)'
    BY <1>1, <1>3, LiveOthers DEF SharedState
  <2> QED BY <2>7, <2>8 DEF OwnMade
<1> QED BY <1>5, <1>6, <1>7, <1>8, <1>9, <1>10, <1>11 DEF FRInv

LEMMA WaitForPerfInv == ASSUME FRInv, NEW r \in Runs, WaitForPerf(r) PROVE FRInv'
<1> USE DEF WaitForPerf
<1>1. Live(r) /\ id[r] \in Ids
  BY KindFacts DEF Live, FRInv, FRTypeOK
<1>2. busy' = [busy EXCEPT ![r] = FALSE]
  BY NotBusy
<1>3. Rank["perfLock"] = 7 /\ Rank["perf"] = 7
  BY DEF Rank
<1>4. FRTypeOK'
  BY <1>1, MoveType, KindFacts DEF FRInv, FRTypeOK
<1>5. Counted'
  BY MoveCounted DEF FRInv
<1>6. Locked'
  BY DEF FRInv, FRTypeOK, Locked, InGetRunId
<1>7. Alone'
  BY <1>2, MoveAlone
<1>8. Fresh'
  BY <1>1, LiveFresh
<1>9. SharedMade'
  <2> SUFFICES ASSUME ~ sourcesLost PROVE SharedMade'
    BY DEF SharedMade
  <2>1. /\ SharedState("sources") = "whole" /\ SharedState("base") = "whole"
        /\ SharedState("libFuzzer") \in {"whole", "bad"} /\ SharedState("fussLibFuzzer") \in {"whole", "bad"}
    BY <1>1, <1>3 DEF FRInv, SharedMade
  <2>2. \A i \in Ids : FussedLinked(i)' => FussedLinked(i)
    BY DEF FussedLinked
  <2>3. /\ pc' = [pc EXCEPT ![r] = "perfLock"] /\ parallel' = parallel /\ ~ (Rank["perfLock"] > 10)
        /\ \A k \in SharedSet : files'[0][k] = files[0][k]
    BY <1>3
  <2>4. ~ busy[r] /\ "perfLock" \in KindSet \cup {"perfLock", "done"} /\ FALSE \in BOOLEAN
    OBVIOUS
  <2> HIDE DEF WaitForPerf
  <2> QED BY <1>1, <1>2, <2>1, <2>2, <2>3, <2>4, LiveShared
<1>10. OwnMade'
  <2> SUFFICES ASSUME ~ sourcesLost, ~ numberLost PROVE OwnMade'
    BY DEF OwnMade
  <2>1. pc'[r] = "perfLock" /\ busy'[r] = FALSE
    BY <1>2 DEF FRInv, FRTypeOK
  <2>2. \A j \in OwnSet : files'[id'[r]][j] = OwnFile(r, j)'
    BY <1>1, <1>3, <2>1 DEF FRInv, OwnMade, OwnFile, Making, SharedState
  <2>3. \A q \in Runs \ {r} : Live(q)' => \A j \in OwnSet : files'[id'[q]][j] = OwnFile(q, j)'
    BY <1>1, <1>2, LiveOthers DEF SharedState
  <2> QED BY <2>2, <2>3 DEF OwnMade
<1> QED BY <1>4, <1>5, <1>6, <1>7, <1>8, <1>9, <1>10 DEF FRInv

\* The state of a file that a run works on, and who worked on it.
LEMMA WorkedOn ==
  ASSUME FRTypeOK, NEW r \in Runs, NEW p \in {0} \cup Ids, NEW k \in KindSet, NEW s \in FileStates
  PROVE  [state |-> s, by |-> files[p][k].by \cup {r}] \in [state : FileStates, by : SUBSET Runs]
BY DEF FRTypeOK

\* A run that starts a file is the only one that makes it, has what it needs for it,
\* and finds nothing there that another one left.
LEMMA WorkingInv ==
  ASSUME FRInv, NEW r \in Runs, NEW k \in KindSet, ~ busy[r], k = "perf" \/ pc[r] = k,
         k = "perf" => pc[r] \in {"perf", "perfLock"}, k \in SharedSet => ~ Skips(r, k),
         k \in Libraries => ~ Exists(r, k),
         NEW s \in {"partial", "spoiled"},
         s = "partial" <=> Ready(r, k) /\ (k = "perf" \/ Others(r) = {}),
         pc' = [pc EXCEPT ![r] = k], busy' = [busy EXCEPT ![r] = TRUE],
         files' = [files EXCEPT ![Place(r, k)][k] = [state |-> s, by |-> files[Place(r, k)][k].by \cup {r}]],
         perfLock' \subseteq Runs,
         UNCHANGED <<id, previous, first, parallel, idFile, lock, numberLost, sourcesLost>>
  PROVE  FRInv'
<1> DEFINE f == [state |-> s, by |-> files[Place(r, k)][k].by \cup {r}]
<1>1. Live(r) /\ id[r] \in Ids /\ Rank[pc[r]] = Rank[k] /\ pc[r] \notin {"ready", "done", "failed"}
  BY KindFacts DEF Live, FRInv, FRTypeOK, Rank
<1>2. Place(r, k) \in {0} \cup Ids
  BY <1>1 DEF Place
<1>3. f \in [state : FileStates, by : SUBSET Runs]
  BY <1>2, WorkedOn DEF FRInv, FileStates
<1>4. /\ f.state = s /\ f.by = files[Place(r, k)][k].by \cup {r}
      /\ files' = [files EXCEPT ![Place(r, k)][k] = f]
  OBVIOUS
<1> HIDE DEF f
<1>5. /\ files' \in [{0} \cup Ids -> [KindSet -> [state : FileStates, by : SUBSET Runs]]]
      /\ \A i \in {0} \cup Ids : \A j \in KindSet :
           files'[i][j] = IF i = Place(r, k) /\ j = k THEN f ELSE files[i][j]
  <2>1. FRTypeOK
    BY DEF FRInv
  <2> DEFINE p == Place(r, k)
  <2>2. p \in {0} \cup Ids /\ files' = [files EXCEPT ![p] = [files[p] EXCEPT ![k] = f]]
    BY <1>2, <1>4
  <2>3. files \in [{0} \cup Ids -> [KindSet -> [state : FileStates, by : SUBSET Runs]]]
    BY <2>1 DEF FRTypeOK
  <2> HIDE DEF p
  <2> DEFINE g == [files[p] EXCEPT ![k] = f]
  <2>4. g \in [KindSet -> [state : FileStates, by : SUBSET Runs]]
    BY <1>3, <2>2, <2>3
  <2>5. \A j \in KindSet : g[j] = IF j = k THEN f ELSE files[p][j]
    BY <2>2, <2>3
  <2>6. files' = [files EXCEPT ![p] = g]
    BY <2>2
  <2> HIDE DEF g
  <2>7. files' \in [{0} \cup Ids -> [KindSet -> [state : FileStates, by : SUBSET Runs]]]
    BY <2>2, <2>3, <2>4, <2>6
  <2>8. \A i \in {0} \cup Ids : files'[i] = IF i = p THEN g ELSE files[i]
    BY <2>2, <2>3, <2>6
  <2> QED BY <2>5, <2>7, <2>8 DEF p
<1>6. 0 \notin Ids
  BY NumberedFacts DEF FRInv, Ids
<1>7. FRTypeOK'
  <2>1. busy' \in [Runs -> BOOLEAN]
    BY DEF FRInv, FRTypeOK
  <2> QED BY <1>1, <1>5, <2>1, MoveType DEF FRInv, FRTypeOK
<1>8. Counted'
  BY MoveCounted, KindFacts DEF FRInv
<1>9. Locked'
  BY KindFacts DEF FRInv, FRTypeOK, Locked, InGetRunId
<1>10. Alone'
  BY <1>1, MoveAlone
<1>11. \A i \in Ids : \A j \in OwnSet : i # id[r] => files'[i][j] = files[i][j]
  BY <1>5, <1>6 DEF Place, OwnSet
<1>12. Fresh'
  BY <1>1, <1>11, LiveFresh
<1>13. /\ pc'[r] = k /\ busy'[r] = TRUE
       /\ \A q \in Runs \ {r} : pc'[q] = pc[q] /\ busy'[q] = busy[q] /\ (Live(q)' => Live(q))
  BY DEF FRInv, FRTypeOK, Live
<1>14. SharedMade'
  <2> SUFFICES ASSUME ~ sourcesLost PROVE SharedMade'
    BY DEF SharedMade
  <2>1. /\ Rank[k] > 1 => SharedState("sources") = "whole"
        /\ Rank[k] > 2 => SharedState("libFuzzer") \in {"whole", "bad"}
        /\ Rank[k] > 3 => SharedState("fussLibFuzzer") \in {"whole", "bad"}
        /\ Rank[k] > 4 => SharedState("base") = "whole"
        /\ Rank[k] > 10 => SharedState("libFuzzer") = "whole"
    BY <1>1 DEF FRInv, SharedMade
  <2>1a. \A i \in Ids : FussedLinked(i)' => FussedLinked(i)
    BY <1>4, <1>5, KindFacts DEF FussedLinked
  <2>2. CASE k \in OwnSet
    <3>1. \A j \in SharedSet : files'[0][j] = files[0][j]
      BY <1>5, <2>2, KindFacts DEF OwnSet
    <3> QED BY <1>1, <2>1, <2>1a, <2>2, <3>1, LiveShared
  <2>3. CASE k \in SharedSet
    <3>1. pc[r] = k
      BY <2>3, KindFacts
    <3>2. /\ SharedState(k)' = s
          /\ \A j \in SharedSet \ {k} : SharedState(j)' = SharedState(j)
      BY <1>4, <1>5, <2>3, KindFacts DEF Place, SharedState
    <3>3. \A j \in SharedSet : File(r, j).state = SharedState(j)
      BY DEF File, Place, SharedState
    <3>4. SharedState(k) # "whole"
      BY <2>3, <3>3, KindFacts DEF Skips, Exists, Linked, Libraries
    <3>5. ~ parallel
      BY <2>3, <3>4, SharedComplete DEF FRInv, SharedMade
    <3>6. \A q \in Runs \ {r} : ~ Live(q)'
      BY <1>1, <1>13, <3>5, OneRun, KindFacts DEF Live
    <3>7. Others(r) = {}
      BY <2>3, <3>1, <3>5, NoOthers
    <3>7a. /\ \A l \in Libraries : SharedState(l) # "spoiled"
           /\ \/ SharedState("base") \in {"none", "partial", "whole"}
              \/ SharedState("base") = "spoiled" /\ SharedState("fussLibFuzzer") = "bad"
           /\ \A i \in Ids : FussedLinked(i)' => SharedState("libFuzzer") = "whole"
      BY <2>1a DEF FRInv, SharedMade
    <3>8. CASE k = "sources"
      <4>1. s = "partial"
        BY <3>7, <3>8 DEF Ready, Needs
      <4>2. SharedState("base") # "whole"
        BY <3>4, <3>8 DEF FRInv, SharedMade
      <4>3. Rank["sources"] = 1
        BY DEF Rank
      <4>4. /\ SharedState("sources")' = "partial" /\ SharedState("libFuzzer")' = SharedState("libFuzzer")
            /\ SharedState("fussLibFuzzer")' = SharedState("fussLibFuzzer")
            /\ SharedState("base")' = SharedState("base")
        BY <3>2, <3>8, <4>1, KindFacts
      <4> QED BY <1>13, <3>5, <3>6, <3>8, <4>2, <4>3, <4>4, <3>7a DEF SharedMade, SharedState, Libraries
    <3>9. CASE k \in Libraries
      <4>1. s = "partial"
        BY <3>7, <3>9 DEF Ready, Needs, Libraries
      <4>2. SharedState(k) = "none"
        BY <2>3, <3>3, <3>9 DEF Exists
      <4>3. SharedState("base") # "whole" /\ (k = "fussLibFuzzer" => SharedState("base") # "spoiled")
        BY <3>9, <4>2 DEF FRInv, SharedMade, Libraries
      <4>4. Rank["libFuzzer"] = 2 /\ Rank["fussLibFuzzer"] = 3
        BY DEF Rank
      <4>5. /\ SharedState(k)' = "partial" /\ SharedState("sources")' = SharedState("sources")
            /\ SharedState("base")' = SharedState("base")
            /\ \A l \in Libraries \ {k} : SharedState(l)' = SharedState(l)
        BY <3>2, <3>9, <4>1, KindFacts DEF Libraries
      <4>6. SharedState("sources") = "whole"
        BY <2>1, <3>9, <4>4 DEF Libraries
      <4>7. CASE k = "libFuzzer"
        BY <1>13, <3>5, <3>6, <3>7a, <4>2, <4>3, <4>4, <4>5, <4>6, <4>7 DEF SharedMade, SharedState, Libraries
      <4>8. CASE k = "fussLibFuzzer"
        BY <1>13, <2>1, <3>5, <3>6, <3>7a, <4>2, <4>3, <4>4, <4>5, <4>6, <4>8 DEF SharedMade, SharedState, Libraries
      <4> QED BY <3>9, <4>7, <4>8 DEF Libraries
    <3>10. CASE k = "base"
      <4>1. Rank["base"] = 4
        BY DEF Rank
      <4>2. /\ SharedState("sources") = "whole" /\ SharedState("fussLibFuzzer") \in {"whole", "bad"}
            /\ SharedState("libFuzzer") \in {"whole", "bad"}
        BY <2>1, <3>10, <4>1
      <4>3. IF SharedState("fussLibFuzzer") = "whole" THEN s = "partial" ELSE s = "spoiled"
        BY <3>3, <3>7, <3>10, <4>2, KindFacts DEF Ready, Needs
      <4>4. /\ SharedState("base")' = s /\ SharedState("sources")' = SharedState("sources")
            /\ \A l \in Libraries : SharedState(l)' = SharedState(l)
        BY <3>2, <3>10, KindFacts DEF Libraries
      <4> QED BY <1>13, <3>5, <3>6, <3>7a, <3>10, <4>1, <4>2, <4>3, <4>4 DEF SharedMade, SharedState, Libraries
    <3> QED BY <2>3, <3>8, <3>9, <3>10, KindFacts DEF Libraries
  <2> QED BY <2>2, <2>3 DEF OwnSet
<1>15. OwnMade'
  <2> SUFFICES ASSUME ~ sourcesLost, ~ numberLost PROVE OwnMade'
    BY DEF OwnMade
  <2>1. \A j \in OwnSet : files[id[r]][j] = IF Rank[j] < Rank[k] THEN [state |-> "whole", by |-> {r}] ELSE NoFile
    BY <1>1 DEF FRInv, OwnMade, OwnFile
  <2>1a. k \in OwnSet \/ SharedState("libFuzzer") = "whole" => SharedState("libFuzzer")' = SharedState("libFuzzer")
    <3>1. CASE k = "libFuzzer"
      BY <3>1, KindFacts DEF OwnSet, Libraries, Exists, File, Place, SharedState
    <3>2. CASE k # "libFuzzer"
      BY <1>5, <3>2, KindFacts DEF SharedState
    <3> QED BY <3>1, <3>2
  <2>2. k \in OwnSet => f = [state |-> Making(k)', by |-> {r}]
    <3>1. ASSUME k \in OwnSet PROVE f = [state |-> Making(k)', by |-> {r}]
      <4>1. files[id[r]][k] = NoFile /\ NoFile.by = {}
        BY <1>1, <2>1, <3>1, RankType DEF OwnSet, NoFile
      <4>2. k = "perf" \/ Others(r) = {}
        BY <3>1, NoOthers DEF OwnSet
      <4>3. Ready(r, k) <=> ~ (k = "fussed" /\ SharedState("libFuzzer") = "bad")
        <5>1. CASE k = "fussed" /\ SharedState("libFuzzer") = "bad"
          BY <5>1, KindFacts DEF Ready, Needs, File, Place, SharedState
        <5>2. CASE ~ (k = "fussed" /\ SharedState("libFuzzer") = "bad")
          <6>1. k = "fussed" => SharedState("libFuzzer") = "whole"
            BY <1>1, <5>2 DEF FRInv, SharedMade, Rank
          <6> QED BY <1>1, <3>1, <5>2, <6>1, ReadyOwn
        <5> QED BY <5>1, <5>2
      <4>4. s = Making(k)'
        BY <2>1a, <3>1, <4>2, <4>3 DEF Making
      <4>5. Place(r, k) = id[r]
        BY <3>1 DEF Place, OwnSet
      <4>6. files[Place(r, k)][k].by \cup {r} = {r}
        BY <4>1, <4>5
      <4> QED BY <4>4, <4>6 DEF f
    <3> QED BY <3>1
  <2>3. \A j \in OwnSet : files'[id'[r]][j] = OwnFile(r, j)'
    <3> SUFFICES ASSUME NEW j \in OwnSet PROVE files'[id'[r]][j] = OwnFile(r, j)'
      OBVIOUS
    <3>1. j \in KindSet /\ Rank[j] \in Nat /\ Rank[k] \in Nat
      BY RankType DEF OwnSet
    <3>2. CASE j = k
      <4>1. Place(r, k) = id[r] /\ id'[r] = id[r]
        BY <3>2 DEF Place, OwnSet
      <4>2. files'[id'[r]][k] = f
        BY <1>1, <1>5, <4>1
      <4>3. ~ (Rank[k] < Rank[k])
        BY <3>1
      <4>4. OwnFile(r, k)' = [state |-> Making(k)', by |-> {r}]
        BY <1>13, <4>3 DEF OwnFile
      <4> QED BY <2>2, <3>2, <4>2, <4>4
    <3>3. CASE j # k
      BY <1>1, <1>5, <1>13, <2>1, <3>1, <3>3 DEF OwnFile
    <3> QED BY <3>2, <3>3
  <2>4. \A q \in Runs \ {r} : Live(q)' => \A j \in OwnSet : files'[id'[q]][j] = OwnFile(q, j)'
    <3>1. parallel => SharedState("libFuzzer")' = SharedState("libFuzzer")
      BY <2>1a DEF FRInv, SharedMade
    <3> QED BY <1>1, <1>11, <3>1, LiveOthers
  <2> QED BY <2>3, <2>4 DEF OwnMade
<1> QED BY <1>7, <1>8, <1>9, <1>10, <1>12, <1>14, <1>15 DEF FRInv

LEMMA BeginInv == ASSUME FRInv, NEW r \in Runs, Begin(r) PROVE FRInv'
<1> DEFINE k == pc[r]
           s == IF Others(r) = {} /\ Ready(r, k) THEN "partial" ELSE "spoiled"
<1>1. k \in KindSet \ {"perf"} /\ ~ busy[r] /\ ~ Skips(r, k) /\ Live(r) /\ id[r] \in Ids
  BY DEF Begin, Live, FRInv, FRTypeOK
<1>2. UNCHANGED <<id, previous, first, parallel, idFile, lock, perfLock, numberLost, sourcesLost>>
  BY DEF Begin
<1>3. CASE k \in Libraries /\ Exists(r, k)
  <2>1. pc' = [pc EXCEPT ![r] = "failed"] /\ UNCHANGED <<busy, files>>
    BY <1>3 DEF Begin
  <2>2. busy' = [busy EXCEPT ![r] = FALSE]
    BY <1>1, <2>1, NotBusy
  <2>3. FRTypeOK'
    BY <1>2, <2>1, MoveType, KindFacts DEF FRInv, FRTypeOK
  <2>4. Counted'
    BY <1>2, <2>1, MoveCounted DEF FRInv
  <2>5. Locked'
    BY <1>2, <2>1 DEF FRInv, FRTypeOK, Locked, InGetRunId
  <2>6. Alone'
    BY <1>1, <1>2, <2>1, <2>2, KindFacts, MoveAlone
  <2>7. Fresh'
    BY <1>1, <1>2, <2>1, LiveFresh
  <2>8. SharedMade' /\ OwnMade'
    BY <1>1, <1>2, <2>1, <2>2, NoFilesFrame
  <2> QED BY <2>3, <2>4, <2>5, <2>6, <2>7, <2>8 DEF FRInv
<1>4. CASE ~ (k \in Libraries /\ Exists(r, k))
  <2>1. pc' = pc /\ busy' = [busy EXCEPT ![r] = TRUE]
    BY <1>4 DEF Begin, Working
  <2>2. files' = [files EXCEPT ![Place(r, k)][k] = [state |-> s, by |-> files[Place(r, k)][k].by \cup {r}]]
    BY <1>4 DEF Begin, Working
  <2>3. pc' = [pc EXCEPT ![r] = k]
    BY <2>1 DEF FRInv, FRTypeOK
  <2>4. s \in {"partial", "spoiled"} /\ (s = "partial" <=> Ready(r, k) /\ (k = "perf" \/ Others(r) = {}))
    BY <1>1
  <2>5. perfLock' \subseteq Runs
    BY <1>2 DEF FRInv, FRTypeOK
  <2> HIDE DEF s
  <2> QED BY <1>1, <1>2, <1>4, <2>1, <2>2, <2>3, <2>4, <2>5, WorkingInv
<1> QED BY <1>3, <1>4

LEMMA BeginPerfInv == ASSUME FRInv, NEW r \in Runs, BeginPerf(r) PROVE FRInv'
<1> DEFINE s == IF Ready(r, "perf") THEN "partial" ELSE "spoiled"
<1>1. /\ pc[r] = "perfLock" /\ perfLock' \subseteq Runs
      /\ UNCHANGED <<id, previous, first, parallel, idFile, lock, numberLost, sourcesLost>>
      /\ pc' = [pc EXCEPT ![r] = "perf"] /\ busy' = [busy EXCEPT ![r] = TRUE]
  BY DEF BeginPerf
<1>2. "perf" \in KindSet /\ "perf" \notin SharedSet \cup Libraries /\ ~ busy[r]
  BY <1>1, KindFacts DEF FRInv, Alone, Libraries
<1>3. Place(r, "perf") = id[r]
  BY <1>2 DEF Place
<1>4. files' = [files EXCEPT ![Place(r, "perf")]["perf"] =
                  [state |-> s, by |-> files[Place(r, "perf")]["perf"].by \cup {r}]]
  BY <1>3 DEF BeginPerf
<1>5. s \in {"partial", "spoiled"} /\ (s = "partial" <=> Ready(r, "perf"))
  OBVIOUS
<1> HIDE DEF s
<1> QED BY <1>1, <1>2, <1>4, <1>5, WorkingInv

\* What a run has made from complete files, and alone, is complete.
LEMMA EndInv == ASSUME FRInv, NEW r \in Runs, End(r) PROVE FRInv'
<1>0. PICK k \in KindSet : k = pc[r]
  BY DEF End, FRInv, Alone
<1> USE <1>0
<1> DEFINE x == Following(r, k)
<1>1. busy[r] /\ k \in KindSet /\ Live(r) /\ id[r] \in Ids
  BY DEF End, Live, FRInv, Alone, FRTypeOK
<1>2. /\ UNCHANGED <<id, previous, first, parallel, idFile, lock, numberLost, sourcesLost>>
      /\ busy' = [busy EXCEPT ![r] = FALSE]
  BY DEF End
<1>3. busy' \in [Runs -> BOOLEAN]
  BY <1>2 DEF FRInv, FRTypeOK
<1>4. k \notin {"ready", "lock", "read", "empty", "write", "perfLock", "done", "failed"}
  BY <1>1, KindFacts
<1>5. CASE LinkFails(r)
  <2>1. pc' = [pc EXCEPT ![r] = "failed"] /\ UNCHANGED <<files, perfLock>> /\ k \in {"base", "fussed"}
    BY <1>5, KindFacts DEF End, LinkFails, Needs, Libraries
  <2>2. FRTypeOK'
    BY <1>2, <1>3, <2>1, MoveType, KindFacts DEF FRInv, FRTypeOK
  <2>3. Counted'
    BY <1>2, <2>1, MoveCounted DEF FRInv
  <2>4. Locked'
    BY <1>2, <2>1 DEF FRInv, FRTypeOK, Locked, InGetRunId
  <2>5. Alone'
    BY <1>2, <1>4, <2>1, MoveAlone
  <2>6. Fresh'
    BY <1>1, <1>2, <2>1, LiveFresh
  <2>7. SharedMade' /\ OwnMade'
    BY <1>1, <1>2, <2>1, NoFilesFrame
  <2> QED BY <2>2, <2>3, <2>4, <2>5, <2>6, <2>7 DEF FRInv
<1>6. CASE ~ LinkFails(r)
  <2>1. PICK s \in Outcomes(r) : files' = [files EXCEPT ![Place(r, k)][k].state = s]
    BY <1>6 DEF End
  <2>2. pc' = [pc EXCEPT ![r] = x] /\ perfLock' \subseteq Runs
    BY <1>6 DEF End, Released, FRInv, FRTypeOK
  <2>3. x \in KindSet \cup {"done"} /\ (k # "base" => Rank[x] = Rank[k] + 1)
    <3>1. CASE k # "base"
      BY <1>1, <3>1, FollowingFacts
    <3>2. CASE k = "base"
      BY <3>2, FollowingBase, KindFacts
    <3> QED BY <3>1, <3>2
  <2>4. k = "base" => Rank[x] \in {5, 10}
    BY FollowingBase
  <2>5. k = "base" /\ ~ Exists(r, "prof") => Rank[x] = 5
    BY <1>1, FollowingFacts DEF Rank
  <2> HIDE DEF x
  <2>6. s \in {"whole", "bad"}
    BY DEF Outcomes
  <2> DEFINE p == Place(r, k)
             f == [files[p][k] EXCEPT !.state = s]
             g == [files[p] EXCEPT ![k] = f]
  <2>7. p \in {0} \cup Ids
    BY <1>1 DEF Place
  <2>8. files \in [{0} \cup Ids -> [KindSet -> [state : FileStates, by : SUBSET Runs]]]
    BY DEF FRInv, FRTypeOK
  <2>9. files' = [files EXCEPT ![p] = g]
    BY <2>1
  <2> HIDE DEF p
  <2>10. /\ f \in [state : FileStates, by : SUBSET Runs]
         /\ f = [state |-> s, by |-> files[p][k].by]
    BY <1>1, <2>6, <2>7, <2>8 DEF FileStates
  <2> HIDE DEF f
  <2>11. /\ g \in [KindSet -> [state : FileStates, by : SUBSET Runs]]
         /\ \A j \in KindSet : g[j] = IF j = k THEN f ELSE files[p][j]
    BY <1>1, <2>7, <2>8, <2>10
  <2> HIDE DEF g
  <2>12. /\ files' \in [{0} \cup Ids -> [KindSet -> [state : FileStates, by : SUBSET Runs]]]
         /\ \A i \in {0} \cup Ids : files'[i] = IF i = p THEN g ELSE files[i]
    BY <2>7, <2>8, <2>9, <2>11
  <2>13. \A i \in {0} \cup Ids : \A j \in KindSet : files'[i][j] = IF i = p /\ j = k THEN f ELSE files[i][j]
    BY <2>11, <2>12
  <2>14. 0 \notin Ids
    BY NumberedFacts DEF FRInv, Ids
  <2>15. FRTypeOK'
    BY <1>1, <1>2, <1>3, <2>2, <2>3, <2>12, MoveType DEF FRInv, FRTypeOK
  <2>16. Counted'
    BY <1>2, <2>2, <2>3, MoveCounted, KindFacts DEF FRInv
  <2>17. Locked'
    BY <1>2, <2>2, <2>3, KindFacts DEF FRInv, FRTypeOK, Locked, InGetRunId
  <2>18. Alone'
    BY <1>2, <1>4, <2>2, MoveAlone
  <2>19. \A i \in Ids : \A j \in OwnSet : i # id[r] => files'[i][j] = files[i][j]
    BY <2>13, <2>14 DEF Place, OwnSet, p
  <2>20. Fresh'
    BY <1>1, <1>2, <2>2, <2>3, <2>19, LiveFresh
  <2>21. /\ pc'[r] = x /\ busy'[r] = FALSE
         /\ \A q \in Runs \ {r} : pc'[q] = pc[q] /\ busy'[q] = busy[q] /\ (Live(q)' => Live(q))
    BY <1>2, <2>2 DEF FRInv, FRTypeOK, Live
  <2>22. /\ Rank["sources"] = 1 /\ Rank["libFuzzer"] = 2 /\ Rank["fussLibFuzzer"] = 3 /\ Rank["base"] = 4
         /\ Rank["fussed"] = 10
    BY DEF Rank
  <2>22a. ~ sourcesLost /\ k = "fussed" => SharedState("libFuzzer") = "whole"
    <3> SUFFICES ASSUME ~ sourcesLost, k = "fussed" PROVE SharedState("libFuzzer") = "whole"
      OBVIOUS
    <3>0. Rank[pc[r]] > 2 /\ SharedMade
      BY <2>22 DEF FRInv
    <3>1. SharedState("libFuzzer") \in {"whole", "bad"}
      BY <1>1, <3>0 DEF SharedMade
    <3>2. "libFuzzer" \in Libraries \cap Needs["fussed"]
      BY DEF Libraries, Needs
    <3>3. File(r, "libFuzzer").state # "bad"
      BY <1>6, <3>2 DEF LinkFails
    <3> QED BY <3>1, <3>3, KindFacts DEF File, Place, SharedState
  <2>22b. k = "libFuzzer" \/ SharedState("libFuzzer")' = SharedState("libFuzzer")
    BY <2>13, KindFacts DEF SharedState
  <2>22c. \A i \in Ids : FussedLinked(i)' => FussedLinked(i) \/ k = "fussed"
    BY <2>13, KindFacts DEF FussedLinked
  <2>23. SharedMade'
    <3> SUFFICES ASSUME ~ sourcesLost PROVE SharedMade'
      BY <1>2 DEF SharedMade
    <3>1. /\ Rank[k] > 1 => SharedState("sources") = "whole"
          /\ Rank[k] > 2 => SharedState("libFuzzer") \in {"whole", "bad"}
          /\ Rank[k] > 3 => SharedState("fussLibFuzzer") \in {"whole", "bad"}
          /\ Rank[k] > 4 => SharedState("base") = "whole"
          /\ Rank[k] > 10 => SharedState("libFuzzer") = "whole"
      BY <1>1 DEF FRInv, SharedMade
    <3>2. CASE k \in OwnSet
      <4>1. \A j \in SharedSet : files'[0][j] = files[0][j]
        BY <2>13, <3>2, KindFacts DEF OwnSet
      <4>2. Rank[k] > 4 /\ Rank[k] \in Nat /\ Rank[x] = Rank[k] + 1 /\ (Rank[k] = 10 => k = "fussed")
        BY <2>3, <2>22, <3>2, RankType, KindFacts DEF OwnSet
      <4>3. k \notin SharedSet /\ k # "sources"
        BY <3>2, KindFacts
      <4>4. /\ SharedState("sources") = "whole" /\ SharedState("libFuzzer") \in {"whole", "bad"}
            /\ SharedState("fussLibFuzzer") \in {"whole", "bad"} /\ SharedState("base") = "whole"
        BY <3>1, <4>2
      <4>4a. Rank[x] > 10 => SharedState("libFuzzer") = "whole"
        BY <2>22a, <3>1, <4>2
      <4>4b. \A i \in Ids : FussedLinked(i)' => FussedLinked(i) \/ SharedState("libFuzzer") = "whole"
        BY <2>22a, <2>22c
      <4>5. x \in KindSet \cup {"perfLock", "done"} /\ pc[r] # "sources" /\ parallel' = parallel
        BY <1>2, <2>3, <4>3
      <4> QED BY <1>1, <1>2, <2>2, <4>1, <4>4, <4>4a, <4>4b, <4>5, LiveShared
    <3>3. CASE k \in SharedSet
      <4>1. /\ SharedState(k)' = s
            /\ \A j \in SharedSet \ {k} : SharedState(j)' = SharedState(j)
        BY <2>10, <2>13, <3>3, KindFacts DEF Place, SharedState, p
      <4>2. \A j \in SharedSet : File(r, j).state = SharedState(j)
        BY DEF File, Place, SharedState
      <4>3. SharedState(k) # "whole"
        BY <1>1, <3>3, KindFacts DEF FRInv, SharedMade, Libraries
      <4>4. ~ parallel
        BY <3>3, <4>3, SharedComplete DEF FRInv, SharedMade
      <4>5. \A q \in Runs \ {r} : ~ Live(q)'
        BY <1>4, <2>21, <4>4, OneRun, KindFacts DEF Live
      <4>5a. \A i \in Ids : FussedLinked(i)' => FussedLinked(i)
        BY <2>22c, <3>3, KindFacts
      <4>6. CASE k = "sources"
        <5>1. SharedState("sources") = "partial"
          BY <1>1, <4>6 DEF FRInv, SharedMade
        <5>2. s = "whole"
          BY <3>3, <4>2, <4>6, <5>1 DEF Outcomes, Ready, Needs, Libraries
        <5>3. SharedState("base") # "whole"
          BY <4>3, <4>6, SharedComplete, KindFacts
        <5>4. /\ SharedState("sources")' = "whole" /\ SharedState("base")' = SharedState("base")
              /\ \A l \in Libraries : SharedState(l)' = SharedState(l)
          BY <4>1, <4>6, <5>2, KindFacts DEF Libraries
        <5>5. Rank[x] = 2
          BY <2>3, <2>22, <4>6
        <5> QED BY <1>2, <2>21, <4>4, <4>5, <4>5a, <5>3, <5>4, <5>5 DEF FRInv, SharedMade, SharedState, Libraries
      <4>7. CASE k \in Libraries
        <5>1. SharedState(k) = "partial"
          BY <1>1, <4>7 DEF FRInv, SharedMade
        <5>2. SharedState("base") # "whole" /\ (k = "fussLibFuzzer" => SharedState("base") # "spoiled")
          BY <4>7, <5>1 DEF FRInv, SharedMade, Libraries
        <5>3. /\ SharedState(k)' \in {"whole", "bad"}
              /\ SharedState("sources")' = SharedState("sources")
              /\ SharedState("base")' = SharedState("base")
              /\ \A l \in Libraries \ {k} : SharedState(l)' = SharedState(l)
          BY <2>6, <4>1, <4>7, KindFacts DEF Libraries
        <5>4. Rank[x] = Rank[k] + 1 /\ Rank[x] \in {3, 4}
          BY <2>3, <2>22, <4>7 DEF Libraries
        <5>5. SharedState("sources") = "whole"
          BY <2>22, <3>1, <4>7 DEF Libraries
        <5> QED BY <1>2, <2>21, <2>22, <3>1, <4>4, <4>5, <4>5a, <4>7, <5>1, <5>2, <5>3, <5>4, <5>5
            DEF FRInv, SharedMade, SharedState, Libraries
      <4>8. CASE k = "base"
        <5>1. SharedState("fussLibFuzzer") # "bad"
          BY <1>6, <4>2, <4>8, KindFacts DEF LinkFails, Libraries, Needs
        <5>2. /\ SharedState("base") = "partial" /\ SharedState("fussLibFuzzer") = "whole"
              /\ SharedState("sources") = "whole" /\ SharedState("libFuzzer") \in {"whole", "bad"}
          <6>1. SharedState("sources") = "whole" /\ SharedState("libFuzzer") \in {"whole", "bad"}
            BY <2>22, <3>1, <4>8
          <6>2. SharedState("base") = "partial" /\ SharedState("fussLibFuzzer") = "whole"
            BY <1>1, <4>8, <5>1 DEF FRInv, SharedMade
          <6> QED BY <6>1, <6>2
        <5>3. Ready(r, "base")
          BY <4>2, <5>2, KindFacts DEF Ready, Needs
        <5>4. s = "whole"
          BY <3>3, <4>2, <4>8, <5>2, <5>3 DEF Outcomes, Libraries
        <5>5. /\ SharedState("base")' = "whole" /\ SharedState("sources")' = SharedState("sources")
              /\ \A l \in Libraries : SharedState(l)' = SharedState(l)
          BY <4>1, <4>8, <5>4, KindFacts DEF Libraries
        <5> QED BY <1>2, <2>4, <2>21, <4>4, <4>5, <4>5a, <4>8, <5>2, <5>5 DEF FRInv, SharedMade, SharedState, Libraries
      <4> QED BY <3>3, <4>6, <4>7, <4>8, KindFacts DEF Libraries
    <3> QED BY <1>1, <3>2, <3>3 DEF OwnSet
  <2>24. OwnMade'
    <3> SUFFICES ASSUME ~ sourcesLost, ~ numberLost PROVE OwnMade'
      BY <1>2 DEF OwnMade
    <3>1. Rank[k] \in Nat /\ \A j \in OwnSet : Rank[j] \in Nat /\ Rank[j] > 4 /\ j \in KindSet
      BY <1>1, RankType DEF OwnSet
    <3>2. \A j \in OwnSet : files[id[r]][j] = OwnFile(r, j)
      BY <1>1 DEF FRInv, OwnMade
    <3>3. id'[r] = id[r]
      BY <1>2
    <3>3a. \A q \in Runs \ {r} : Live(q)' => \A j \in OwnSet : files'[id'[q]][j] = OwnFile(q, j)'
      <4>1. parallel => SharedState("libFuzzer")' = SharedState("libFuzzer")
        BY <1>1, <2>22b DEF FRInv, SharedMade, Libraries
      <4> QED BY <1>1, <1>2, <2>2, <2>19, <4>1, LiveOthers
    <3>4. CASE k \in SharedSet
      <4>1. Rank[k] <= 4 /\ \A j \in OwnSet : j # k
        BY <2>22, <3>4, KindFacts
      <4>2. \A j \in OwnSet : files[id[r]][j] = NoFile
        <5>1. \A j \in OwnSet : ~ (Rank[j] < Rank[k])
          BY <3>1, <4>1
        <5> QED BY <3>2, <4>1, <5>1 DEF OwnFile
      <4>3. Rank[x] \in Nat /\ Rank[x] <= 5
        <5>1. k = "base" => ~ Exists(r, "prof")
          BY <4>2, KindFacts DEF Exists, File, Place, NoFile
        <5> QED BY <2>3, <2>5, <3>1, <4>1, <2>22, <5>1
      <4>4. \A j \in OwnSet : files'[id[r]][j] = NoFile
        BY <1>1, <2>13, <3>1, <4>1, <4>2
      <4>5. \A j \in OwnSet : ~ (Rank[j] < Rank[x])
        BY <3>1, <4>3
      <4>6. \A j \in OwnSet : files'[id'[r]][j] = OwnFile(r, j)'
        BY <2>21, <3>3, <4>4, <4>5 DEF OwnFile
      <4> QED BY <3>3a, <4>6 DEF OwnMade
    <3>5. CASE k \in OwnSet
      <4>1. files[id[r]][k] = [state |-> "partial", by |-> {r}]
        <5>1. ~ (Rank[k] < Rank[k])
          BY <3>1
        <5> QED BY <1>1, <2>22a, <3>2, <3>5, <5>1 DEF OwnFile, Making
      <4>2. p = id[r]
        BY <3>5 DEF p, Place, OwnSet
      <4>3. File(r, k).state = "partial" /\ Ready(r, k)
        BY <1>1, <2>22a, <3>5, <4>1, <4>2, ReadyOwn DEF File, p
      <4>4. s = "whole"
        BY <3>5, <4>3, KindFacts DEF Outcomes, Libraries
      <4>5. f = [state |-> "whole", by |-> {r}]
        BY <2>10, <4>1, <4>2, <4>4
      <4>6. Rank[x] = Rank[k] + 1
        BY <2>3, <3>5, KindFacts
      <4>7. \A j \in OwnSet : files'[id'[r]][j] = OwnFile(r, j)'
        <5> SUFFICES ASSUME NEW j \in OwnSet PROVE files'[id'[r]][j] = OwnFile(r, j)'
          OBVIOUS
        <5>1. CASE j = k
          <6>1. files'[id[r]][k] = f
            BY <1>1, <2>13, <4>2
          <6>2. Rank[k] < Rank[x]
            BY <3>1, <4>6
          <6> QED BY <2>21, <3>3, <4>5, <5>1, <6>1, <6>2 DEF OwnFile
        <5>2. CASE j # k
          <6>1. Rank[j] < Rank[x] <=> Rank[j] < Rank[k]
            BY <1>1, <3>1, <4>6, <5>2, RankType
          <6>2. files'[id[r]][j] = files[id[r]][j]
            BY <1>1, <2>13, <3>1, <5>2
          <6> QED BY <2>21, <3>2, <3>3, <5>2, <6>1, <6>2 DEF OwnFile
        <5> QED BY <5>1, <5>2
      <4> QED BY <3>3a, <4>7 DEF OwnMade
    <3> QED BY <1>1, <3>4, <3>5 DEF OwnSet
  <2> QED BY <2>15, <2>16, <2>17, <2>18, <2>20, <2>23, <2>24 DEF FRInv
<1> QED BY <1>5, <1>6

LEMMA FRStepInv == FRInv /\ [FRNext]_frVars => FRInv'
<1> SUFFICES ASSUME FRInv, [FRNext]_frVars PROVE FRInv'
  OBVIOUS
<1>1. CASE UNCHANGED frVars
  <2> USE <1>1 DEF frVars
  <2>1. FRTypeOK' /\ Counted' /\ Locked' /\ Alone'
    BY DEF FRInv, FRTypeOK, Counted, Numbered, Locked, InGetRunId, Alone
  <2>2. Fresh'
    BY DEF FRInv, Fresh, NewAbove, Live
  <2>3. SharedMade' /\ OwnMade'
    BY DEF FRInv, SharedMade, SharedState, OwnMade, OwnFile, Live, FussedLinked, Making, Ids
  <2> QED BY <2>1, <2>2, <2>3 DEF FRInv
<1>2. CASE GoOn
  BY <1>2, GoOnInv
<1>3. CASE Clean
  BY <1>3, CleanInv
<1>4. ASSUME NEW r \in Runs, StartFirst(r) \/ StartParallel(r) \/ Step(r) \/ Fail(r) PROVE FRInv'
  BY <1>4, StartFirstInv, StartParallelInv, FailInv, TakeLockInv, LockTimeoutInv, ReadIdInv, EmptyIdInv,
     WriteIdInv, SkipInv, BeginInv, WaitForPerfInv, BeginPerfInv, EndInv DEF Step
<1> QED BY <1>1, <1>2, <1>3, <1>4 DEF FRNext

\* The invariant of the experiment.
THEOREM FRInvariant == FRSpec => []FRInv
BY FRInitInv, FRStepInv, PTL DEF FRSpec

\* In every state of the experiment the program counters, the numbers (never more
\* than there are repetitions), the locks and the files have their types.
THEOREM FRTypeCorrect == FRSpec => []FRTypeOK
<1>1. FRInv => FRTypeOK
  BY DEF FRInv
<1> QED BY <1>1, FRInvariant, PTL

\* For any number of repetitions: what a run of ff.sh used when it ends well is
\* complete, and the files with its number are its own, however the runs interleave
\* and wherever others fail or are killed, unless one died while it got the sources
\* or between emptying and writing run_id.
THEOREM RunsNeverDisturbed == FRSpec => []RunsIndependent
<1>1. FRInv => RunsIndependent
  <2> SUFFICES ASSUME FRInv, ~ sourcesLost, NEW r \in Runs, pc[r] = "done"
      PROVE  /\ \A k \in SharedSet : File(r, k).state = "whole"
             /\ numberLost \/ \A k \in KindSet \ SharedSet : File(r, k) = [state |-> "whole", by |-> {r}]
    BY DEF RunsIndependent
  <2>1. Live(r) /\ Rank["done"] = 12
    BY DEF Live, Rank
  <2>2. SharedState("base") = "whole" /\ SharedState("libFuzzer") = "whole"
    BY <2>1 DEF FRInv, SharedMade
  <2>3. \A k \in SharedSet : File(r, k).state = "whole"
    BY <2>2, SharedComplete DEF File, Place, SharedState
  <2>4. ASSUME ~ numberLost, NEW k \in OwnSet PROVE File(r, k) = [state |-> "whole", by |-> {r}]
    <3>1. Rank[k] < 12
      BY RankType DEF OwnSet
    <3> QED BY <2>1, <2>4, <3>1 DEF FRInv, OwnMade, OwnFile, File, Place, OwnSet
  <2> QED BY <2>3, <2>4 DEF OwnSet
<1> QED BY <1>1, FRInvariant, PTL

=============================================================================
