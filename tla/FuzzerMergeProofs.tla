-------------------------- MODULE FuzzerMergeProofs --------------------------
(***************************************************************************)
(* The crash-resistant merge keeps its control file readable, loses no     *)
(* feature and implements the abstract merge, for every corpus, however    *)
(* its processes end.                                                      *)
(***************************************************************************)
EXTENDS FuzzerMerge, FiniteSetTheorems, SequenceTheorems, WellFoundedInduction, TLAPS

Lines == [marker : {"STARTED", "DONE", "REST"}, id : 1..in.n, feats : SUBSET Features,
          torn : BOOLEAN]

\* The number of STARTED lines.
Count(L) == StartedBefore(L, Len(L) + 1)

StartedIn(L) == {i \in 1..in.n : \E k \in 1..Len(L) : L[k] = Started(i)}
DoneIn(L)    == {i \in 1..in.n : \E k \in 1..Len(L) : L[k] = Done(i)}

\* A control file of whole lines: a STARTED line for one input after the other, and
\* for some a DONE line right behind it.
LineOK(L, k) ==
  \/ L[k] = Started(StartedBefore(L, k) + 1)
  \/ k > 1 /\ L[k] = Done(L[k].id) /\ L[k-1] = Started(L[k].id)

Clean(L) ==
  /\ \A k \in 1..Len(L) : LineOK(L, k)
  /\ StartedIn(L) = 1..Count(L)
  /\ DoneIn(L) \subseteq 1..Count(L)

\* The control file without the beginning of the line whose rest is in the buffer.
Settled == IF buffer # <<>> /\ buffer[1].marker = "REST" THEN Front(control) ELSE control

\* What holds in every case, also where DONE lines are torn.
Basics ==
  /\ in \in Corpora
  /\ control \in Seq(Lines)
  /\ \A k \in 1..Len(control) : control[k].torn => control[k].marker = "DONE"
  /\ buffer = <<>> \/ \E i \in 1..in.n : buffer = <<Done(i)>> \/ buffer = <<Rest(i)>>
  /\ hogged => in.hog # {}
  /\ exitCode \in Nat /\ atStart \in Nat

\* Where the two processes are.
Control ==
  /\ outer \in {"launch", "wait", "merge", "write", "done", "failed"}
  /\ inner \in {"none", "next", "run", "exit"}
  /\ (inner # "none") <=> (outer = "wait")
  /\ attempt \in 1..(in.n + 1)
  /\ outer = "wait" => attempt <= in.n
  /\ inner # "next" => buffer = <<>>
  /\ cur \in 0..(in.n + 1)
  /\ inner \in {"next", "run"} => cur > 0
  /\ inner = "run" => cur <= in.n

\* A process that starts behind the last STARTED line does not run out of inputs.
Bounded ==
  /\ Count(control) \in 0..in.n
  /\ inner = "next" => Count(control) < cur
  /\ inner = "run" => Count(control) <= cur

\* The selection and how far it is written.
Selection ==
  /\ NewFiles \subseteq 1..in.n
  /\ NewFiles = toWrite \cup written
  /\ outer \notin {"write", "done"} => NewFiles = {}
  /\ outer = "done" => toWrite = {}

\* The inner process has written at least one line.
Progressed == inner = "run" \/ (inner = "next" /\ (buffer # <<>> \/ hogged))

\* What holds where no DONE line can be torn: where the inner process is in the
\* control file, and what is in its buffer.
InStep ==
  /\ Clean(Settled)
  /\ inner = "next" => cur = Count(Settled) + 1
  /\ inner = "run" => /\ cur = Count(Settled) /\ Settled # <<>>
                      /\ Last(Settled) = Started(cur) /\ cur \notin DoneIn(Settled)
  /\ buffer # <<>> =>
       /\ Settled # <<>> /\ Last(Settled) = Started(cur - 1)
       /\ cur - 1 \notin DoneIn(Settled) /\ cur - 1 \notin in.crash
       /\ \/ buffer = <<Done(cur - 1)>>
          \/ /\ buffer = <<Rest(cur - 1)>>
             /\ in.long # {}
             /\ \E f \in SUBSET Features : control = Append(Settled, Torn(cur - 1, f))
  /\ DoneIn(Settled) \cap in.crash = {}

\* Every attempt that fails has executed an input, or all are executed.
Attempted ==
  /\ Len(control) >= atStart \/ inner = "none"
  /\ Progressed => Len(control) > atStart
  /\ inner = "exit" /\ exitCode # 0 => Len(control) > atStart \/ Count(Settled) = in.n
  /\ Count(Settled) >= attempt - 1 \/ Count(Settled) = in.n
  /\ Progressed \/ (inner = "exit" /\ exitCode # 0) => Count(Settled) >= attempt \/ Count(Settled) = in.n
  /\ inner = "exit" /\ exitCode = 0 /\ ~ interrupted => Count(Settled) = in.n
  /\ outer \in {"merge", "write", "done"} /\ ~ interrupted => Count(Settled) = in.n
  /\ outer = "failed" => in.n = 0

\* Only an input that crashes has no DONE line.
Survived ==
  in.hog = {} /\ ~ interrupted =>
    1..Count(Settled) \subseteq DoneIn(Settled) \cup in.crash \cup InProgress

\* The selection has the features of all inputs with a DONE line, and no others.
Kept ==
  outer \in {"write", "done"} =>
    /\ NewFiles \subseteq DoneIn(control)
    /\ UNION {in.feats[i] : i \in DoneIn(control)}
         \subseteq UNION {in.feats[i] : i \in (DoneIn(control) \cap 1..in.first) \cup NewFiles}

MergeInv ==
  /\ Basics /\ Control /\ Bounded /\ Selection
  /\ ~ Tearable => InStep /\ Attempted /\ Survived /\ Kept

-----------------------------------------------------------------------------
(* Lines *)

LEMMA InTypes ==
  ASSUME in \in Corpora
  PROVE  /\ in.n \in Nat /\ in.first \in 0..in.n
         /\ in.size \in [1..in.n -> Nat] /\ in.feats \in [1..in.n -> SUBSET Features]
         /\ in.crash \subseteq 1..in.n /\ in.hog \subseteq 1..in.n
BY CorporaWellFormed

\* The fields of the lines.
LEMMA LineFields ==
  \A i : /\ Started(i).marker = "STARTED" /\ Started(i).id = i /\ Started(i).torn = FALSE
        /\ Done(i).marker = "DONE" /\ Done(i).id = i /\ Done(i).torn = FALSE
        /\ Done(i).feats = in.feats[i]
        /\ Rest(i).marker = "REST" /\ Rest(i).id = i /\ Rest(i).torn = FALSE
BY DEF Started, Done, Rest, Line

LEMMA TornFields ==
  \A i, f : /\ Torn(i, f).marker = "DONE" /\ Torn(i, f).id = i /\ Torn(i, f).torn = TRUE
           /\ Torn(i, f).feats = f
BY DEF Torn, Line

LEMMA LineTypes ==
  ASSUME in \in Corpora, NEW i \in 1..in.n, NEW f \in SUBSET Features
  PROVE  Started(i) \in Lines /\ Done(i) \in Lines /\ Rest(i) \in Lines /\ Torn(i, f) \in Lines
<1>1. in.feats[i] \in SUBSET Features
  BY InTypes
<1>2. Started(i) \in Lines
  BY DEF Lines, Started, Line
<1>3. Rest(i) \in Lines
  BY DEF Lines, Rest, Line
<1>4. Torn(i, f) \in Lines
  BY DEF Lines, Torn, Line
<1>5. Done(i) \in Lines
  BY <1>1 DEF Lines, Done, Line
<1> QED BY <1>2, <1>3, <1>4, <1>5

\* The number of STARTED lines only depends on which lines are STARTED lines.
LEMMA CountBefore ==
  ASSUME NEW L, NEW M, NEW k \in Nat,
         \A j \in 1..(k-1) : L[j].marker = "STARTED" <=> M[j].marker = "STARTED"
  PROVE  StartedBefore(L, k) = StartedBefore(M, k)
<1>1. {j \in 1..(k-1) : L[j].marker = "STARTED"} = {j \in 1..(k-1) : M[j].marker = "STARTED"}
  OBVIOUS
<1> QED BY <1>1 DEF StartedBefore

LEMMA CountNext ==
  ASSUME NEW L, NEW k \in Nat \ {0}
  PROVE  /\ StartedBefore(L, k) \in Nat
         /\ L[k].marker = "STARTED" => StartedBefore(L, k + 1) = StartedBefore(L, k) + 1
         /\ L[k].marker # "STARTED" => StartedBefore(L, k + 1) = StartedBefore(L, k)
<1> DEFINE A == {j \in 1..(k-1) : L[j].marker = "STARTED"}
           B == {j \in 1..((k+1)-1) : L[j].marker = "STARTED"}
<1>1. IsFiniteSet(1..(k-1))
  BY FS_Interval
<1>2. A \subseteq 1..(k-1)
  OBVIOUS
<1>3. IsFiniteSet(A)
  BY <1>1, <1>2, FS_Subset
<1>4. Cardinality(A) \in Nat
  BY <1>3, FS_CardinalityType
<1>5. k \notin A /\ StartedBefore(L, k) = Cardinality(A) /\ StartedBefore(L, k + 1) = Cardinality(B)
  BY DEF StartedBefore
<1>6. CASE L[k].marker = "STARTED"
  <2>1. B = A \cup {k}
    BY <1>6
  <2>2. Cardinality(A \cup {k}) = Cardinality(A) + 1
    BY <1>3, <1>5, FS_AddElement
  <2> QED BY <1>4, <1>5, <1>6, <2>1, <2>2
<1>7. CASE L[k].marker # "STARTED"
  <2>1. B = A
    BY <1>7
  <2>2. StartedBefore(L, k + 1) = StartedBefore(L, k)
    BY <1>5, <2>1
  <2> HIDE DEF A, B
  <2> QED BY <1>4, <1>5, <1>7, <2>2
<1> QED BY <1>6, <1>7

LEMMA CountType == ASSUME NEW L \in Seq(Lines) PROVE Count(L) \in Nat
BY CountNext DEF Count

\* M is L and one more line x.
Appended(L, x, M) ==
  /\ M \in Seq(Lines) /\ Len(L) \in Nat /\ Len(M) = Len(L) + 1 /\ M[Len(L) + 1] = x /\ Last(M) = x
  /\ \A k \in 1..Len(L) : M[k] = L[k]
  /\ \A k \in 1..(Len(L) + 1) : StartedBefore(M, k) = StartedBefore(L, k)
  /\ x.marker = "STARTED" => Count(M) = Count(L) + 1
  /\ x.marker # "STARTED" => Count(M) = Count(L)
  /\ M # <<>> /\ Front(M) = L

LEMMA AppendFacts ==
  ASSUME NEW L \in Seq(Lines), NEW x \in Lines
  PROVE  Appended(L, x, Append(L, x))
<1> DEFINE M == Append(L, x)
<1>1. /\ M \in Seq(Lines) /\ Len(M) = Len(L) + 1 /\ M[Len(L) + 1] = x
      /\ \A k \in 1..Len(L) : M[k] = L[k]
  OBVIOUS
<1>2. ASSUME NEW k \in 1..(Len(L) + 1) PROVE StartedBefore(M, k) = StartedBefore(L, k)
  <2>1. \A j \in 1..(k-1) : M[j] = L[j]
    BY <1>1
  <2>2. k \in Nat
    OBVIOUS
  <2> QED BY <2>1, <2>2, CountBefore
<1>3. /\ x.marker = "STARTED" => Count(M) = Count(L) + 1
      /\ x.marker # "STARTED" => Count(M) = Count(L)
  <2>1. Len(L) + 1 \in Nat \ {0}
    OBVIOUS
  <2>2. /\ M[Len(L) + 1].marker = "STARTED" =>
             StartedBefore(M, (Len(L) + 1) + 1) = StartedBefore(M, Len(L) + 1) + 1
        /\ M[Len(L) + 1].marker # "STARTED" =>
             StartedBefore(M, (Len(L) + 1) + 1) = StartedBefore(M, Len(L) + 1)
    BY <2>1, CountNext
  <2> QED BY <1>1, <1>2, <2>2 DEF Count
<1>4. M # <<>> /\ Last(M) = x
  BY <1>1 DEF Last
<1>5. Front(M) = L
  BY <1>1 DEF Front
<1>6. Len(L) \in Nat
  OBVIOUS
<1> QED BY <1>1, <1>2, <1>3, <1>4, <1>5, <1>6 DEF Appended

\* WriteLine in every case: a STARTED line adds at most one to the count.
LEMMA WriteFacts ==
  ASSUME in \in Corpora, NEW L \in Seq(Lines), NEW x \in Lines, NEW M, M = WriteLine(L, x),
         \A k \in 1..Len(L) : L[k].torn => L[k].marker = "DONE",
         x.torn => x.marker = "DONE"
  PROVE  /\ M \in Seq(Lines) /\ Len(M) >= Len(L)
         /\ \A k \in 1..Len(M) : M[k].torn => M[k].marker = "DONE"
         /\ x.marker = "STARTED" => Count(M) <= Count(L) + 1
         /\ x.marker # "STARTED" => Count(M) <= Count(L)
<1>1. CASE L = <<>> \/ ~ Last(L).torn
  <2>1. M = Append(L, x)
    BY <1>1 DEF WriteLine
  <2>2. Appended(L, x, M) /\ Count(L) \in Nat
    BY <2>1, AppendFacts, CountType
  <2>3. \A k \in 1..Len(M) : M[k] = x \/ k \in 1..Len(L)
    BY <2>2 DEF Appended
  <2>4. M \in Seq(Lines) /\ Len(M) >= Len(L)
    BY <2>2 DEF Appended
  <2>5. \A k \in 1..Len(M) : M[k].torn => M[k].marker = "DONE"
    BY <2>2, <2>3 DEF Appended
  <2>6. /\ x.marker = "STARTED" => Count(M) <= Count(L) + 1
        /\ x.marker # "STARTED" => Count(M) <= Count(L)
    BY <2>2 DEF Appended
  <2> QED BY <2>4, <2>5, <2>6
<1>2. CASE L # <<>> /\ Last(L).torn
  <2> DEFINE n == Len(L)
             y == IF x.marker = "REST" THEN Done(x.id) ELSE [Last(L) EXCEPT !.torn = FALSE]
  <2>1. n \in Nat \ {0} /\ Last(L) = L[n] /\ L[n] \in Lines
    BY <1>2 DEF Last
  <2>2. M = Front(L) \o <<y>>
    BY <1>2 DEF WriteLine
  <2>3. L[n].marker = "DONE"
    BY <1>2, <2>1
  <2>4. y \in Lines
    <3>1. x.id \in 1..in.n /\ {} \in SUBSET Features
      BY DEF Lines
    <3>2. Done(x.id) \in Lines
      BY <3>1, LineTypes
    <3>3. [L[n] EXCEPT !.torn = FALSE] \in Lines
      BY <2>1 DEF Lines
    <3> QED BY <2>1, <3>2, <3>3
  <2>5. y.marker = "DONE"
    <3>1. [L[n] EXCEPT !.torn = FALSE].marker = "DONE"
      BY <2>1, <2>3 DEF Lines
    <3> QED BY <2>1, <3>1, LineFields
  <2> HIDE DEF y
  <2>6. /\ M \in Seq(Lines) /\ Len(M) = n /\ M[n] = y
        /\ \A k \in 1..(n-1) : M[k] = L[k]
    BY <2>1, <2>2, <2>4 DEF Front
  <2>7. \A k \in 1..n : M[k].marker = "STARTED" <=> L[k].marker = "STARTED"
    BY <2>1, <2>3, <2>5, <2>6
  <2>8. Count(M) = Count(L)
    <3>1. \A j \in 1..((n + 1) - 1) : M[j].marker = "STARTED" <=> L[j].marker = "STARTED"
      BY <2>1, <2>7
    <3>2. n + 1 \in Nat
      BY <2>1
    <3>3. StartedBefore(M, n + 1) = StartedBefore(L, n + 1)
      BY <3>1, <3>2, CountBefore
    <3> QED BY <2>6, <3>3 DEF Count
  <2>9. \A k \in 1..n : M[k].torn => M[k].marker = "DONE"
    BY <2>1, <2>5, <2>6
  <2> QED BY <2>1, <2>6, <2>8, <2>9, CountType
<1> QED BY <1>1, <1>2

\* The STARTED line of the next input.
LEMMA CleanStarted ==
  ASSUME in \in Corpora, NEW L \in Seq(Lines), Clean(L), Count(L) + 1 \in 1..in.n,
         NEW M, M = Append(L, Started(Count(L) + 1))
  PROVE  Clean(M) /\ M \in Seq(Lines) /\ Count(M) = Count(L) + 1 /\ DoneIn(M) = DoneIn(L)
<1> DEFINE c == Count(L)
           n == Len(L)
<1>1. c \in Nat /\ n \in Nat
  BY CountType
<1>2. Started(c + 1) \in Lines /\ Started(c + 1).marker = "STARTED"
  <2>1. {} \in SUBSET Features
    OBVIOUS
  <2> QED BY <2>1, LineTypes, LineFields
<1>3. /\ M \in Seq(Lines) /\ Len(M) = n + 1 /\ M[n + 1] = Started(c + 1)
      /\ \A k \in 1..n : M[k] = L[k]
      /\ \A k \in 1..(n + 1) : StartedBefore(M, k) = StartedBefore(L, k)
      /\ Count(M) = c + 1
  <2>1. Appended(L, Started(c + 1), M)
    BY <1>2, AppendFacts
  <2> QED BY <1>2, <2>1 DEF Appended
<1>4. \A k \in 1..Len(M) : LineOK(M, k)
  <2> SUFFICES ASSUME NEW k \in 1..(n + 1) PROVE LineOK(M, k)
    BY <1>3
  <2>1. CASE k = n + 1
    BY <1>1, <1>3, <2>1 DEF LineOK, Count
  <2>2. CASE k \in 1..n
    <3>1. LineOK(L, k)
      BY <2>2 DEF Clean
    <3> QED BY <1>1, <1>3, <2>2, <3>1 DEF LineOK
  <2> QED BY <1>1, <2>1, <2>2
<1>5. StartedIn(M) = StartedIn(L) \cup {c + 1}
  <2>1. \A i : (\E k \in 1..Len(M) : M[k] = Started(i)) <=>
               (\E k \in 1..Len(L) : L[k] = Started(i)) \/ Started(c + 1) = Started(i)
    BY <1>1, <1>3
  <2>2. \A i : Started(c + 1) = Started(i) <=> i = c + 1
    BY LineFields
  <2> QED BY <1>1, <2>1, <2>2 DEF StartedIn
<1>6. DoneIn(M) = DoneIn(L)
  <2>1. \A i : Started(c + 1) # Done(i)
    BY LineFields
  <2>2. \A i : (\E k \in 1..Len(M) : M[k] = Done(i)) <=> (\E k \in 1..Len(L) : L[k] = Done(i))
    BY <1>1, <1>3, <2>1
  <2> QED BY <2>2 DEF DoneIn
<1>7. StartedIn(M) = 1..Count(M) /\ DoneIn(M) \subseteq 1..Count(M)
  <2>1. 1..(c + 1) = (1..c) \cup {c + 1}
    BY <1>1
  <2>2. StartedIn(L) = 1..c /\ DoneIn(L) \subseteq 1..c
    BY DEF Clean
  <2> QED BY <1>3, <1>5, <1>6, <2>1, <2>2
<1> QED BY <1>3, <1>4, <1>6, <1>7 DEF Clean

\* The DONE line of the input that was started last.
LEMMA CleanDone ==
  ASSUME in \in Corpora, NEW L \in Seq(Lines), Clean(L), NEW i \in 1..in.n,
         L # <<>>, Last(L) = Started(i), NEW M, M = Append(L, Done(i))
  PROVE  /\ Clean(M) /\ M \in Seq(Lines) /\ Count(M) = Count(L) /\ DoneIn(M) = DoneIn(L) \cup {i}
         /\ Len(M) = Len(L) + 1 /\ Last(M).torn = FALSE /\ M # <<>>
<1> DEFINE n == Len(L)
<1>1. n \in Nat \ {0} /\ L[n] = Started(i) /\ Count(L) \in Nat
  BY CountType DEF Last
<1>2. Done(i) \in Lines /\ Done(i).marker = "DONE" /\ Done(i).torn = FALSE /\ Done(i).id = i
  <2>1. {} \in SUBSET Features
    OBVIOUS
  <2> QED BY <2>1, LineTypes, LineFields
<1>3. /\ M \in Seq(Lines) /\ Len(M) = n + 1 /\ M[n + 1] = Done(i) /\ Last(M) = Done(i) /\ M # <<>>
      /\ \A k \in 1..n : M[k] = L[k]
      /\ \A k \in 1..(n + 1) : StartedBefore(M, k) = StartedBefore(L, k)
      /\ Count(M) = Count(L)
  <2>1. Appended(L, Done(i), M)
    BY <1>2, AppendFacts
  <2> QED BY <1>2, <2>1 DEF Appended
<1>4. \A k \in 1..Len(M) : LineOK(M, k)
  <2> SUFFICES ASSUME NEW k \in 1..(n + 1) PROVE LineOK(M, k)
    BY <1>3
  <2>1. CASE k = n + 1
    BY <1>1, <1>2, <1>3, <2>1 DEF LineOK
  <2>2. CASE k \in 1..n
    <3>1. LineOK(L, k)
      BY <2>2 DEF Clean
    <3> QED BY <1>1, <1>3, <2>2, <3>1 DEF LineOK
  <2> QED BY <1>1, <2>1, <2>2
<1>5. StartedIn(M) = StartedIn(L)
  <2>1. \A j : Started(j) # Done(i)
    BY LineFields
  <2>2. \A j : (\E k \in 1..Len(M) : M[k] = Started(j)) <=> (\E k \in 1..Len(L) : L[k] = Started(j))
    BY <1>1, <1>3, <2>1
  <2> QED BY <2>2 DEF StartedIn
<1>6. DoneIn(M) = DoneIn(L) \cup {i}
  <2>1. \A j : (\E k \in 1..Len(M) : M[k] = Done(j)) <=>
               (\E k \in 1..Len(L) : L[k] = Done(j)) \/ Done(i) = Done(j)
    BY <1>1, <1>3
  <2>2. \A j : Done(i) = Done(j) <=> i = j
    BY LineFields
  <2> QED BY <2>1, <2>2 DEF DoneIn
<1>7. i \in 1..Count(L)
  BY <1>1 DEF Clean, StartedIn
<1> QED BY <1>2, <1>3, <1>4, <1>5, <1>6, <1>7 DEF Clean

\* M is L and the beginning of a DONE line, which counts as no line of an input.
TornBehind(L, M) ==
  /\ M \in Seq(Lines) /\ Count(M) = Count(L) /\ Len(M) = Len(L) + 1
  /\ DoneIn(M) = DoneIn(L) /\ StartedIn(M) = StartedIn(L)
  /\ Front(M) = L /\ M # <<>> /\ Last(M).torn = TRUE

LEMMA TornTail ==
  ASSUME in \in Corpora, NEW L \in Seq(Lines), NEW i \in 1..in.n, NEW f \in SUBSET Features
  PROVE  TornBehind(L, Append(L, Torn(i, f)))
<1> DEFINE M == Append(L, Torn(i, f))
<1>1. Torn(i, f) \in Lines /\ Torn(i, f).marker = "DONE" /\ Torn(i, f).torn = TRUE
  BY LineTypes, TornFields, LineFields
<1>2. /\ M \in Seq(Lines) /\ Len(M) = Len(L) + 1 /\ Len(L) \in Nat
      /\ M[Len(L) + 1] = Torn(i, f) /\ Last(M) = Torn(i, f)
      /\ \A k \in 1..Len(L) : M[k] = L[k]
      /\ Count(M) = Count(L)
      /\ M # <<>> /\ Front(M) = L
  <2>1. Appended(L, Torn(i, f), M)
    BY <1>1, AppendFacts
  <2> QED BY <1>1, <2>1 DEF Appended
<1>3. \A j : Torn(i, f) # Started(j) /\ Torn(i, f) # Done(j)
  BY TornFields, LineFields
<1>4. \A j : /\ (\E k \in 1..Len(M) : M[k] = Started(j)) <=> (\E k \in 1..Len(L) : L[k] = Started(j))
             /\ (\E k \in 1..Len(M) : M[k] = Done(j)) <=> (\E k \in 1..Len(L) : L[k] = Done(j))
  BY <1>2, <1>3
<1> QED BY <1>1, <1>2, <1>4 DEF StartedIn, DoneIn, TornBehind

-----------------------------------------------------------------------------
(* The control file and the buffer *)

LEMMA CleanEnd ==
  ASSUME NEW L \in Seq(Lines), Clean(L) PROVE L = <<>> \/ ~ Last(L).torn
<1> SUFFICES ASSUME L # <<>> PROVE ~ Last(L).torn
  OBVIOUS
<1>1. Len(L) \in 1..Len(L)
  OBVIOUS
<1>2. LineOK(L, Len(L))
  BY <1>1 DEF Clean
<1> QED BY <1>2, LineFields DEF LineOK, Last

\* The unit whose DONE line is in the buffer.
LEMMA BufferFacts ==
  ASSUME Basics, InStep, buffer # <<>>
  PROVE  /\ cur - 1 \in 1..in.n
         /\ \/ buffer = <<Done(cur - 1)>> /\ Settled = control
            \/ /\ buffer = <<Rest(cur - 1)>>
               /\ \E f \in SUBSET Features : control = Append(Settled, Torn(cur - 1, f))
<1>1. PICK i \in 1..in.n : buffer = <<Done(i)>> \/ buffer = <<Rest(i)>>
  BY DEF Basics
<1>2. CASE buffer = <<Done(cur - 1)>>
  <2>1. buffer[1] = Done(cur - 1) /\ (buffer[1] = Done(i) \/ buffer[1] = Rest(i))
    BY <1>1, <1>2
  <2>2. cur - 1 = i /\ buffer[1].marker = "DONE"
    BY <2>1, LineFields
  <2> QED BY <1>2, <2>2 DEF Settled
<1>3. CASE /\ buffer = <<Rest(cur - 1)>>
           /\ \E f \in SUBSET Features : control = Append(Settled, Torn(cur - 1, f))
  <2>1. buffer[1] = Rest(cur - 1) /\ (buffer[1] = Done(i) \/ buffer[1] = Rest(i))
    BY <1>1, <1>3
  <2>2. cur - 1 = i
    BY <2>1, LineFields
  <2> QED BY <1>3, <2>2
<1> QED BY <1>2, <1>3 DEF InStep

LEMMA SettledFacts ==
  ASSUME Basics, InStep
  PROVE  /\ Settled \in Seq(Lines) /\ Count(Settled) \in Nat /\ Count(control) = Count(Settled)
         /\ Len(control) >= Len(Settled)
         /\ MarkedStarted = 1..Count(Settled) /\ MarkedDone = DoneIn(Settled)
         /\ DoneIn(control) = DoneIn(Settled)
         /\ buffer = <<>> => Settled = control
<1>1. control \in Seq(Lines) /\ in \in Corpora
  BY DEF Basics
<1>2. Settled \in Seq(Lines)
  <2>1. CASE control = <<>>
    <3>1. Front(control) = <<>>
      BY <2>1 DEF Front
    <3> QED BY <1>1, <2>1, <3>1 DEF Settled
  <2>2. CASE control # <<>>
    <3>1. Front(control) \in Seq(Lines)
      BY <1>1, <2>2 DEF Front
    <3> QED BY <1>1, <3>1 DEF Settled
  <2> QED BY <2>1, <2>2
<1>3. Count(Settled) \in Nat
  BY <1>2, CountType
<1>4. MarkedStarted = StartedIn(control) /\ MarkedDone = DoneIn(control)
  BY DEF MarkedStarted, MarkedDone, StartedIn, DoneIn
<1>5. StartedIn(Settled) = 1..Count(Settled)
  BY DEF InStep, Clean
<1>6. CASE Settled = control
  BY <1>1, <1>2, <1>3, <1>4, <1>5, <1>6
<1>7. CASE buffer # <<>> /\ Settled # control
  <2>1. cur - 1 \in 1..in.n
    BY <1>7, BufferFacts
  <2>2. PICK f \in SUBSET Features : control = Append(Settled, Torn(cur - 1, f))
    BY <1>7, BufferFacts
  <2>3. /\ Count(control) = Count(Settled) /\ Len(control) = Len(Settled) + 1
        /\ DoneIn(control) = DoneIn(Settled) /\ StartedIn(control) = StartedIn(Settled)
    <3>1. TornBehind(Settled, control)
      BY <1>1, <1>2, <2>1, <2>2, TornTail
    <3> QED BY <3>1 DEF TornBehind
  <2>4. Len(Settled) \in Nat
    BY <1>2
  <2> QED BY <1>2, <1>3, <1>4, <1>5, <1>7, <2>3, <2>4
<1> QED BY <1>6, <1>7 DEF Settled

\* What a flush writes is the whole DONE line.
LEMMA FlushedFacts ==
  ASSUME Basics, InStep
  PROVE  /\ Flushed \in Seq(Lines) /\ Clean(Flushed) /\ Count(Flushed) = Count(Settled)
         /\ Len(Flushed) >= Len(control)
         /\ Flushed = <<>> \/ ~ Last(Flushed).torn
         /\ buffer = <<>> => DoneIn(Flushed) = DoneIn(Settled)
         /\ buffer # <<>> => DoneIn(Flushed) = DoneIn(Settled) \cup {cur - 1}
<1>1. control \in Seq(Lines) /\ in \in Corpora
  BY DEF Basics
<1>2. Settled \in Seq(Lines) /\ Clean(Settled) /\ Len(Settled) \in Nat /\ Len(control) \in Nat
  BY <1>1, SettledFacts DEF InStep
<1>3. CASE buffer = <<>>
  <2>1. Flushed = control /\ Settled = control
    BY <1>3, SettledFacts DEF Flushed
  <2> QED BY <1>2, <1>3, <2>1, CleanEnd
<1>4. CASE buffer # <<>>
  <2>1. cur - 1 \in 1..in.n /\ Settled # <<>> /\ Last(Settled) = Started(cur - 1)
    BY <1>4, BufferFacts DEF InStep
  <2>2. Flushed = Append(Settled, Done(cur - 1)) /\ Len(control) <= Len(Settled) + 1
    <3>1. CASE buffer = <<Done(cur - 1)>> /\ Settled = control
      <4>1. ~ Last(control).torn
        BY <2>1, <3>1, LineFields
      <4>2. buffer[1] = Done(cur - 1)
        BY <3>1
      <4>3. Flushed = Append(Settled, Done(cur - 1))
        BY <1>4, <3>1, <4>1, <4>2 DEF Flushed, WriteLine
      <4> QED BY <1>2, <3>1, <4>3
    <3>2. CASE /\ buffer = <<Rest(cur - 1)>>
               /\ \E f \in SUBSET Features : control = Append(Settled, Torn(cur - 1, f))
      <4>1. PICK f \in SUBSET Features : control = Append(Settled, Torn(cur - 1, f))
        BY <3>2
      <4>2. /\ Front(control) = Settled /\ control # <<>> /\ Last(control).torn = TRUE
            /\ Len(control) = Len(Settled) + 1
        <5>1. TornBehind(Settled, control)
          BY <1>1, <1>2, <2>1, <4>1, TornTail
        <5> QED BY <5>1 DEF TornBehind
      <4>3. buffer[1] = Rest(cur - 1) /\ Rest(cur - 1).marker = "REST" /\ Rest(cur - 1).id = cur - 1
        BY <3>2, LineFields
      <4>4. Flushed = Settled \o <<Done(cur - 1)>>
        BY <1>4, <4>2, <4>3 DEF Flushed, WriteLine
      <4>5. Flushed = Append(Settled, Done(cur - 1))
        BY <1>2, <4>4
      <4> QED BY <1>2, <4>2, <4>5
    <3> QED BY <1>4, <3>1, <3>2, BufferFacts
  <2>3. /\ Clean(Flushed) /\ Flushed \in Seq(Lines) /\ Count(Flushed) = Count(Settled)
        /\ DoneIn(Flushed) = DoneIn(Settled) \cup {cur - 1}
        /\ Len(Flushed) = Len(Settled) + 1 /\ Last(Flushed).torn = FALSE
    BY <1>1, <1>2, <2>1, <2>2, CleanDone
  <2> QED BY <1>2, <1>4, <2>2, <2>3
<1> QED BY <1>3, <1>4

\* The control file can be read, also while the last line is torn.
LEMMA InStepParses == ASSUME Basics, InStep, in.n > 0 PROVE Parses(control)
<1>1. control \in Seq(Lines) /\ Settled \in Seq(Lines) /\ in \in Corpora
  BY SettledFacts DEF Basics
<1>2. \A k \in 1..Len(Settled) : LineOK(Settled, k)
  BY DEF InStep, Clean
<1>3. ASSUME NEW k \in 1..Len(Settled)
      PROVE  IF Settled[k].marker = "STARTED" THEN Settled[k].id = StartedBefore(Settled, k) + 1
             ELSE k > 1 /\ Settled[k-1] = Started(Settled[k].id)
  <2>1. CASE Settled[k] = Started(StartedBefore(Settled, k) + 1)
    BY <2>1, LineFields
  <2>2. CASE k > 1 /\ Settled[k] = Done(Settled[k].id) /\ Settled[k-1] = Started(Settled[k].id)
    <3>1. Settled[k].marker = "DONE"
      BY <2>2, LineFields
    <3> QED BY <2>2, <3>1
  <2> QED BY <1>2, <2>1, <2>2 DEF LineOK
<1>4. CASE Settled = control
  BY <1>3, <1>4 DEF Parses
<1>5. CASE Settled # control
  <2>1. buffer # <<>>
    BY <1>5, SettledFacts
  <2>2. cur - 1 \in 1..in.n /\ Settled # <<>> /\ Last(Settled) = Started(cur - 1)
    BY <2>1, BufferFacts DEF InStep
  <2>3. PICK f \in SUBSET Features : control = Append(Settled, Torn(cur - 1, f))
    BY <1>5, <2>1, BufferFacts
  <2>4. Torn(cur - 1, f) \in Lines
    BY <1>1, <2>2, LineTypes
  <2>5. Appended(Settled, Torn(cur - 1, f), control)
    BY <1>1, <2>3, <2>4, AppendFacts
  <2> SUFFICES ASSUME NEW k \in 1..Len(control)
      PROVE  IF control[k].marker = "STARTED" THEN control[k].id = StartedBefore(control, k) + 1
             ELSE k > 1 /\ control[k-1] = Started(control[k].id)
    BY DEF Parses
  <2>6. CASE k \in 1..Len(Settled)
    <3>1. control[k] = Settled[k] /\ StartedBefore(control, k) = StartedBefore(Settled, k)
          /\ (k > 1 => control[k-1] = Settled[k-1])
      BY <2>5, <2>6 DEF Appended
    <3> QED BY <1>3, <2>6, <3>1
  <2>7. CASE k = Len(Settled) + 1
    <3>1. Len(Settled) \in Nat \ {0} /\ Settled[Len(Settled)] = Started(cur - 1)
      BY <1>1, <2>2 DEF Last
    <3>2. control[k] = Torn(cur - 1, f) /\ control[k-1] = Started(cur - 1)
      BY <2>5, <2>7, <3>1 DEF Appended
    <3>3. control[k].marker = "DONE" /\ control[k].id = cur - 1
      BY <3>2, TornFields
    <3> QED BY <2>7, <3>1, <3>2, <3>3
  <2> QED BY <2>5, <2>6, <2>7 DEF Appended
<1> QED BY <1>4, <1>5

-----------------------------------------------------------------------------
(* One lemma for each action *)

\* The inputs do not change, and so what a line says of them does not.
LEMMA Frame ==
  ASSUME in' = in
  PROVE  /\ Lines' = Lines
         /\ \A L : Count(L)' = Count(L)
         /\ \A L : DoneIn(L)' = DoneIn(L)
         /\ \A L : Clean(L)' <=> Clean(L)
<1>1. Lines' = Lines
  BY DEF Lines
<1>2. \A L : Count(L)' = Count(L)
  BY DEF Count, StartedBefore
<1>3. \A L : DoneIn(L)' = DoneIn(L)
  BY DEF DoneIn, Done
<1>4. \A L : Clean(L)' <=> Clean(L)
  BY <1>2, <1>3 DEF Clean, LineOK, StartedIn, Done, StartedBefore, Count
<1> QED BY <1>1, <1>2, <1>3, <1>4

LEMMA MergeInitInv == Init => MergeInv
<1> SUFFICES ASSUME Init PROVE MergeInv
  OBVIOUS
<1>1. in \in Corpora /\ in.n \in Nat /\ in.first \in 0..in.n
  BY InTypes DEF Init
<1>2. control = <<>> /\ buffer = <<>> /\ Settled = <<>> /\ Len(control) = 0
  BY DEF Init, Settled
<1>3. Count(<<>>) = 0
  <2>1. {j \in 1..((Len(<<>>) + 1) - 1) : <<>>[j].marker = "STARTED"} = {}
    OBVIOUS
  <2> QED BY <2>1, FS_EmptySet DEF Count, StartedBefore
<1>4. Basics
  BY <1>1, <1>2 DEF Init, Basics
<1>5. Control /\ Bounded /\ Selection
  BY <1>1, <1>2, <1>3 DEF Init, Control, Bounded, Selection
<1>6. InStep
  <2>1. StartedIn(<<>>) = {} /\ DoneIn(<<>>) = {}
    BY DEF StartedIn, DoneIn
  <2>2. Clean(<<>>)
    BY <1>3, <2>1 DEF Clean
  <2> QED BY <1>2, <2>1, <2>2 DEF Init, InStep
<1>7. Attempted /\ Survived /\ Kept
  BY <1>1, <1>2, <1>3 DEF Init, Attempted, Progressed, Survived, Kept
<1> QED BY <1>4, <1>5, <1>6, <1>7 DEF MergeInv

LEMMA LaunchInv == ASSUME MergeInv, Launch PROVE MergeInv'
<1> USE DEF Launch
<1>1. /\ in' = in /\ in \in Corpora /\ in.n \in Nat /\ inner = "none" /\ buffer = <<>>
      /\ Settled = control /\ Settled' = control /\ Len(control) \in Nat
      /\ attempt \in 1..in.n /\ Count(control) \in 0..in.n
  BY InTypes DEF MergeInv, Basics, Control, Bounded, Settled, Attempts
<1>2. cur' = Count(control) + 1
  BY DEF FirstNotProcessedFile, Count
<1>3. Basics'
  BY <1>1, Frame DEF MergeInv, Basics
<1>4. Control' /\ Bounded'
  BY <1>1, <1>2, Frame DEF MergeInv, Control, Bounded
<1>5. Selection'
  BY <1>1 DEF MergeInv, Selection
<1>6. ASSUME ~ Tearable' PROVE InStep' /\ Attempted' /\ Survived' /\ Kept'
  <2>1. InStep /\ Attempted /\ Survived
    BY <1>6 DEF MergeInv, Tearable
  <2>2. Parses(control)
    BY <1>1, <2>1, InStepParses DEF MergeInv
  <2>3. InStep'
    BY <1>1, <1>2, <2>1, <2>2, Frame DEF InStep
  <2>4. Attempted'
    BY <1>1, <2>1, <2>2, Frame DEF Attempted, Progressed
  <2>5. Survived' /\ Kept'
    BY <1>1, <2>1, <2>2, Frame DEF Survived, Kept, InProgress
  <2> QED BY <2>3, <2>4, <2>5
<1> QED BY <1>3, <1>4, <1>5, <1>6 DEF MergeInv

LEMMA AttemptsExhaustedInv == ASSUME MergeInv, AttemptsExhausted PROVE MergeInv'
<1> USE DEF AttemptsExhausted, innerVars
<1>1. /\ in' = in /\ in \in Corpora /\ in.n \in Nat /\ inner = "none" /\ buffer = <<>>
      /\ Settled = control /\ Settled' = control /\ attempt = in.n + 1 /\ Count(control) \in 0..in.n
  <2>1. in \in Corpora /\ in.n \in Nat /\ in' = in
    BY InTypes DEF MergeInv, Basics
  <2>2. inner = "none" /\ buffer = <<>> /\ attempt = in.n + 1
    BY <2>1 DEF MergeInv, Control, Attempts
  <2> QED BY <2>1, <2>2 DEF MergeInv, Bounded, Settled
<1>2. Basics'
  BY <1>1, Frame DEF MergeInv, Basics, Done
<1>3. Control' /\ Bounded' /\ Selection'
  BY <1>1, Frame DEF MergeInv, Control, Bounded, Selection
<1>4. ASSUME ~ Tearable' PROVE InStep' /\ Attempted' /\ Survived' /\ Kept'
  <2>1. InStep /\ Attempted /\ Survived
    BY <1>4 DEF MergeInv, Tearable
  <2>2. InStep' /\ Survived' /\ Kept'
    BY <1>1, <2>1, Frame DEF InStep, Survived, Kept, InProgress
  <2>3. Attempted'
    BY <1>1, <2>1, Frame DEF Attempted, Progressed
  <2> QED BY <2>2, <2>3
<1> QED BY <1>2, <1>3, <1>4 DEF MergeInv

LEMMA ReapInv == ASSUME MergeInv, Reap PROVE MergeInv'
<1> USE DEF Reap
<1>1. /\ in' = in /\ in \in Corpora /\ in.n \in Nat /\ buffer = <<>> /\ exitCode \in Nat
      /\ Settled = control /\ Settled' = control /\ attempt \in 1..in.n /\ Count(control) \in 0..in.n
  BY InTypes DEF MergeInv, Basics, Control, Bounded, Settled
<1>2. attempt' = (IF exitCode = 0 THEN attempt ELSE attempt + 1)
  BY DEF NextAttempt
<1>3. Basics'
  BY <1>1, Frame DEF MergeInv, Basics, Done
<1>4. Control' /\ Bounded' /\ Selection'
  BY <1>1, <1>2, Frame DEF MergeInv, Control, Bounded, Selection
<1>5. ASSUME ~ Tearable' PROVE InStep' /\ Attempted' /\ Survived' /\ Kept'
  <2>1. InStep /\ Attempted /\ Survived
    BY <1>5 DEF MergeInv, Tearable
  <2>2. InStep' /\ Survived' /\ Kept'
    BY <1>1, <2>1, Frame DEF InStep, Survived, Kept, InProgress
  <2>3. Attempted'
    BY <1>1, <1>2, <2>1, Frame DEF Attempted, Progressed
  <2> QED BY <2>2, <2>3
<1> QED BY <1>3, <1>4, <1>5 DEF MergeInv

LEMMA ParseFailsInv == ASSUME MergeInv, ParseFails PROVE MergeInv'
<1> USE DEF ParseFails, innerVars
<1>1. /\ in' = in /\ in \in Corpora /\ in.n \in Nat /\ inner = "none" /\ buffer = <<>>
      /\ Settled = control /\ Settled' = control
  BY InTypes DEF MergeInv, Basics, Control, Settled
<1>2. Basics'
  BY <1>1, Frame DEF MergeInv, Basics, Done
<1>3. Control' /\ Bounded' /\ Selection'
  BY <1>1, Frame DEF MergeInv, Control, Bounded, Selection
<1>4. ASSUME ~ Tearable' PROVE InStep' /\ Attempted' /\ Survived' /\ Kept'
  <2>1. InStep /\ Attempted /\ Survived
    BY <1>4 DEF MergeInv, Tearable
  <2>2. in.n = 0
    BY <1>1, <2>1, InStepParses DEF MergeInv
  <2>3. InStep' /\ Survived' /\ Kept'
    BY <1>1, <2>1, Frame DEF InStep, Survived, Kept, InProgress
  <2>4. Attempted'
    BY <1>1, <2>1, <2>2, Frame DEF Attempted, Progressed
  <2> QED BY <2>3, <2>4
<1> QED BY <1>2, <1>3, <1>4 DEF MergeInv

\* Steps that only write what is selected, and steps that do nothing.
LEMMA OutputInv ==
  ASSUME MergeInv, Selection', outer' = outer \/ (outer = "write" /\ outer' = "done"),
         UNCHANGED <<in, attempt, control, innerVars, atStart, interrupted, NewFiles>>
  PROVE  MergeInv'
<1> USE DEF innerVars
<1>1. /\ in' = in /\ buffer' = buffer /\ control' = control /\ Settled' = Settled
  BY DEF Settled
<1>2. Basics'
  BY <1>1, Frame DEF MergeInv, Basics, Done
<1>3. Control' /\ Bounded'
  BY <1>1, Frame DEF MergeInv, Control, Bounded
<1>4. ASSUME ~ Tearable' PROVE InStep' /\ Attempted' /\ Survived' /\ Kept'
  <2>1. InStep /\ Attempted /\ Survived /\ Kept
    BY <1>4 DEF MergeInv, Tearable
  <2>2. InStep'
    BY <1>1, <2>1, Frame DEF InStep, Done
  <2>3. Survived' /\ Kept'
    BY <1>1, <2>1, Frame DEF Survived, Kept, InProgress
  <2>4. Attempted'
    BY <1>1, <2>1, Frame DEF Attempted, Progressed
  <2> QED BY <2>2, <2>3, <2>4
<1> QED BY <1>2, <1>3, <1>4 DEF MergeInv

LEMMA WriteInv == ASSUME MergeInv, NEW i \in toWrite, Write(i) PROVE MergeInv'
<1>1. Selection'
  BY DEF Write, MergeInv, Selection
<1> QED BY <1>1, OutputInv DEF Write

LEMMA CleanupInv == ASSUME MergeInv, Cleanup PROVE MergeInv'
<1>1. Selection'
  BY DEF Cleanup, MergeInv, Selection
<1> QED BY <1>1, OutputInv DEF Cleanup

LEMMA StutterInv == ASSUME MergeInv, UNCHANGED vars PROVE MergeInv'
<1>1. Selection'
  BY DEF vars, MergeInv, Selection
<1> QED BY <1>1, OutputInv DEF vars, innerVars

\* The inner process dies.  No DONE line is torn, and without memory trouble it was
\* executing an input that crashes.
LEMMA DieInv ==
  ASSUME MergeInv, inner \in {"run", "next"}, NEW code \in Nat, Die(code),
         \/ interrupted' = interrupted /\ code # 0 /\ Progressed
         \/ interrupted' = TRUE /\ code = 0,
         ~ Tearable' => buffer = <<>> \/ in.long = {},
         in.hog = {} /\ ~ interrupted' => inner = "run" /\ cur \in in.crash
  PROVE  MergeInv'
<1> USE DEF Die
<1>1. /\ in' = in /\ in \in Corpora /\ in.n \in Nat /\ control' = control /\ buffer' = <<>>
      /\ Settled' = control /\ inner' = "exit" /\ exitCode' = code
  BY InTypes DEF MergeInv, Basics, Settled
<1>2. Basics'
  BY <1>1, Frame DEF MergeInv, Basics
<1>3. Control' /\ Bounded' /\ Selection'
  BY <1>1, Frame DEF MergeInv, Control, Bounded, Selection
<1>4. ASSUME ~ Tearable' PROVE InStep' /\ Attempted' /\ Survived' /\ Kept'
  <2>1. Basics /\ InStep /\ Attempted /\ Survived /\ Kept
    BY <1>1, <1>4 DEF MergeInv, Tearable
  <2>2. Settled = control
    <3>1. CASE buffer = <<>>
      BY <3>1 DEF Settled
    <3>2. CASE buffer # <<>> /\ in.long = {}
      <4>1. buffer = <<Done(cur - 1)>>
        BY <2>1, <3>2 DEF InStep
      <4>2. buffer[1].marker = "DONE"
        BY <4>1, LineFields
      <4> QED BY <4>2 DEF Settled
    <3> QED BY <1>4, <3>1, <3>2
  <2>3. InStep'
    BY <1>1, <2>1, <2>2, Frame DEF InStep
  <2>4. Attempted'
    <3>1. outer = "wait"
      BY DEF MergeInv, Control
    <3>2. Progressed => Len(control) > atStart /\ (Count(Settled) >= attempt \/ Count(Settled) = in.n)
      BY <2>1 DEF Attempted
    <3>3. Len(control) >= atStart /\ (Count(Settled) >= attempt - 1 \/ Count(Settled) = in.n)
      BY <2>1 DEF Attempted
    <3> QED BY <1>1, <2>2, <3>1, <3>2, <3>3, Frame DEF Attempted, Progressed
  <2>5. Survived'
    BY <1>1, <2>1, <2>2, Frame DEF Survived, InProgress, MergeInv, Control
  <2>6. Kept'
    BY <1>1 DEF Kept, MergeInv, Control
  <2> QED BY <2>3, <2>4, <2>5, <2>6
<1> QED BY <1>2, <1>3, <1>4 DEF MergeInv

LEMMA CrashInv == ASSUME MergeInv, Crash PROVE MergeInv'
<1>1. inner = "run" /\ cur \in in.crash /\ Die(77) /\ interrupted' = interrupted
  BY DEF Crash
<1>2. buffer = <<>> /\ Progressed
  BY <1>1 DEF MergeInv, Control, Progressed
<1>3. PICK code \in Nat : code = 77
  OBVIOUS
<1>4. Die(code) /\ code # 0
  BY <1>1, <1>3
<1> QED BY <1>1, <1>2, <1>4, DieInv

LEMMA OutOfMemoryInv == ASSUME MergeInv, OutOfMemory PROVE MergeInv'
<1>1. /\ inner \in {"run", "next"} /\ Die(77) /\ interrupted' = interrupted
      /\ hogged \/ (inner = "run" /\ cur \in in.hog)
  BY DEF OutOfMemory
<1>2. in.hog # {} /\ Progressed
  BY <1>1 DEF MergeInv, Basics, Progressed
<1>3. ~ Tearable' => in.long = {}
  BY <1>1, <1>2 DEF Die, Tearable
<1>4. PICK code \in Nat : code = 77
  OBVIOUS
<1>5. Die(code) /\ code # 0
  BY <1>1, <1>4
<1> QED BY <1>1, <1>2, <1>3, <1>5, DieInv

LEMMA InterruptInv == ASSUME MergeInv, InterruptInner PROVE MergeInv'
<1>1. inner \in {"run", "next"} /\ Die(0) /\ interrupted' = TRUE
  BY DEF InterruptInner
<1>2. ~ Tearable' => in.long = {}
  BY <1>1 DEF Die, Tearable
<1>3. 0 \in Nat
  OBVIOUS
<1> QED BY <1>1, <1>2, <1>3, DieInv

\* What a flush does in every case.
LEMMA FlushBasics ==
  ASSUME Basics
  PROVE  /\ Flushed \in Seq(Lines) /\ Count(Flushed) \in Nat /\ Count(Flushed) <= Count(control)
         /\ \A k \in 1..Len(Flushed) : Flushed[k].torn => Flushed[k].marker = "DONE"
<1>1. in \in Corpora /\ control \in Seq(Lines) /\ Count(control) \in Nat
  BY CountType DEF Basics
<1>2. CASE buffer = <<>>
  <2>1. Flushed = control
    BY <1>2 DEF Flushed
  <2> QED BY <1>1, <2>1 DEF Basics
<1>3. CASE buffer # <<>>
  <2>1. PICK i \in 1..in.n : buffer = <<Done(i)>> \/ buffer = <<Rest(i)>>
    BY <1>3 DEF Basics
  <2>2. {} \in SUBSET Features
    OBVIOUS
  <2>3. PICK x \in Lines : buffer[1] = x /\ x.marker # "STARTED" /\ x.torn = FALSE
    <3>1. Done(i) \in Lines /\ Rest(i) \in Lines
      BY <1>1, <2>2, LineTypes
    <3>2. buffer[1] = Done(i) \/ buffer[1] = Rest(i)
      BY <2>1
    <3>3. buffer[1] \in Lines /\ buffer[1].marker # "STARTED" /\ buffer[1].torn = FALSE
      BY <3>1, <3>2, LineFields
    <3> QED BY <3>3
  <2>4. Flushed = WriteLine(control, x)
    BY <1>3, <2>3 DEF Flushed
  <2>5. /\ Flushed \in Seq(Lines) /\ Count(Flushed) <= Count(control)
        /\ \A k \in 1..Len(Flushed) : Flushed[k].torn => Flushed[k].marker = "DONE"
    BY <1>1, <2>3, <2>4, WriteFacts DEF Basics
  <2> QED BY <2>5, CountType
<1> QED BY <1>2, <1>3

LEMMA StartInputInv == ASSUME MergeInv, StartInput PROVE MergeInv'
<1> USE DEF StartInput
<1>1. /\ in' = in /\ in \in Corpora /\ in.n \in Nat /\ buffer' = <<>> /\ Settled' = control'
      /\ cur \in 1..in.n /\ cur' = cur /\ Basics /\ outer = "wait" /\ Count(control) < cur
      /\ Count(control) \in Nat /\ inner = "next" /\ inner' = "run"
  BY InTypes DEF MergeInv, Basics, Control, Bounded, Settled
<1>2. Started(cur) \in Lines /\ Started(cur).marker = "STARTED" /\ Started(cur).torn = FALSE
  <2>1. {} \in SUBSET Features
    OBVIOUS
  <2> QED BY <1>1, <2>1, LineTypes, LineFields
<1>3. control' = WriteLine(Flushed, Started(cur))
  BY DEF PreRun
<1>4. /\ control' \in Seq(Lines) /\ Count(control') \in Nat /\ Count(control') <= cur
      /\ \A k \in 1..Len(control') : control'[k].torn => control'[k].marker = "DONE"
  <2>1. /\ Flushed \in Seq(Lines) /\ Count(Flushed) \in Nat /\ Count(Flushed) <= Count(control)
        /\ \A k \in 1..Len(Flushed) : Flushed[k].torn => Flushed[k].marker = "DONE"
    BY <1>1, FlushBasics
  <2>2. /\ control' \in Seq(Lines) /\ Count(control') <= Count(Flushed) + 1
        /\ \A k \in 1..Len(control') : control'[k].torn => control'[k].marker = "DONE"
    BY <1>1, <1>2, <1>3, <2>1, WriteFacts
  <2>3. Count(control') \in Nat
    BY <2>2, CountType
  <2> QED BY <1>1, <2>1, <2>2, <2>3
<1>5. Basics'
  BY <1>1, <1>4, Frame DEF Basics
<1>6. Control' /\ Bounded' /\ Selection'
  BY <1>1, <1>4, Frame DEF MergeInv, Control, Bounded, Selection
<1>7. ASSUME ~ Tearable' PROVE InStep' /\ Attempted' /\ Survived' /\ Kept'
  <2>1. InStep /\ Attempted /\ Survived
    BY <1>1, <1>7 DEF MergeInv, Tearable
  <2> DEFINE F == Flushed
             D == DoneIn(Settled)
  <2>2. /\ F \in Seq(Lines) /\ Clean(F) /\ Count(F) = cur - 1 /\ Len(F) >= Len(control)
        /\ F = <<>> \/ ~ Last(F).torn
        /\ DoneIn(F) = IF buffer = <<>> THEN D ELSE D \cup {cur - 1}
    BY <1>1, <2>1, FlushedFacts, SettledFacts DEF InStep
  <2>3. control' = Append(F, Started(cur))
    BY <1>3, <2>2 DEF WriteLine
  <2>4. Started(cur) = Started(Count(F) + 1) /\ Count(F) + 1 \in 1..in.n
    BY <1>1, <2>2
  <2>5. /\ Clean(control') /\ Count(control') = Count(F) + 1 /\ DoneIn(control') = DoneIn(F)
    BY <1>1, <2>2, <2>3, <2>4, CleanStarted
  <2>6. /\ Len(control') = Len(F) + 1 /\ Last(control') = Started(cur) /\ control' # <<>>
        /\ Len(F) \in Nat
    BY <1>2, <2>2, <2>3, AppendFacts DEF Appended
  <2>7. /\ DoneIn(F) \subseteq 1..(cur - 1) /\ DoneIn(F) \cap in.crash = {}
    BY <1>1, <2>1, <2>2 DEF Clean, InStep
  <2>8. InStep'
    BY <1>1, <2>2, <2>5, <2>6, <2>7, Frame DEF InStep
  <2>9. Attempted'
    <3>1. Count(Settled) = cur - 1
      BY <1>1, <2>1, SettledFacts DEF InStep
    <3>2. Len(control) >= atStart /\ cur >= attempt /\ Len(control) \in Nat
      BY <1>1, <2>1, <3>1 DEF Attempted, MergeInv, Control, Basics
    <3>3. Len(control') > atStart
      BY <1>1, <2>2, <2>6, <3>2 DEF Basics
    <3>4. Len(control') \in Nat /\ atStart \in Nat /\ Count(control') = cur /\ attempt \in Nat
      BY <1>1, <2>2, <2>5, <2>6 DEF Basics, MergeInv, Control
    <3> QED BY <1>1, <3>2, <3>3, <3>4, Frame DEF Attempted, Progressed
  <2>10. Survived'
    <3> SUFFICES ASSUME in.hog = {}, ~ interrupted
        PROVE  1..cur \subseteq DoneIn(control') \cup in.crash \cup InProgress'
      BY <1>1, <2>2, <2>5, Frame DEF Survived
    <3>1. 1..(cur - 1) \subseteq D \cup in.crash \cup InProgress
      BY <1>1, <2>1, SettledFacts DEF Survived, InStep
    <3>2. InProgress = IF buffer = <<>> THEN {} ELSE {i \in 1..in.n : i = cur - 1}
      BY <1>1 DEF InProgress
    <3>3. cur \in InProgress'
      BY <1>1 DEF InProgress
    <3>4. 1..cur = (1..(cur - 1)) \cup {cur}
      BY <1>1
    <3> HIDE DEF D
    <3> QED BY <2>2, <2>5, <3>1, <3>2, <3>3, <3>4
  <2>11. Kept'
    BY <1>1 DEF Kept
  <2> QED BY <2>8, <2>9, <2>10, <2>11
<1> QED BY <1>5, <1>6, <1>7 DEF MergeInv

LEMMA ReturnInv == ASSUME MergeInv, NEW code \in {0, 23}, Return(code) PROVE MergeInv'
<1> USE DEF Return
<1>1. /\ in' = in /\ in \in Corpora /\ in.n \in Nat /\ buffer' = <<>> /\ Settled' = control'
      /\ cur = in.n + 1 /\ cur' = cur /\ Basics /\ outer = "wait" /\ outer' = outer
      /\ inner = "next" /\ inner' = "exit" /\ control' = Flushed /\ exitCode' = code /\ code \in Nat
      /\ Count(control) \in 0..in.n
  BY InTypes DEF MergeInv, Basics, Control, Bounded, Settled
<1>2. /\ Flushed \in Seq(Lines) /\ Count(Flushed) \in Nat /\ Count(Flushed) <= Count(control)
      /\ \A k \in 1..Len(Flushed) : Flushed[k].torn => Flushed[k].marker = "DONE"
  BY <1>1, FlushBasics
<1>3. Basics'
  BY <1>1, <1>2, Frame DEF Basics
<1>4. Control' /\ Bounded' /\ Selection'
  BY <1>1, <1>2, Frame DEF MergeInv, Control, Bounded, Selection
<1>5. ASSUME ~ Tearable' PROVE InStep' /\ Attempted' /\ Survived' /\ Kept'
  <2>1. InStep /\ Attempted /\ Survived
    BY <1>1, <1>5 DEF MergeInv, Tearable
  <2> DEFINE F == Flushed
             D == DoneIn(Settled)
  <2>2. /\ Clean(F) /\ Count(F) = in.n /\ Len(F) >= Len(control)
        /\ DoneIn(F) = IF buffer = <<>> THEN D ELSE D \cup {cur - 1}
    BY <1>1, <2>1, FlushedFacts, SettledFacts DEF InStep
  <2>3. InStep'
    BY <1>1, <2>1, <2>2, Frame DEF InStep
  <2>4. Attempted'
    <3>1. Len(F) >= atStart
      BY <1>1, <1>2, <2>1, <2>2 DEF Attempted, Basics
    <3> QED BY <1>1, <2>2, <3>1, Frame DEF Attempted, Progressed
  <2>5. Survived'
    <3> SUFFICES ASSUME in.hog = {}, ~ interrupted PROVE 1..in.n \subseteq DoneIn(F) \cup in.crash
      BY <1>1, <2>2, Frame DEF Survived
    <3>1. 1..in.n \subseteq D \cup in.crash \cup InProgress
      BY <1>1, <2>1, SettledFacts DEF Survived, InStep
    <3>2. InProgress = IF buffer = <<>> THEN {} ELSE {i \in 1..in.n : i = cur - 1}
      BY <1>1 DEF InProgress
    <3> HIDE DEF D, F
    <3> QED BY <2>2, <3>1, <3>2
  <2>6. Kept'
    BY <1>1 DEF Kept
  <2> QED BY <2>3, <2>4, <2>5, <2>6
<1> QED BY <1>3, <1>4, <1>5 DEF MergeInv

\* The target has returned; the DONE line is in the buffer, or the beginning of it in
\* the control file.
LEMMA AfterInput ==
  ASSUME MergeInv, Selection', in' = in, inner = "run", inner' = "next", outer' = outer,
         attempt' = attempt, exitCode' = exitCode, interrupted' = interrupted, atStart' = atStart,
         hogged' = (hogged \/ cur \in in.hog), cur' = cur + 1, cur \notin in.crash,
         control' \in Seq(Lines), Count(control') <= Count(control),
         \A k \in 1..Len(control') : control'[k].torn => control'[k].marker = "DONE",
         buffer' = <<Done(cur)>> \/ buffer' = <<Rest(cur)>>,
         Clean(control) =>
           /\ Settled' = control /\ Len(control') >= Len(control) /\ Count(control') = Count(control)
           /\ \/ buffer' = <<Done(cur)>>
              \/ /\ buffer' = <<Rest(cur)>> /\ in.long # {}
                 /\ \E f \in SUBSET Features : control' = Append(control, Torn(cur, f))
  PROVE  MergeInv'
<1>1. /\ Basics /\ in \in Corpora /\ in.n \in Nat /\ cur \in 1..in.n /\ outer = "wait"
      /\ buffer = <<>> /\ Settled = control /\ attempt \in Nat
      /\ Count(control) \in Nat /\ Count(control) <= cur /\ Count(control) <= in.n
      /\ Count(control') \in Nat /\ Len(control) \in Nat /\ Len(control') \in Nat /\ atStart \in Nat
      /\ cur' - 1 = cur
  BY InTypes, CountType DEF MergeInv, Basics, Control, Bounded, Settled
<1>2. buffer' # <<>>
  OBVIOUS
<1>3. Basics'
  BY <1>1, Frame DEF Basics, Done, Rest
<1>4. Control' /\ Bounded'
  BY <1>1, Frame DEF MergeInv, Control, Bounded
<1>5. ASSUME ~ Tearable' PROVE InStep' /\ Attempted' /\ Survived' /\ Kept'
  <2>1. InStep /\ Attempted /\ Survived
    BY <1>5 DEF MergeInv, Tearable
  <2>2. /\ Clean(control) /\ cur = Count(control) /\ control # <<>> /\ Last(control) = Started(cur)
        /\ cur \notin DoneIn(control) /\ DoneIn(control) \cap in.crash = {}
    BY <1>1, <2>1 DEF InStep
  <2>3. InStep'
    BY <1>1, <1>2, <2>2, Frame DEF InStep, Done, Rest, Torn
  <2>4. Attempted'
    <3>1. Len(control) > atStart /\ (Count(control) >= attempt \/ Count(control) = in.n)
      BY <1>1, <2>1 DEF Attempted, Progressed
    <3> QED BY <1>1, <2>2, <3>1, Frame DEF Attempted, Progressed
  <2>5. Survived'
    <3>1. InProgress' = InProgress
      BY <1>1, <1>2 DEF InProgress
    <3> QED BY <1>1, <2>1, <2>2, <3>1, Frame DEF Survived
  <2>6. Kept'
    BY <1>1 DEF Kept
  <2> QED BY <2>3, <2>4, <2>5, <2>6
<1> QED BY <1>3, <1>4, <1>5 DEF MergeInv

LEMMA FinishInputInv == ASSUME MergeInv, FinishInput PROVE MergeInv'
<1>1. /\ in' = in /\ in \in Corpora /\ in.n \in Nat /\ inner = "run" /\ inner' = "next"
      /\ outer = "wait" /\ outer' = "wait" /\ attempt' = attempt /\ attempt \in Nat
      /\ exitCode' = exitCode /\ interrupted' = interrupted /\ hogged' = (hogged \/ cur \in in.hog)
      /\ cur \in 1..in.n /\ cur' = cur + 1 /\ cur \notin in.crash /\ buffer = <<>>
      /\ control \in Seq(Lines) /\ Settled = control /\ Basics /\ Count(control) \in Nat
      /\ atStart' = atStart /\ Count(control) <= cur /\ in.feats[cur] \subseteq Features
  BY InTypes, CountType DEF FinishInput, MergeInv, Basics, Control, Bounded, Settled
<1>2. UNCHANGED <<NewFiles, toWrite, written>>
  BY DEF FinishInput
<1>3. Selection'
  BY <1>1, <1>2 DEF MergeInv, Selection
<1>4. CASE control' = control /\ buffer' = <<Done(cur)>>
  <2>1. buffer'[1] = Done(cur)
    BY <1>4
  <2>2. Settled' = control
    BY <1>4, <2>1, LineFields DEF Settled
  <2> QED BY <1>1, <1>3, <1>4, <2>2, AfterInput DEF Basics
<1>5. ASSUME NEW f \in TornFeatures(cur), cur \in in.long, control' = WriteLine(control, Torn(cur, f)),
             buffer' = <<Rest(cur)>>
      PROVE  MergeInv'
  <2>1. f \in SUBSET Features
    BY <1>1 DEF TornFeatures
  <2>2. Torn(cur, f) \in Lines /\ Torn(cur, f).marker = "DONE"
    BY <1>1, <2>1, LineTypes, TornFields
  <2>3. /\ control' \in Seq(Lines) /\ Count(control') <= Count(control)
        /\ \A k \in 1..Len(control') : control'[k].torn => control'[k].marker = "DONE"
    BY <1>1, <1>5, <2>2, WriteFacts DEF Basics
  <2>4. ASSUME Clean(control)
        PROVE  /\ Settled' = control /\ Len(control') >= Len(control) /\ Count(control') = Count(control)
               /\ control' = Append(control, Torn(cur, f))
    <3>1. control' = Append(control, Torn(cur, f))
      BY <1>1, <1>5, <2>4, CleanEnd DEF WriteLine
    <3>2. TornBehind(control, control')
      BY <1>1, <2>1, <3>1, TornTail
    <3>3. buffer' # <<>> /\ buffer'[1] = Rest(cur)
      BY <1>5
    <3>4. Settled' = Front(control')
      BY <3>3, LineFields DEF Settled
    <3> QED BY <1>1, <3>1, <3>2, <3>4 DEF TornBehind
  <2> QED BY <1>1, <1>3, <1>5, <2>1, <2>3, <2>4, AfterInput
<1> QED BY <1>4, <1>5 DEF FinishInput

-----------------------------------------------------------------------------
(* Merger::Merge *)

\* A set of numbers that is not empty has a least one.
LEMMA LeastOf ==
  ASSUME NEW K \in SUBSET Nat, K # {} PROVE \E k \in K : \A j \in K : k <= j
<1> DEFINE LT == OpToRel(<, Nat)
<1>1. IsWellFoundedOn(LT, Nat)
  BY NatLessThanWellFounded
<1>2. \A j, k \in Nat : j < k => <<j, k>> \in LT
  BY DEF OpToRel
<1> HIDE DEF LT
<1>3. PICK k \in K : \A j \in K : ~ (<<j, k>> \in LT)
  BY <1>1, WFMin
<1>4. \A j \in K : ~ (j < k)
  BY <1>2, <1>3
<1> QED BY <1>3, <1>4

\* The parser finds the features of the inputs with a DONE line, and no others.
LEMMA ParsedIsDone ==
  ASSUME NEW L \in Seq(Lines), Clean(L), NEW i \in 1..in.n
  PROVE  ParsedFeatures(L, i) = IF i \in DoneIn(L) THEN in.feats[i] ELSE {}
<1> DEFINE K == {k \in 1..Len(L) : L[k].marker = "DONE" /\ L[k].id = i}
<1>1. \A k \in 1..Len(L) : L[k].marker = "DONE" /\ L[k].id = i <=> L[k] = Done(i)
  <2> SUFFICES ASSUME NEW k \in 1..Len(L), L[k].marker = "DONE", L[k].id = i PROVE L[k] = Done(i)
    BY LineFields
  <2>1. LineOK(L, k)
    BY DEF Clean
  <2> QED BY <2>1, LineFields DEF LineOK
<1>2. ParsedFeatures(L, i) = UNION {L[k].feats : k \in K}
  BY DEF ParsedFeatures
<1>3. \A k \in K : L[k].feats = in.feats[i]
  BY <1>1, LineFields
<1>4. i \in DoneIn(L) <=> K # {}
  BY <1>1 DEF DoneIn
<1> QED BY <1>2, <1>3, <1>4

\* An order of the inputs that are not in the first corpus has each of them.
LEMMA OrderFacts ==
  ASSUME in \in Corpora, NEW L, NEW s \in Orders(L)
  PROVE  /\ Len(s) \in Nat
         /\ \A k \in 1..Len(s) : s[k] \in (in.first + 1)..in.n
         /\ \A i \in (in.first + 1)..in.n : \E k \in 1..Len(s) : s[k] = i
         /\ \A j, k \in 1..Len(s) : j < k => MayPrecede(L, s[j], s[k])
<1> DEFINE A == (in.first + 1)..in.n
           m == Cardinality(A)
<1>1. in.n \in Nat /\ in.first \in 0..in.n
  BY InTypes
<1>2. IsFiniteSet(A) /\ m \in Nat
  <2>1. in.first + 1 \in Int /\ in.n \in Int
    BY <1>1
  <2>2. IsFiniteSet(A)
    BY <2>1, FS_Interval
  <2> HIDE DEF A
  <2> QED BY <2>2, FS_CardinalityType
<1>3. /\ s \in [1..m -> A] /\ \A j, k \in 1..m : j # k => s[j] # s[k]
      /\ \A j, k \in 1..Len(s) : j < k => MayPrecede(L, s[j], s[k])
  BY DEF Orders, SetToSeqs
<1> HIDE DEF A, m
<1>4. s \in Seq(A) /\ Len(s) = m
  <2>1. s \in Seq(A)
    BY <1>2, <1>3, SeqDef
  <2> QED BY <1>2, <1>3, <2>1, LenProperties
<1>5. s \in Injection(1..m, A)
  BY <1>3 DEF Injection, IsInjective
<1>6. Cardinality(1..m) = m
  BY <1>2, FS_Interval
<1>7. s \in Surjection(1..m, A)
  BY <1>2, <1>5, <1>6, FS_Injection DEF m
<1>8. \A i \in A : \E k \in 1..m : s[k] = i
  BY <1>7 DEF Surjection
<1> QED BY <1>2, <1>3, <1>4, <1>8 DEF A

\* What Merge promises: of the inputs D whose features are known it adds inputs R to
\* the first corpus, so that each new feature comes with a smallest input that has it,
\* and each added input is for some feature a smallest one.
Feats(S) == UNION {in.feats[i] : i \in S}

Greedy(D, R) ==
  /\ R \subseteq D \ (1..in.first)
  /\ \A f \in Feats(D) \ Feats(D \cap 1..in.first) :
       \E r \in R : /\ f \in in.feats[r]
                    /\ \A i \in D : f \in in.feats[i] => in.size[r] <= in.size[i]
  /\ \A r \in R : \E f \in in.feats[r] \ Feats(D \cap 1..in.first) :
       \A q \in R : f \in in.feats[q] => in.size[r] <= in.size[q]

\* The position k of an order is selected, because of the feature f.
Adds(L, s, k, f) == f \in NewFeatures(L, s[k]) /\ \A j \in 1..(k-1) : f \notin NewFeatures(L, s[j])

LEMMA SelectedFacts ==
  ASSUME NEW L, NEW s
  PROVE  \A r : r \in Selected(L, s) <=> \E k \in 1..Len(s) : r = s[k] /\ \E f : Adds(L, s, k, f)
BY DEF Selected, Adds

LEMMA GreedyMerge ==
  ASSUME in \in Corpora, NEW L \in Seq(Lines), Clean(L), NEW s \in Orders(L)
  PROVE  Greedy(DoneIn(L), Selected(L, s))
<1> DEFINE D == DoneIn(L)
           R == Selected(L, s)
           F == Feats(D \cap 1..in.first)
<1>1. in.n \in Nat /\ in.first \in 0..in.n /\ in.size \in [1..in.n -> Nat] /\ D \subseteq 1..in.n
  BY InTypes DEF DoneIn
<1>2. \A i \in 1..in.n : ParsedFeatures(L, i) = IF i \in D THEN in.feats[i] ELSE {}
  BY ParsedIsDone
<1>3. InitialFeatures(L) = F
  <2>1. \A i \in 1..in.first : i \in 1..in.n
    BY <1>1
  <2>2. \A f : (\E i \in 1..in.first : f \in ParsedFeatures(L, i))
                <=> (\E i \in D \cap 1..in.first : f \in in.feats[i])
    BY <1>2, <2>1
  <2> QED BY <2>2 DEF InitialFeatures, Feats
<1>4. \A i \in 1..in.n : \A f : f \in NewFeatures(L, i) <=> i \in D /\ f \in in.feats[i] /\ f \notin F
  <2> HIDE DEF F, D
  <2> QED BY <1>2, <1>3 DEF NewFeatures
<1>5. \A i \in D : ParsedSize(L, i) = in.size[i] /\ in.size[i] \in Nat
  <2>1. FirstNotProcessedFile(L) = Count(L) + 1 /\ Count(L) \in Nat
    BY CountType DEF FirstNotProcessedFile, Count
  <2>2. D \subseteq 1..Count(L)
    BY DEF Clean
  <2>3. \A i \in D : i < FirstNotProcessedFile(L)
    BY <2>1, <2>2
  <2> QED BY <1>1, <2>3 DEF ParsedSize
<1>6. /\ Len(s) \in Nat
      /\ \A k \in 1..Len(s) : s[k] \in (in.first + 1)..in.n
      /\ \A i \in (in.first + 1)..in.n : \E k \in 1..Len(s) : s[k] = i
      /\ \A j, k \in 1..Len(s) : j < k => MayPrecede(L, s[j], s[k])
  BY OrderFacts
<1>7. \A k \in 1..Len(s) : s[k] \in 1..in.n /\ s[k] \notin 1..in.first
  BY <1>1, <1>6
<1>8. ASSUME NEW j \in 1..Len(s), NEW k \in 1..Len(s), j <= k, s[j] \in D, s[k] \in D
      PROVE  in.size[s[j]] <= in.size[s[k]]
  <2>1. CASE j = k
    BY <1>5, <1>8, <2>1
  <2>2. CASE j < k
    <3>1. ParsedSize(L, s[j]) <= ParsedSize(L, s[k])
      <4>1. MayPrecede(L, s[j], s[k])
        BY <1>6, <2>2
      <4>2. ParsedSize(L, s[j]) \in Nat /\ ParsedSize(L, s[k]) \in Nat
        BY <1>5, <1>8
      <4> QED BY <4>1, <4>2 DEF MayPrecede
    <3> QED BY <1>5, <1>8, <3>1
  <2> QED BY <1>6, <1>8, <2>1, <2>2
<1>9. \A i \in D \ (1..in.first) : \E k \in 1..Len(s) : s[k] = i
  <2>1. \A i \in D \ (1..in.first) : i \in (in.first + 1)..in.n
    BY <1>1
  <2> QED BY <1>6, <2>1
<1>10. \A i \in D \cap 1..in.first : in.feats[i] \subseteq F
  BY DEF Feats
<1>11. \A f \in Feats(D) : \E i \in D : f \in in.feats[i]
  BY DEF Feats
<1>12. \A r \in R : \E k \in 1..Len(s) : r = s[k] /\ \E f : Adds(L, s, k, f)
  BY SelectedFacts
<1>13. ASSUME NEW k \in 1..Len(s), NEW f, Adds(L, s, k, f) PROVE s[k] \in R
  BY <1>13, SelectedFacts
<1> HIDE DEF D, R, F
<1>14. R \subseteq D \ (1..in.first)
  BY <1>4, <1>7, <1>12 DEF Adds
<1>15. ASSUME NEW f \in Feats(D) \ F
       PROVE  \E r \in R : /\ f \in in.feats[r]
                           /\ \A i \in D : f \in in.feats[i] => in.size[r] <= in.size[i]
  <2> DEFINE K == {k \in 1..Len(s) : f \in NewFeatures(L, s[k])}
  <2>1. ASSUME NEW i \in D, f \in in.feats[i] PROVE \E k \in K : s[k] = i
    <3>1. i \notin 1..in.first
      BY <1>10, <1>15, <2>1
    <3>2. PICK k \in 1..Len(s) : s[k] = i
      BY <1>9, <3>1
    <3>3. f \in NewFeatures(L, s[k])
      BY <1>4, <1>7, <1>15, <2>1, <3>2
    <3> QED BY <3>2, <3>3
  <2>2. K \in SUBSET Nat /\ K # {}
    BY <1>6, <1>11, <2>1
  <2>3. PICK k \in K : \A j \in K : k <= j
    BY <2>2, LeastOf
  <2>4. Adds(L, s, k, f)
    <3>1. \A j \in 1..(k-1) : j \in 1..Len(s) /\ ~ (k <= j)
      BY <1>6
    <3> QED BY <2>3, <3>1 DEF Adds
  <2>5. s[k] \in R /\ s[k] \in D /\ f \in in.feats[s[k]]
    BY <1>4, <1>7, <1>13, <2>4
  <2>6. ASSUME NEW i \in D, f \in in.feats[i] PROVE in.size[s[k]] <= in.size[i]
    <3>1. PICK j \in K : s[j] = i
      BY <2>1, <2>6
    <3> QED BY <1>8, <2>3, <2>5, <3>1
  <2> QED BY <2>5, <2>6
<1>16. ASSUME NEW r \in R
       PROVE  \E f \in in.feats[r] \ F : \A q \in R : f \in in.feats[q] => in.size[r] <= in.size[q]
  <2>1. PICK k \in 1..Len(s) : r = s[k] /\ \E f : Adds(L, s, k, f)
    BY <1>12
  <2>2. PICK f : Adds(L, s, k, f)
    BY <2>1
  <2>3. r \in D /\ f \in in.feats[r] \ F
    BY <1>4, <1>7, <2>1, <2>2 DEF Adds
  <2>4. ASSUME NEW q \in R, f \in in.feats[q] PROVE in.size[r] <= in.size[q]
    <3>1. PICK j \in 1..Len(s) : q = s[j]
      BY <1>12
    <3>2. q \in D /\ f \in NewFeatures(L, s[j])
      BY <1>4, <1>7, <1>14, <2>3, <2>4, <3>1
    <3>3. k <= j
      <4>1. j \notin 1..(k-1)
        BY <2>2, <3>2 DEF Adds
      <4> QED BY <1>6, <4>1
    <3> QED BY <1>8, <2>1, <2>3, <3>1, <3>2, <3>3
  <2> QED BY <2>3, <2>4
<1> QED BY <1>14, <1>15, <1>16 DEF Greedy, D, R, F

LEMMA MergeStepInv == ASSUME MergeInv, Merge PROVE MergeInv'
<1> USE DEF innerVars
<1>1. /\ in' = in /\ in \in Corpora /\ in.n \in Nat /\ inner = "none" /\ buffer = <<>>
      /\ Settled = control /\ Settled' = control /\ control \in Seq(Lines)
  BY InTypes DEF Merge, MergeInv, Basics, Control, Settled
<1>2. PICK s \in Orders(control) : NewFiles' = Selected(control, s)
  BY DEF Merge
<1>3. NewFiles' \subseteq 1..in.n
  <2>1. \A k \in 1..Len(s) : s[k] \in 1..in.n
    BY <1>1, InTypes, OrderFacts
  <2> QED BY <1>2, <2>1, SelectedFacts
<1>4. Selection'
  BY <1>1, <1>3 DEF Merge, MergeInv, Selection
<1>5. Basics'
  BY <1>1, Frame DEF Merge, MergeInv, Basics, Done
<1>6. Control' /\ Bounded'
  BY <1>1, Frame DEF Merge, MergeInv, Control, Bounded
<1>7. ASSUME ~ Tearable' PROVE InStep' /\ Attempted' /\ Survived' /\ Kept'
  <2>1. InStep /\ Attempted /\ Survived
    BY <1>7 DEF Merge, MergeInv, Tearable
  <2>2. InStep' /\ Survived'
    BY <1>1, <2>1, Frame DEF Merge, InStep, Survived, InProgress
  <2>3. Attempted'
    BY <1>1, <2>1, Frame DEF Merge, Attempted, Progressed
  <2>4. Greedy(DoneIn(control), NewFiles')
    BY <1>1, <1>2, <2>1, GreedyMerge DEF InStep
  <2>5. Feats(DoneIn(control)) \subseteq Feats((DoneIn(control) \cap 1..in.first) \cup NewFiles')
    <3>1. \A S, T : \A f : f \in Feats(S) \/ (\E r \in T : f \in in.feats[r]) => f \in Feats(S \cup T)
      BY DEF Feats
    <3> QED BY <2>4, <3>1 DEF Greedy
  <2>6. NewFiles' \subseteq DoneIn(control)
    BY <2>4 DEF Greedy
  <2>7. Kept'
    <3>1. DoneIn(control') = DoneIn(control) /\ DoneIn(control)' = DoneIn(control)
      BY <1>1, Frame DEF Merge
    <3> QED BY <1>1, <2>5, <2>6, <3>1 DEF Kept, Feats
  <2> QED BY <2>2, <2>3, <2>7
<1> QED BY <1>4, <1>5, <1>6, <1>7 DEF MergeInv

-----------------------------------------------------------------------------
(* The theorems *)

LEMMA MergeInvStep == MergeInv /\ [Next]_vars => MergeInv'
<1> SUFFICES ASSUME MergeInv, [Next]_vars PROVE MergeInv'
  OBVIOUS
<1>1. CASE Inner
  BY <1>1, StartInputInv, FinishInputInv, CrashInv, OutOfMemoryInv, ReturnInv DEF Inner
<1>2. CASE InterruptInner
  BY <1>2, InterruptInv
<1>3. CASE Outer
  BY <1>3, LaunchInv, AttemptsExhaustedInv, ReapInv, MergeStepInv, ParseFailsInv, WriteInv,
     CleanupInv DEF Outer
<1>4. CASE Stopped \/ UNCHANGED vars
  BY <1>4, StutterInv DEF Stopped
<1> QED BY <1>1, <1>2, <1>3, <1>4 DEF Next

\* The processes keep the invariant, in every interleaving of their steps and
\* however the inner processes end.
THEOREM MergeInvariant == Spec => []MergeInv
BY MergeInitInv, MergeInvStep, PTL DEF Spec

\* The state of the merge has its types; the inner process runs only while the outer
\* one waits for it, and neither loop runs past the number of inputs.
THEOREM MergeTypeCorrect == Spec => []MergeTypeOK
<1>1. MergeInv => MergeTypeOK
  <2> SUFFICES ASSUME MergeInv PROVE MergeTypeOK
    OBVIOUS
  <2>1. in \in Corpora /\ control \in Seq(Lines)
    BY DEF MergeInv, Basics
  <2>2. \A k \in 1..Len(control) : control[k] \in Lines
    BY <2>1
  <2>3. \A k \in 1..Len(buffer) : buffer[k] \in Lines
    <3>1. CASE buffer = <<>>
      BY <3>1
    <3>2. CASE \E i \in 1..in.n : buffer = <<Done(i)>> \/ buffer = <<Rest(i)>>
      <4>1. PICK i \in 1..in.n : buffer = <<Done(i)>> \/ buffer = <<Rest(i)>>
        BY <3>2
      <4>2. {} \in SUBSET Features
        OBVIOUS
      <4>3. Done(i) \in Lines /\ Rest(i) \in Lines
        BY <2>1, <4>2, LineTypes
      <4> QED BY <4>1, <4>3
    <3> QED BY <3>1, <3>2 DEF MergeInv, Basics
  <2>4. toWrite \subseteq NewFiles /\ written \subseteq NewFiles /\ NewFiles \subseteq 1..in.n
    BY DEF MergeInv, Selection
  <2>5. /\ outer \in {"launch", "wait", "merge", "write", "done", "failed"}
        /\ inner \in {"none", "next", "run", "exit"}
        /\ (inner # "none") <=> (outer = "wait")
        /\ attempt \in 1..(in.n + 1)
        /\ cur \in 0..(in.n + 1)
    BY DEF MergeInv, Control
  <2> QED BY <2>2, <2>3, <2>4, <2>5 DEF MergeTypeOK, Lines
<1> QED BY <1>1, MergeInvariant, PTL

\* The control file can be read whenever a process reads it, whatever the inner
\* processes have left in it, so that ParseOrExit ends no process, unless there
\* is nothing to merge or a process can die while a DONE line is torn.
THEOREM ControlFileAlwaysParses == Spec => []ControlFileParses
<1>1. MergeInv => ControlFileParses
  <2> SUFFICES ASSUME MergeInv, ~ Tearable PROVE (in.n > 0 => Parses(control)) /\ (outer = "failed" => in.n = 0)
    BY DEF ControlFileParses
  <2>1. Basics /\ InStep /\ Attempted
    BY DEF MergeInv
  <2> QED BY <2>1, InStepParses DEF Attempted
<1> QED BY <1>1, MergeInvariant, PTL

\* An inner process that fails has added a line to the control file, or every input
\* had been started before: the outer loop needs no more attempts than inputs.
THEOREM AttemptsAlwaysProgress == Spec => []EveryAttemptProgresses
<1>1. MergeInv => EveryAttemptProgresses
  <2> SUFFICES ASSUME MergeInv, inner = "exit", exitCode # 0, ~ Tearable
      PROVE  Len(control) > atStart \/ MarkedStarted = 1..in.n
    BY DEF EveryAttemptProgresses
  <2>1. Basics /\ InStep /\ Attempted
    BY DEF MergeInv
  <2>2. MarkedStarted = 1..Count(Settled)
    BY <2>1, SettledFacts
  <2> QED BY <2>1, <2>2 DEF Attempted
<1> QED BY <1>1, MergeInvariant, PTL

\* Without memory trouble or an interrupt, the inputs without a DONE line are exactly
\* those that crash: no DONE line is lost in a stream's buffer.
THEOREM OnlyCrashersEverLost == Spec => []OnlyCrashersLost
<1>1. MergeInv => OnlyCrashersLost
  <2> SUFFICES ASSUME MergeInv, Merging, in.hog = {} PROVE (1..in.n) \ MarkedDone = in.crash
    BY DEF OnlyCrashersLost
  <2>1. ~ interrupted /\ outer \in {"merge", "write", "done"} /\ ~ Tearable
    BY DEF Merging, Tearable
  <2>2. Basics /\ Control /\ InStep /\ Attempted /\ Survived
    BY <2>1 DEF MergeInv
  <2>3. MarkedDone = DoneIn(Settled) /\ Count(Settled) = in.n
    BY <2>1, <2>2, SettledFacts DEF Attempted
  <2>4. InProgress = {}
    BY <2>1, <2>2 DEF Control, InProgress
  <2>5. 1..in.n \subseteq DoneIn(Settled) \cup in.crash
    BY <2>1, <2>2, <2>3, <2>4 DEF Survived
  <2>6. DoneIn(Settled) \cap in.crash = {} /\ in.crash \subseteq 1..in.n
    BY <2>2, InTypes DEF InStep, Basics
  <2> QED BY <2>3, <2>5, <2>6
<1> QED BY <1>1, MergeInvariant, PTL

\* When the merge is done, the first corpus with what was written to it has every
\* feature of every input that was executed, for every order std::sort may choose.
THEOREM FeaturesNeverLost == Spec => []NoFeatureLost
<1>1. MergeInv => NoFeatureLost
  <2> SUFFICES ASSUME MergeInv, outer = "done", ~ Tearable
      PROVE  Feats(MarkedDone) = Feats((MarkedDone \cap 1..in.first) \cup written)
    BY DEF NoFeatureLost, Feats
  <2>1. Basics /\ InStep /\ Kept /\ Selection
    BY DEF MergeInv
  <2>2. MarkedDone = DoneIn(control)
    BY <2>1, SettledFacts
  <2>3. written = NewFiles
    BY <2>1 DEF Selection
  <2>4. NewFiles \subseteq MarkedDone
    BY <2>1, <2>2 DEF Kept
  <2>5. Feats(MarkedDone) \subseteq Feats((MarkedDone \cap 1..in.first) \cup NewFiles)
    BY <2>1, <2>2 DEF Kept, Feats
  <2>6. Feats((MarkedDone \cap 1..in.first) \cup NewFiles) \subseteq Feats(MarkedDone)
    BY <2>4 DEF Feats
  <2> QED BY <2>3, <2>5, <2>6
<1> QED BY <1>1, MergeInvariant, PTL

-----------------------------------------------------------------------------
(* The abstract merge *)

\* The verdicts, when the inputs D have a DONE line, the first c a STARTED line, and
\* an inner process is busy with the inputs P.
VerdictOf(D, c, P) ==
  [i \in 1..in.n |-> IF i \in D THEN "done"
                     ELSE IF i \in 1..c /\ i \notin P THEN "failed" ELSE "pending"]

\* In scope, no line is torn.
LEMMA ScopeFacts ==
  ASSUME MergeInv, InScope
  PROVE  /\ ~ Tearable /\ InStep /\ Basics /\ Settled = control /\ Clean(control)
         /\ in \in Corpora /\ in.n \in Nat /\ Count(control) \in 0..in.n
         /\ DoneIn(control) \subseteq 1..Count(control)
         /\ Verdict = VerdictOf(DoneIn(control), Count(control), InProgress)
<1>1. ~ Tearable /\ InStep /\ Basics /\ in \in Corpora /\ in.n \in Nat /\ Count(control) \in 0..in.n
  BY InTypes DEF MergeInv, Basics, Bounded, Tearable, InScope
<1>2. Settled = control
  <2>1. CASE buffer = <<>>
    BY <1>1, <2>1, SettledFacts
  <2>2. CASE buffer # <<>>
    <3>1. buffer = <<Done(cur - 1)>>
      BY <1>1, <2>2 DEF InStep, InScope
    <3>2. buffer[1] = Done(cur - 1)
      BY <3>1
    <3> QED BY <3>2, LineFields DEF Settled
  <2> QED BY <2>1, <2>2
<1>3. Clean(control) /\ DoneIn(control) \subseteq 1..Count(control)
  BY <1>1, <1>2 DEF InStep, Clean
<1>4. MarkedStarted = 1..Count(control) /\ MarkedDone = DoneIn(control)
  BY <1>1, <1>2, SettledFacts
<1>5. Verdict = VerdictOf(DoneIn(control), Count(control), InProgress)
  BY <1>4 DEF Verdict, VerdictOf, InScope
<1> QED BY <1>1, <1>2, <1>3, <1>5

LEMMA ScopeVerdict ==
  MergeInv /\ InScope => Verdict = VerdictOf(DoneIn(control), Count(control), InProgress)
BY ScopeFacts

LEMMA ScopeVerdictNext ==
  MergeInv' /\ InScope' => (Verdict = VerdictOf(DoneIn(control), Count(control), InProgress))'
BY ScopeVerdict, PTL

LEMMA ScopeFactsNext ==
  ASSUME MergeInv', InScope', in' = in
  PROVE  Verdict' = VerdictOf(DoneIn(control'), Count(control'), InProgress')
<1>1. DoneIn(control)' = DoneIn(control') /\ Count(control)' = Count(control')
  BY Frame DEF DoneIn, Count, StartedBefore, Done
<1> QED BY <1>1, ScopeVerdictNext DEF VerdictOf

\* The input an inner process is busy with has no verdict yet.
LEMMA BusyFacts ==
  ASSUME MergeInv, InScope
  PROVE  /\ inner = "run" => /\ InProgress = {cur} /\ cur \in 1..in.n /\ cur = Count(control)
                             /\ cur \notin DoneIn(control) /\ buffer = <<>>
         /\ inner = "next" => cur = Count(control) + 1
         /\ buffer # <<>> => /\ InProgress = {cur - 1} /\ cur - 1 \in 1..in.n /\ inner = "next"
                             /\ cur - 1 = Count(control) /\ cur - 1 \notin DoneIn(control)
         /\ inner # "run" /\ buffer = <<>> => InProgress = {}
<1>1. InStep /\ Basics /\ Control /\ Settled = control /\ Count(control) \in 0..in.n /\ in.n \in Nat
  BY ScopeFacts DEF MergeInv
<1>2. CASE inner = "run"
  <2>1. buffer = <<>> /\ cur \in 1..in.n
    BY <1>1, <1>2 DEF Control
  <2>2. cur = Count(control) /\ cur \notin DoneIn(control)
    BY <1>1, <1>2 DEF InStep
  <2> QED BY <1>2, <2>1, <2>2 DEF InProgress
<1>3. CASE buffer # <<>>
  <2>1. cur - 1 \in 1..in.n /\ inner = "next"
    BY <1>1, <1>3, BufferFacts DEF Control
  <2>2. cur = Count(control) + 1 /\ cur - 1 \notin DoneIn(control)
    BY <1>1, <1>3, <2>1 DEF InStep
  <2>3. InProgress = {cur - 1}
    BY <1>3, <2>1 DEF InProgress
  <2> QED BY <1>1, <1>3, <2>1, <2>2, <2>3
<1>4. CASE inner # "run" /\ buffer = <<>>
  <2>1. InProgress = {}
    BY <1>4 DEF InProgress
  <2>2. inner = "next" => cur = Count(control) + 1
    BY <1>1 DEF InStep
  <2> QED BY <1>4, <2>1, <2>2
<1> QED BY <1>2, <1>3, <1>4

\* A step of the abstract merge.
AbsStep == Abstract!Next \/ UNCHANGED Abstract!mergeVars

LEMMA AbsStutter ==
  ASSUME in' = in, Verdict' = Verdict, interrupted' = interrupted, Result' = Result
  PROVE  AbsStep
BY DEF AbsStep, Abstract!mergeVars, InScope

\* A merge that is out of scope is pending for ever.
LEMMA OutOfScope == ASSUME ~ InScope, in' = in PROVE AbsStep
<1>1. ~ InScope'
  BY DEF InScope
<1>2. Verdict' = Verdict /\ Result' = Result
  BY <1>1 DEF Verdict, Result
<1> QED BY <1>1, <1>2 DEF AbsStep, Abstract!mergeVars

LEMMA NoResultYet ==
  ASSUME MergeInv, outer \notin {"write", "done"} PROVE Result = Abstract!NoResult
BY DEF Result, Abstract!NoResult

\* The outer process, and an input that returns, leave the verdicts as they are.
LEMMA QuietStep ==
  ASSUME MergeInv, MergeInv', InScope, in' = in, interrupted' = interrupted,
         control' = control, InProgress' = InProgress, Result' = Result
  PROVE  AbsStep
<1>1. InScope'
  BY DEF InScope
<1>2. Verdict' = Verdict
  BY <1>1, ScopeFacts, ScopeFactsNext
<1> QED BY <1>2, AbsStutter

\* A flush is the abstract execution of the input whose DONE line it writes.
LEMMA FlushStep ==
  ASSUME MergeInv, MergeInv', InScope, in' = in, interrupted' = interrupted,
         outer = "wait", outer' = "wait", inner = "next",
         DoneIn(control') = DoneIn(Flushed),
         \/ Count(control') = cur - 1 /\ InProgress' = {}
         \/ Count(control') = cur /\ cur \in 1..in.n /\ InProgress' = {cur}
  PROVE  AbsStep
<1> DEFINE D == DoneIn(control)
<1>1. /\ in.n \in Nat /\ Basics /\ InStep /\ Settled = control /\ cur = Count(control) + 1
      /\ Count(control) \in 0..in.n /\ D \subseteq 1..Count(control)
      /\ Verdict = VerdictOf(D, Count(control), InProgress)
  BY ScopeFacts, BusyFacts
<1>2. Verdict' = VerdictOf(DoneIn(Flushed), Count(control'), InProgress')
  BY ScopeFactsNext DEF InScope
<1>3. Result' = Result /\ Result = Abstract!NoResult
  BY DEF Result, Abstract!NoResult
<1> HIDE DEF D
<1>4. CASE buffer = <<>>
  <2>1. DoneIn(Flushed) = D /\ InProgress = {}
    BY <1>1, <1>4, FlushedFacts, BusyFacts DEF D
  <2>2. Verdict' = Verdict
    <3>1. VerdictOf(D, cur - 1, {}) = VerdictOf(D, cur, {cur})
      BY <1>1 DEF VerdictOf
    <3>2. Verdict = VerdictOf(D, cur - 1, {})
      BY <1>1, <2>1
    <3> QED BY <1>2, <2>1, <3>1, <3>2
  <2> QED BY <1>3, <2>2, AbsStutter
<1>5. CASE buffer # <<>>
  <2>1. /\ DoneIn(Flushed) = D \cup {cur - 1} /\ InProgress = {cur - 1} /\ cur - 1 \in 1..in.n
        /\ cur - 1 \notin D
    BY <1>1, <1>5, FlushedFacts, BusyFacts DEF D
  <2>2. Verdict = VerdictOf(D, cur - 1, {cur - 1}) /\ Verdict[cur - 1] = "pending"
    BY <1>1, <2>1 DEF VerdictOf
  <2>3. Verdict' = [Verdict EXCEPT ![cur - 1] = "done"]
    <3>1. VerdictOf(D \cup {cur - 1}, cur - 1, {}) = VerdictOf(D \cup {cur - 1}, cur, {cur})
      BY <1>1 DEF VerdictOf
    <3>2. VerdictOf(D \cup {cur - 1}, cur - 1, {})
            = [VerdictOf(D, cur - 1, {cur - 1}) EXCEPT ![cur - 1] = "done"]
      BY <1>1, <2>1 DEF VerdictOf
    <3>3. Verdict' = VerdictOf(D \cup {cur - 1}, cur - 1, {})
      BY <1>2, <2>1, <3>1
    <3> QED BY <2>2, <3>2, <3>3
  <2>4. Abstract!Execute(cur - 1)
    BY <1>3, <2>2, <2>3 DEF Abstract!Execute, InScope
  <2> QED BY <2>1, <2>4 DEF AbsStep, Abstract!Next, Abstract!Inputs
<1> QED BY <1>4, <1>5

\* The end of an inner process decides on the input it was busy with.
LEMMA DieStep ==
  ASSUME MergeInv, MergeInv', InScope, inner \in {"run", "next"}, NEW code, Die(code)
  PROVE  /\ Result' = Result /\ Result = Abstract!NoResult /\ in' = in
         /\ \/ Verdict' = Verdict
            \/ \E i \in 1..in.n : /\ Verdict[i] = "pending"
                                  /\ Verdict' = [Verdict EXCEPT ![i] = "failed"]
<1> DEFINE D == DoneIn(control)
           c == Count(control)
<1>1. /\ in' = in /\ control' = control /\ outer = "wait" /\ outer' = "wait"
      /\ inner' = "exit" /\ buffer' = <<>>
  BY DEF Die, MergeInv, Control
<1>2. Result' = Result /\ Result = Abstract!NoResult
  BY <1>1 DEF Result, Abstract!NoResult
<1>3. InProgress' = {}
  BY <1>1 DEF InProgress
<1>4. /\ Verdict = VerdictOf(D, c, InProgress) /\ Verdict' = VerdictOf(D, c, {})
      /\ c \in 0..in.n /\ in.n \in Nat
  BY <1>1, <1>3, ScopeFacts, ScopeFactsNext DEF InScope
<1> HIDE DEF D, c
<1>5. CASE InProgress = {}
  BY <1>1, <1>2, <1>4, <1>5
<1>6. CASE InProgress # {}
  <2>1. InProgress = {c} /\ c \in 1..in.n /\ c \notin D
    BY <1>6, BusyFacts DEF D, c
  <2>2. Verdict[c] = "pending"
    BY <1>4, <2>1 DEF VerdictOf
  <2>3. VerdictOf(D, c, {}) = [VerdictOf(D, c, {c}) EXCEPT ![c] = "failed"]
    <3>1. c \in 1..c
      BY <1>4, <2>1
    <3> QED BY <2>1, <3>1 DEF VerdictOf
  <2> QED BY <1>1, <1>2, <1>4, <2>1, <2>2, <2>3
<1> QED BY <1>5, <1>6

LEMMA InnerStep == ASSUME MergeInv, MergeInv', InScope, Inner PROVE AbsStep
<1>1. CASE StartInput
  <2>1. /\ in' = in /\ interrupted' = interrupted /\ inner = "next" /\ cur <= in.n /\ inner' = "run"
        /\ cur' = cur /\ control' = WriteLine(Flushed, Started(cur)) /\ buffer' = <<>>
        /\ outer' = outer
    BY <1>1 DEF StartInput, PreRun
  <2>2. /\ outer = "wait" /\ in \in Corpora /\ in.n \in Nat /\ cur = Count(control) + 1
        /\ Count(control) \in 0..in.n /\ Settled = control /\ Basics /\ InStep
    BY <2>1, ScopeFacts, BusyFacts DEF MergeInv, Control
  <2>3. /\ Flushed \in Seq(Lines) /\ Clean(Flushed) /\ Count(Flushed) = cur - 1
        /\ Flushed = <<>> \/ ~ Last(Flushed).torn
    BY <2>2, FlushedFacts
  <2>4. control' = Append(Flushed, Started(Count(Flushed) + 1))
    BY <2>1, <2>2, <2>3 DEF WriteLine
  <2>5. Count(Flushed) + 1 \in 1..in.n
    BY <2>1, <2>2, <2>3
  <2>6. Count(control') = cur /\ DoneIn(control') = DoneIn(Flushed)
    <3>1. Count(control') = Count(Flushed) + 1 /\ DoneIn(control') = DoneIn(Flushed)
      BY <2>2, <2>3, <2>4, <2>5, CleanStarted
    <3> QED BY <2>2, <2>3, <3>1
  <2>7. InProgress' = {cur} /\ cur \in 1..in.n
    BY <2>1, <2>2, <2>3, <2>5 DEF InProgress
  <2> QED BY <2>1, <2>2, <2>6, <2>7, FlushStep
<1>2. CASE FinishInput
  <2>1. inner = "run" /\ buffer = <<>> /\ InProgress = {cur} /\ outer = "wait" /\ cur \in 1..in.n
    BY <1>2, BusyFacts DEF FinishInput, MergeInv, Control
  <2>2. /\ in' = in /\ interrupted' = interrupted /\ outer' = outer /\ inner' = "next"
        /\ control' = control /\ buffer' = <<Done(cur)>> /\ cur' = cur + 1
    BY <1>2, <2>1 DEF FinishInput, InScope
  <2>3. InProgress' = {cur}
    BY <2>1, <2>2, ScopeFacts DEF InProgress
  <2>4. Result' = Result
    BY <2>1, <2>2 DEF Result
  <2> QED BY <2>1, <2>2, <2>3, <2>4, QuietStep
<1>3. CASE Crash \/ OutOfMemory
  <2>1. PICK code : Die(code) /\ inner \in {"run", "next"} /\ interrupted' = interrupted
    BY <1>3 DEF Crash, OutOfMemory
  <2>2. /\ Result' = Result /\ Result = Abstract!NoResult /\ in' = in
        /\ \/ Verdict' = Verdict
           \/ \E i \in 1..in.n : /\ Verdict[i] = "pending"
                                 /\ Verdict' = [Verdict EXCEPT ![i] = "failed"]
    BY <2>1, DieStep
  <2>3. CASE Verdict' = Verdict
    BY <2>1, <2>2, <2>3, AbsStutter
  <2>4. ASSUME NEW i \in 1..in.n, Verdict[i] = "pending", Verdict' = [Verdict EXCEPT ![i] = "failed"]
        PROVE  AbsStep
    <3>1. Abstract!Fail(i)
      BY <2>1, <2>2, <2>4 DEF Abstract!Fail, InScope
    <3> QED BY <3>1 DEF AbsStep, Abstract!Next, Abstract!Inputs
  <2> QED BY <2>2, <2>3, <2>4
<1>4. ASSUME NEW code \in {0, 23}, Return(code) PROVE AbsStep
  <2>1. /\ in' = in /\ interrupted' = interrupted /\ inner = "next" /\ inner' = "exit"
        /\ control' = Flushed /\ buffer' = <<>> /\ outer' = outer
    BY <1>4 DEF Return
  <2>2. /\ outer = "wait" /\ cur = Count(control) + 1 /\ Count(control) \in 0..in.n
        /\ in.n \in Nat /\ Settled = control /\ Basics /\ InStep
    BY <2>1, ScopeFacts, BusyFacts DEF MergeInv, Control
  <2>3. Count(control') = cur - 1 /\ DoneIn(control') = DoneIn(Flushed)
    BY <2>1, <2>2, FlushedFacts
  <2>4. InProgress' = {}
    BY <2>1 DEF InProgress
  <2> QED BY <2>1, <2>2, <2>3, <2>4, FlushStep
<1> QED BY <1>1, <1>2, <1>3, <1>4 DEF Inner

LEMMA InterruptStep == ASSUME MergeInv, MergeInv', InScope, InterruptInner PROVE AbsStep
<1>1. Die(0) /\ inner \in {"run", "next"} /\ interrupted' = TRUE
  BY DEF InterruptInner
<1>2. PICK code : code = 0
  OBVIOUS
<1>3. Die(code)
  BY <1>1, <1>2
<1>4. /\ Result' = Result /\ Result = Abstract!NoResult /\ in' = in
      /\ \/ Verdict' = Verdict
         \/ \E i \in 1..in.n : /\ Verdict[i] = "pending"
                               /\ Verdict' = [Verdict EXCEPT ![i] = "failed"]
  BY <1>1, <1>3, DieStep
<1>5. (InScope /\ interrupted)' = TRUE
  BY <1>1, <1>4 DEF InScope
<1>6. Abstract!Interrupt
  BY <1>4, <1>5 DEF Abstract!Interrupt, Abstract!Inputs
<1> QED BY <1>6 DEF AbsStep, Abstract!Next

\* The selection is a merge as the abstract specification asks for it.
LEMMA GreedyIsMerge ==
  ASSUME MergeInv, InScope, outer = "merge", NEW R, Greedy(DoneIn(control), R)
  PROVE  Abstract!IsMerge(R)
<1> DEFINE D == DoneIn(control)
<1>1. D \subseteq 1..in.n /\ Verdict = VerdictOf(D, Count(control), InProgress)
  BY ScopeFacts DEF DoneIn
<1>2. Abstract!Known = D /\ Abstract!First = 1..in.first
  <2>1. \A i \in 1..in.n : Verdict[i] = "done" <=> i \in D
    BY <1>1 DEF VerdictOf
  <2> QED BY <1>1, <2>1 DEF Abstract!Known, Abstract!Inputs, Abstract!First
<1>3. \A S : Abstract!FeaturesOf(S) = Feats(S)
  BY DEF Abstract!FeaturesOf, Feats
<1> HIDE DEF D
<1>4. Greedy(D, R)
  BY DEF D
<1>5. Feats(D) = Feats((D \cap 1..in.first) \cup R)
  <2>1. R \subseteq D
    BY <1>4 DEF Greedy
  <2>2. Feats((D \cap 1..in.first) \cup R) \subseteq Feats(D)
    BY <2>1 DEF Feats
  <2>3. \A f \in Feats(D) : f \in Feats(D \cap 1..in.first) \/ \E r \in R : f \in in.feats[r]
    BY <1>4 DEF Greedy
  <2>4. Feats(D) \subseteq Feats((D \cap 1..in.first) \cup R)
    BY <2>3 DEF Feats
  <2> QED BY <2>2, <2>4
<1> QED BY <1>2, <1>3, <1>4, <1>5 DEF Abstract!IsMerge, Greedy

LEMMA FinishStep == ASSUME MergeInv, MergeInv', InScope, Merge PROVE AbsStep
<1>1. /\ in' = in /\ interrupted' = interrupted /\ control' = control /\ outer = "merge"
      /\ outer' = "write" /\ inner = "none" /\ inner' = "none" /\ buffer = <<>> /\ buffer' = <<>>
  BY DEF Merge, innerVars, MergeInv, Control
<1>2. PICK s \in Orders(control) : NewFiles' = Selected(control, s)
  BY DEF Merge
<1>3. Greedy(DoneIn(control), NewFiles')
  <2>1. in \in Corpora /\ control \in Seq(Lines) /\ Clean(control)
    BY ScopeFacts DEF Basics
  <2> QED BY <1>2, <2>1, GreedyMerge
<1>4. PICK R : R = NewFiles'
  OBVIOUS
<1>5. Abstract!IsMerge(R) /\ R \in SUBSET Abstract!Inputs
  <2>1. DoneIn(control) \subseteq 1..in.n
    BY DEF DoneIn
  <2> QED BY <1>1, <1>3, <1>4, <2>1, GreedyIsMerge DEF Greedy, Abstract!Inputs
<1>6. InProgress = {} /\ InProgress' = {}
  BY <1>1 DEF InProgress
<1>7. Verdict' = Verdict
  BY <1>1, <1>6, ScopeFacts, ScopeFactsNext DEF InScope
<1>8. (InScope /\ interrupted) \/ \A i \in Abstract!Inputs : Verdict[i] # "pending"
  <2> SUFFICES ASSUME ~ interrupted, NEW i \in 1..in.n PROVE Verdict[i] # "pending"
    BY DEF Abstract!Inputs
  <2>1. Count(control) = in.n
    <3>1. Attempted /\ Settled = control
      BY ScopeFacts DEF MergeInv
    <3> QED BY <1>1, <3>1 DEF Attempted
  <2>2. Verdict = VerdictOf(DoneIn(control), in.n, {})
    BY <1>6, <2>1, ScopeFacts
  <2> QED BY <2>2 DEF VerdictOf
<1>9. Result = Abstract!NoResult /\ Result' = R
  BY <1>1, <1>4 DEF Result, Abstract!NoResult, InScope
<1>10. Abstract!Finish
  BY <1>1, <1>5, <1>7, <1>8, <1>9 DEF Abstract!Finish, InScope
<1> QED BY <1>10 DEF AbsStep, Abstract!Next

LEMMA OuterStep == ASSUME MergeInv, MergeInv', InScope, Outer PROVE AbsStep
<1>1. CASE Merge
  BY <1>1, FinishStep
<1>2. CASE \/ Launch \/ AttemptsExhausted \/ Reap \/ ParseFails
           \/ (\E i \in toWrite : Write(i)) \/ Cleanup
  <2>1. in' = in /\ interrupted' = interrupted /\ control' = control
    BY <1>2 DEF Launch, AttemptsExhausted, Reap, ParseFails, Write, Cleanup
  <2>2. Result' = Result
    BY <1>2 DEF Launch, AttemptsExhausted, Reap, ParseFails, Write, Cleanup, Result, InScope
  <2>3. /\ inner # "run" /\ buffer = <<>> /\ inner' # "run" /\ buffer' = <<>>
    BY <1>2 DEF Launch, AttemptsExhausted, Reap, ParseFails, Write, Cleanup, innerVars, MergeInv, Control
  <2>4. InProgress = {} /\ InProgress' = {}
    BY <2>3 DEF InProgress
  <2> QED BY <2>1, <2>2, <2>4, QuietStep
<1> QED BY <1>1, <1>2 DEF Outer

LEMMA MergeInitRefines == ASSUME Init PROVE Abstract!Init
<1>1. in \in Corpora /\ control = <<>> /\ outer = "launch" /\ interrupted = FALSE
  BY DEF Init
<1>2. MarkedStarted = {} /\ MarkedDone = {}
  BY <1>1 DEF MarkedStarted, MarkedDone
<1>3. Verdict = [i \in 1..in.n |-> "pending"]
  BY <1>2 DEF Verdict
<1>4. Result = Abstract!NoResult
  BY <1>1 DEF Result, Abstract!NoResult
<1> QED BY <1>1, <1>3, <1>4 DEF Abstract!Init, Abstract!Inputs

LEMMA MergeStepRefines ==
  MergeInv /\ MergeInv' /\ [Next]_vars => [Abstract!Next]_(Abstract!mergeVars)
<1> SUFFICES ASSUME MergeInv, MergeInv', [Next]_vars PROVE AbsStep
  BY DEF AbsStep
<1>1. CASE UNCHANGED vars \/ Stopped
  <2>1. UNCHANGED vars
    BY <1>1 DEF Stopped
  <2>2. in' = in /\ interrupted' = interrupted /\ Verdict' = Verdict /\ Result' = Result
    BY <2>1 DEF vars, Verdict, Result, InScope, MarkedDone, MarkedStarted, InProgress, Done
  <2> QED BY <2>2, AbsStutter
<1>2. CASE Next /\ InScope
  BY <1>1, <1>2, InnerStep, InterruptStep, OuterStep DEF Next
<1>3. CASE Next /\ ~ InScope
  <2>1. in' = in
    BY <1>3 DEF Next, Inner, Outer, StartInput, FinishInput, Crash, OutOfMemory, InterruptInner, Die,
       Return, Launch, AttemptsExhausted, Reap, Merge, ParseFails, Write, Cleanup, Stopped, vars
  <2> QED BY <1>3, <2>1, OutOfScope
<1> QED BY <1>1, <1>2, <1>3

\* The processes and the control file implement the abstract merge of CorpusMerge:
\* each step decides on the one input whose line it writes or whose process ends,
\* or selects a smallest input for each new feature, or changes nothing.
THEOREM MergeRefines == Spec => ImplementsMerge
<1>1. Init => Abstract!Init
  BY MergeInitRefines
<1>2. MergeInv /\ MergeInv' /\ [Next]_vars => [Abstract!Next]_(Abstract!mergeVars)
  BY MergeStepRefines
<1> QED BY <1>1, <1>2, MergeInvariant, PTL DEF Spec, ImplementsMerge, Abstract!Spec

=============================================================================
