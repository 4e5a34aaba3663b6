---------------------------- MODULE CorpusMerge ----------------------------
(***************************************************************************)
(* What a merge of corpora promises (the task in FuzzerMerge.h): every     *)
(* input is executed and gives a set of features, or fails; then inputs    *)
(* of the other corpora are added to the first one so that no feature that *)
(* was seen is lost and every added input adds one.  How many processes    *)
(* that takes, and when they die, is not visible here.                     *)
(***************************************************************************)
EXTENDS Integers, FiniteSets

CONSTANTS Corpora  \* descriptions of the inputs, as in FuzzerMerge

VARIABLES
  in,        \* the inputs that are merged
  verdict,   \* what became of each input
  cut,       \* the merge was interrupted, which it reports as success
  result     \* NoResult, or the set of inputs added to the first corpus

mergeVars == <<in, verdict, cut, result>>

NoResult == {0}  \* no input has this number
Inputs == 1..in.n

Init ==
  /\ in \in Corpora
  /\ verdict = [i \in Inputs |-> "pending"]
  /\ cut = FALSE
  /\ result = NoResult

\* The input was executed and its features are known.
Execute(i) ==
  /\ result = NoResult
  /\ verdict[i] = "pending"
  /\ verdict' = [verdict EXCEPT ![i] = "done"]
  /\ UNCHANGED <<in, cut, result>>

\* The input, or something else in its process, failed.
Fail(i) ==
  /\ result = NoResult
  /\ verdict[i] = "pending"
  /\ verdict' = [verdict EXCEPT ![i] = "failed"]
  /\ UNCHANGED <<in, cut, result>>

Interrupt ==
  /\ result = NoResult
  /\ cut' = TRUE
  /\ \/ UNCHANGED verdict
     \/ \E i \in Inputs : /\ verdict[i] = "pending"
                          /\ verdict' = [verdict EXCEPT ![i] = "failed"]
  /\ UNCHANGED <<in, result>>

FeaturesOf(S) == UNION {in.feats[i] : i \in S}

Known == {i \in Inputs : verdict[i] = "done"}
First == 1..in.first

\* R keeps every known feature, holds a smallest known input for each feature
\* that is new to the first corpus, and nothing that adds no feature.
IsMerge(R) ==
  /\ R \subseteq Known \ First
  /\ FeaturesOf(Known) = FeaturesOf((Known \cap First) \cup R)
  /\ \A f \in FeaturesOf(Known) \ FeaturesOf(Known \cap First) :
       \E r \in R : /\ f \in in.feats[r]
                    /\ \A i \in Known : f \in in.feats[i] => in.size[r] <= in.size[i]
  /\ \A r \in R : \E f \in in.feats[r] \ FeaturesOf(Known \cap First) :
       \A q \in R : f \in in.feats[q] => in.size[r] <= in.size[q]

Finish ==
  /\ result = NoResult
  /\ cut \/ \A i \in Inputs : verdict[i] # "pending"
  /\ \E R \in SUBSET Inputs : IsMerge(R) /\ result' = R
  /\ UNCHANGED <<in, verdict, cut>>

Next ==
  \/ \E i \in Inputs : Execute(i) \/ Fail(i)
  \/ Interrupt
  \/ Finish

Spec == Init /\ [][Next]_mergeVars
=============================================================================
