--------------------------- MODULE MCFuzzerMerge ---------------------------
(***************************************************************************)
(* Instances of FuzzerMerge.                                               *)
(***************************************************************************)
EXTENDS FuzzerMerge

Corpus(n, first, size, feats, crash, hog, long) ==
  [n |-> n, first |-> first, size |-> size, feats |-> feats,
   crash |-> crash, hog |-> hog, long |-> long]

MCFeatures == {"f", "g"}

\* All corpora of n inputs that differ in size and features, with the given
\* long DONE lines.
Varied(n, long) ==
  {Corpus(n, first, [i \in 1..n |-> size[i]], feats, crash, hog, long) :
     first \in 0..n, size \in [1..n -> 1..2], feats \in [1..n -> SUBSET MCFeatures],
     crash \in SUBSET (1..n), hog \in SUBSET (1..n)}

Empty == Varied(0, {})

\* Three inputs, the first one in the first corpus.
Three(long) ==
  {Corpus(3, 1, size, feats, crash, hog, long) :
     size \in {<<1, 1, 1>>, <<1, 2, 1>>},
     feats \in {<<{"f"}, {"f", "g"}, {"g"}>>, <<{}, {"f"}, {"f", "g"}>>, <<{"g"}, {"f"}, {"f"}>>},
     crash \in SUBSET (1..3), hog \in SUBSET (1..3)}

MergeCorpora_ ==
  Empty \cup Varied(2, {}) \cup Three({})
    \cup {c \in Three({2}) \cup Three({1, 3}) : c.crash \subseteq {2} /\ c.hog \subseteq {2}}
MergeCorpora == MergeCorpora_

ShortLines_ == Empty \cup Varied(2, {}) \cup Three({})
ShortLines == ShortLines_
=============================================================================
