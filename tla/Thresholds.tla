------------------------------ MODULE Thresholds ------------------------------
(***************************************************************************)
(* What a cost threshold is for.  Checks that cost the threshold or more   *)
(* are removed; the threshold has to leave the fraction level / Den of the *)
(* checks ("sanity") or of their cost ("cost", "fprec").  The costs are a  *)
(* function or a sequence with one value for each check.                   *)
(***************************************************************************)
EXTENDS Integers, Sequences, FiniteSets, Functions

CONSTANT Den  \* the denominator of all levels

ASSUME DenAssumption == Den \in Nat \ {0}

Modes == {"sanity", "cost", "fprec"}

\* The checks of the list s that are kept with threshold t, their number and
\* their cost.
Kept(s, t)       == {k \in DOMAIN s : s[k] < t}
KeptNumber(s, t) == Cardinality(Kept(s, t))
KeptCost(s, t)   == SumFunctionOnSet(s, Kept(s, t))
TotalCost(s)     == SumFunctionOnSet(s, DOMAIN s)

\* Threshold t keeps the fraction that the level asks for: of the checks, or of
\* the cost.
Honours(m, s, l, t) ==
  IF m = "sanity" THEN Den * KeptNumber(s, t) >= l * Cardinality(DOMAIN s)
                  ELSE Den * KeptCost(s, t) >= l * TotalCost(s)

\* No threshold that removes more would do.  Only a sanity level removes checks
\* that cost nothing.
IsLowest(m, s, l, t) ==
  \A k \in DOMAIN s : s[k] < t /\ (m = "sanity" \/ s[k] > 0) => ~ Honours(m, s, l, s[k])

\* What the functions are for.
IsThreshold(m, s, l, t) ==
  /\ Honours(m, s, l, t)
  /\ m # "sanity" => t > 0
  /\ IsLowest(m, s, l, t)

\* The threshold among those that the loops of compute_cost_threshold consider:
\* the costs, or one more than the largest of them.
ThresholdFor(m, s, l) ==
  CHOOSE t \in Range(s) \cup {v + 1 : v \in {w \in Range(s) : \A x \in Range(s) : x <= w}} :
    IsThreshold(m, s, l, t)

=============================================================================
