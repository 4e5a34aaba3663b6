--------------------------- MODULE MCCoverageCost ---------------------------
(***************************************************************************)
(* Programs with one to three functions in one or two modules: with        *)
(* different, repeated and missing locations, with discriminators, and     *)
(* with two static functions of the same name.                             *)
(***************************************************************************)
EXTENDS CoverageCost, TLC

CONSTANTS j1, j2

MCJobs    == {j1, j2}
Symmetric == Permutations(MCJobs)

L(n) == [line |-> n, disc |-> 0]
D(n, d) == [line |-> n, disc |-> d]
Fun(n, m, l) == [name |-> n, module |-> m, locs |-> l]

Plain    == <<Fun("f", "M", <<L(1), L(2)>>), Fun("g", "M", <<L(3), L(4)>>)>>
Repeated == <<Fun("f", "M", <<L(1)>>), Fun("g", "M", <<L(2), L(2), L(2)>>), Fun("h", "M", <<L(3)>>)>>
Foreign  == <<Fun("e", "N", <<L(1), L(1)>>), Fun("f", "M", <<L(2), L(3), L(2)>>)>>
Discr    == <<Fun("e", "N", <<L(1)>>), Fun("f", "M", <<D(1, 1), D(1, 2), D(1, 0), D(1, 1)>>)>>
Missing  == <<Fun("f", "M", <<L(1), NoLoc>>), Fun("g", "M", <<L(1), L(2)>>)>>
Static   == <<Fun("f", "N", <<L(1), L(2)>>), Fun("f", "M", <<L(1), L(2)>>)>>

MCPrograms == {Plain, Repeated, Foreign, Discr, Missing, Static}
PlainOnly  == {Plain}
MCLevels   == {0, 1, 2}

=============================================================================
