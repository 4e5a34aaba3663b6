----------------------------- MODULE MCFunctions -----------------------------
(***************************************************************************)
(* Small functions for model checking the passes.  Blocks are 1..N, block  *)
(* 1 is the entry.  A block is built from whether it has a check and from  *)
(* how many successors it has, the way the sanitizers lay out code:        *)
(*   no successor   <<report, asm, unreachable>> or <<ret>>                *)
(*   one successor  <<check, br>> or <<work, br>>                          *)
(*   two            <<check, cmp, condbr>> or <<cmp, condbr>>              *)
(* A block with two checks has a coverage call (guard) in front of the     *)
(* other.                                                                  *)
(* The entry also loads a value that the checks take as an operand, and    *)
(* that the entry's comparison uses.                                       *)
(***************************************************************************)
EXTENDS Integers, Sequences, FiniteSets

\* The instructions of block b in a function whose identifiers start at base.
Id(base, b, k) == base + 10*b + k
Cmp(base, b)   == Id(base, b, 1)
Root(base, b)  == Id(base, b, 2)
Asm(base, b)   == Id(base, b, 3)
Term(base, b)  == Id(base, b, 4)
Work(base, b)  == Id(base, b, 5)
Load(base)     == Id(base, 1, 6)
Guard(base, b) == Id(base, b, 7)

\* b dominates d: every path from the entry to d visits b.  A set that holds
\* the entry, and that no edge avoiding b leaves, holds all that is reachable
\* without b.
Avoids(succ, b, S) == \A x \in S : (succ[x] \ {b}) \subseteq S
Dominates(succ, b, d) ==
  \/ b = d \/ b = 1
  \/ \E S \in SUBSET (DOMAIN succ \ {b, d}) : 1 \in S /\ Avoids(succ, b, S)
Reachable(succ, b) ==
  ~ \E S \in SUBSET (DOMAIN succ \ {b}) : 1 \in S /\ \A x \in S : succ[x] \subseteq S
DominatorTree(succ) ==
  [b \in DOMAIN succ |-> IF ~ Reachable(succ, b) THEN {}
     ELSE {d \in DOMAIN succ : Reachable(succ, d) /\ Dominates(succ, b, d)}]

Opt(c, s) == IF c THEN s ELSE <<>>

Body(base, succ, checks, twice, b) ==
  LET n == Cardinality(succ[b])
      c == b \in checks
  IN Opt(b = 1, <<Load(base)>>) \o
     Opt(b \in twice, <<Guard(base, b)>>) \o
     Opt(c, <<Root(base, b)>>) \o
     Opt(~c /\ n = 1, <<Work(base, b)>>) \o
     Opt(n = 2, <<Cmp(base, b)>>) \o
     Opt(c /\ n = 0, <<Asm(base, b)>>) \o
     <<Term(base, b)>>

\* shared: the loaded value is also used by ordinary code (the ret or the
\* work of the last block), so it is no sanity check instruction.
MkFunction(base, succ, checks, twice, shared) ==
  LET B == DOMAIN succ
      last == Cardinality(B)
      body == [b \in B |-> Body(base, succ, checks, twice, b)]
      I == UNION {{body[b][k] : k \in 1..Len(body[b])} : b \in B}
      Kind(i) == LET b == (i - base) \div 10
                     k == (i - base) % 10
                     n == Cardinality(succ[b])
                 IN CASE k \in {2, 7} -> "root"
                      [] k = 3 -> "asm"
                      [] k = 6 -> "load"
                      [] k = 4 /\ n = 0 /\ b \in checks -> "unreachable"
                      [] k = 4 /\ n = 1 -> "br"
                      [] k = 4 /\ n = 2 -> "condbr"
                      [] OTHER -> "other"
      Ops(i) == LET b == (i - base) \div 10
                    k == (i - base) % 10
                IN CASE k = 2 \/ i = Cmp(base, 1) -> {Load(base)}
                     [] k = 4 /\ Cardinality(succ[b]) = 2 -> {Cmp(base, b)}
                     [] shared /\ b = last /\ k = 4 /\ succ[b] = {} -> {Load(base)}
                     [] OTHER -> {}
  IN [instrs |-> I, blocks |-> B, body |-> body, succ |-> succ,
      kind |-> [i \in I |-> Kind(i)], ops |-> [i \in I |-> Ops(i)],
      dom |-> DominatorTree(succ)]

\* All acyclic control flow graphs on 1..n with at most two successors.
Graphs(n) == {s \in [1..n -> SUBSET (1..n)] :
                \A b \in 1..n : Cardinality(s[b]) <= 2 /\ \A x \in s[b] : x > b}

\* A function is named by what it is built from.
Name(base, s, c, sh) ==
  [base |-> base, succ |-> s, checks |-> c, twice |-> {}, shared |-> sh]
Code(f) == MkFunction(f.base, f.succ, f.checks, f.twice, f.shared)

Family(n) == {Name(0, s, c, sh) : s \in {g \in Graphs(n) : g[1] # {}},
                c \in SUBSET (2..n), sh \in BOOLEAN}

\* The figure in findInstructions: Pred=1, BB=2, B1=3, B2=4, B3=5.
Figure == Name(0, <<{2, 5}, {3, 4}, {4}, {5}, {}>>, {2, 3, 4}, FALSE)

\* A loop whose body is guarded by a check.
LoopFn == Name(0, <<{2}, {3, 4}, {2}, {}>>, {3}, FALSE)

\* test_non_dominating_branch.c: 1 tests n, 2 checks ptr in 3, both return.
NonDominating == Name(0, <<{2, 4}, {3, 5}, {}, {}, {4}>>, {3}, FALSE)

\* 1 branches to 2 or to the join 5.  2 has a coverage call and continues to
\* 3, which branches to the report in 4 or to the join.
ChainedChecks == Name(0, <<{2, 5}, {3}, {4, 5}, {5}, {}>>, {2, 4}, FALSE)

\* 1 branches to the report in 2, or to 3, which ends in a report either way.
BothSidesFail == Name(0, <<{2, 3}, {}, {4, 5}, {}, {}>>, {2, 3, 4, 5}, FALSE)

\* The block of the report begins with a coverage call.
CoverageAndReport == [Name(0, <<{2, 3}, {}, {}>>, {2}, FALSE) EXCEPT !.twice = {2}]

\* Two independent checks that report the same loaded value.
TwoChecks == Name(0, <<{2, 3}, {}, {4, 5}, {}, {}>>, {2, 4}, TRUE)

\* A second function, with its own instructions.
Second == Name(100, <<{2, 3}, {}, {}>>, {2}, FALSE)

=============================================================================
