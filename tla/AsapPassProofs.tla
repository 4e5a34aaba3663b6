---------------------------- MODULE AsapPassProofs ----------------------------
(***************************************************************************)
(* The two passes over a function: SanityCheckInstructions finds what      *)
(* belongs to a check, and AsapPass deletes what it was asked to delete,   *)
(* once; for every set of well-formed functions, every cost and every      *)
(* order in which the worklists and the loops take their elements.         *)
(***************************************************************************)
EXTENDS AsapPass, TLAPS

(* SanityCheckInstructions *)

\* The users of a sanity check instruction are sanity check instructions.
Closed == \A i \in SCInstructions : Users(F, i) \subseteq SCInstructions

\* A root is waiting in the worklist until it has its entry.
RootsPending ==
  \A r \in SCRoots : /\ IsRoot(F, r)
                     /\ r \in CBI[r]
                     /\ r \in Worklist \/ r \in SCInstructions
                     /\ r \in SCInstructions => r \in IBS[r]

\* A value that only sanity checks use is waiting until it is one.
ClosurePending ==
  \A i \in F.instrs :
     Users(F, i) # {} /\ Users(F, i) \subseteq SCInstructions
     => i \in SCInstructions \cup Worklist

\* The checks of an instruction are copied to its operands when it is added,
\* and recorded when the operands are: between the two, none is lost.
Inherited ==
  /\ \A c \in F.instrs : IBS[c] \subseteq SCInstructions
  /\ \A c, i \in F.instrs : \A o \in F.ops[i] : i \in IBS[c] => c \in CBI[o]
  /\ \A c, o \in F.instrs :
        o \in SCInstructions /\ Users(F, o) # {} /\ c \in CBI[o] => o \in IBS[c]

\* A queued conditional branch guards only checks, and still does when it is
\* popped.
QueuedBranches ==
  \A p \in F.blocks :
    /\ Terminator(F, p) \in SCInstructions \cup Worklist
    /\ F.kind[Terminator(F, p)] = "condbr"
    => \E b \in F.succ[p] : GuardsOnlyChecks(F, p, b, SCInstructions)

SCIInv ==
  /\ SCITypeOK
  /\ phase = "found" => Worklist = {}
  /\ Closed
  /\ RootsPending
  /\ ClosurePending
  /\ Inherited
  /\ QueuedBranches

-----------------------------------------------------------------------------
\* Terminators are instructions of their block, and of no other.
LEMMA TerminatorFacts ==
  ASSUME NEW f, WellFormed(f), NEW p \in f.blocks
  PROVE  /\ Terminator(f, p) \in f.instrs
         /\ FirstInstr(f, p) \in f.instrs
         /\ \A q \in f.blocks : Terminator(f, q) = Terminator(f, p) => q = p
<1>1. f.body[p] \in Seq(f.instrs) /\ Len(f.body[p]) > 0 /\ Len(f.body[p]) \in Nat
  BY DEF WellFormed
<1>2. Len(f.body[p]) \in 1..Len(f.body[p]) /\ 1 \in 1..Len(f.body[p])
  BY <1>1
<1>3. Terminator(f, p) \in f.instrs /\ FirstInstr(f, p) \in f.instrs
  BY <1>1, <1>2 DEF Terminator, FirstInstr
<1>4. \A q \in f.blocks : InBlock(f, Terminator(f, q), q)
  <2>1. TAKE q \in f.blocks
  <2>2. f.body[q] \in Seq(f.instrs) /\ Len(f.body[q]) > 0 /\ Len(f.body[q]) \in Nat
    BY DEF WellFormed
  <2>3. Len(f.body[q]) \in 1..Len(f.body[q])
    BY <2>2
  <2>4. QED
    BY <2>3 DEF InBlock, Terminator
<1>5. \E b \in f.blocks : \A c \in f.blocks : InBlock(f, Terminator(f, p), c) => c = b
  BY <1>3 DEF WellFormed
<1>6. QED
  BY <1>3, <1>4, <1>5

\* The parent of an instruction is a block of its function.
LEMMA ParentFacts ==
  ASSUME NEW f, WellFormed(f), NEW i \in f.instrs
  PROVE  Parent(f, i) \in f.blocks
BY DEF WellFormed, Parent

\* Adding sanity check instructions keeps a guard a guard.
LEMMA GuardsMonotone ==
  ASSUME NEW f, NEW p, NEW b, NEW S, NEW T, S \subseteq T,
         GuardsOnlyChecks(f, p, b, S)
  PROVE  GuardsOnlyChecks(f, p, b, T)
BY DEF GuardsOnlyChecks, onlyDominatesInstructionsFrom, onlyContainsInstructionsFrom

\* An instruction that a queued guard points to has no users.
LEMMA VoidHasNoUsers ==
  ASSUME NEW f, WellFormed(f), NEW i \in f.instrs, f.kind[i] \in Void
  PROVE  Users(f, i) = {}
BY DEF WellFormed, Users

\* The checks of the initialization loop are roots of the function.
LEMMA InitialChecksType ==
  ASSUME NEW f, WellFormed(f)
  PROVE  /\ InitialChecks(f) \in [f.instrs -> SUBSET f.instrs]
         /\ \A i \in f.instrs : InitialChecks(f)[i] # {} => f.kind[i] \in Void \ {"condbr"}
         /\ \A i \in f.instrs : IsRoot(f, i) => i \in InitialChecks(f)[i]
BY DEF InitialChecks, InstrumentationInBB, IsRoot, IsFollower, Void

LEMMA SCIInitInv == SCIInit => SCIInv
<1> SUFFICES ASSUME SCIInit PROVE SCIInv
  OBVIOUS
<1>1. todo \in Seq(Functions) /\ todo # <<>> /\ Head(todo) \in Functions
  BY ModulesAreFunctions DEF SCIInit
<1>2. WellFormed(F)
  BY <1>1, FunctionsWellFormed DEF SCIInit
<1>3. SCITypeOK
  BY <1>1, <1>2 DEF SCIInit, SCITypeOK, NoChecks
<1>4. Closed /\ RootsPending /\ ClosurePending
  BY DEF SCIInit, Closed, RootsPending, ClosurePending
<1>5. Inherited /\ QueuedBranches
  BY DEF SCIInit, Inherited, QueuedBranches, NoChecks
<1>6. QED
  BY <1>3, <1>4, <1>5 DEF SCIInv, SCIInit

LEMMA RunOnFunctionInv == SCIInv /\ RunOnFunction => SCIInv'
<1> SUFFICES ASSUME SCIInv, RunOnFunction PROVE SCIInv'
  OBVIOUS
<1>1. Head(todo) \in Functions /\ Tail(todo) \in Seq(Functions)
  BY DEF SCIInv, SCITypeOK, RunOnFunction
<1>2. WellFormed(F')
  BY <1>1, FunctionsWellFormed DEF RunOnFunction
<1>3. /\ CBI' \in [F'.instrs -> SUBSET F'.instrs]
      /\ \A i \in F'.instrs : CBI'[i] # {} => F'.kind[i] \in Void \ {"condbr"}
      /\ \A i \in F'.instrs : IsRoot(F', i) => i \in CBI'[i]
  BY <1>2, InitialChecksType DEF RunOnFunction
<1>4. SCITypeOK'
  BY <1>1, <1>2, <1>3 DEF SCITypeOK, RunOnFunction, NoChecks, WellFormed
<1>5. Closed' /\ ClosurePending' /\ Inherited'
  BY DEF RunOnFunction, Closed, ClosurePending, Inherited, NoChecks
<1>6. RootsPending'
  BY <1>3 DEF RunOnFunction, RootsPending
<1>7. QueuedBranches'
  BY <1>3 DEF RunOnFunction, QueuedBranches
<1>8. QED
  BY <1>4, <1>5, <1>6, <1>7 DEF SCIInv, RunOnFunction

LEMMA SkipInstructionInv ==
  ASSUME SCIInv, NEW i \in Worklist, SkipInstruction(i)
  PROVE  SCIInv'
<1> USE DEF SCIInv, SkipInstruction, IsNew
<1>1. SCITypeOK'
  BY DEF SCITypeOK
<1>2. Closed' /\ Inherited'
  BY DEF Closed, Inherited
<1>3. RootsPending'
  <2>1. SUFFICES ASSUME IsRoot(F, i), i \in F.instrs PROVE i \in SCInstructions
    BY DEF RootsPending, SCITypeOK
  <2>2. Users(F, i) = {}
    BY <2>1, VoidHasNoUsers DEF IsRoot, Void, SCITypeOK
  <2>3. QED
    BY <2>2 DEF onlyUsedInSanityChecks
<1>4. ClosurePending'
  BY DEF ClosurePending, onlyUsedInSanityChecks
<1>5. QueuedBranches'
  BY DEF QueuedBranches
<1>6. QED
  BY <1>1, <1>2, <1>3, <1>4, <1>5

LEMMA AddInstructionInv ==
  ASSUME SCIInv, NEW i \in Worklist, AddInstruction(i)
  PROVE  SCIInv'
<1> USE DEF SCIInv, AddInstruction, IsNew, QueuedOperands
<1>1. WellFormed(F) /\ i \in F.instrs /\ F.ops[i] \subseteq F.instrs
  BY DEF SCITypeOK, WellFormed
<1>2. Users(F, i) \subseteq SCInstructions /\ i \notin F.ops[i]
  BY <1>1 DEF onlyUsedInSanityChecks, Users
<1>3. \A o \in F.ops[i] : o \notin SCInstructions
  BY <1>1 DEF Closed, Users
<1>4. SCITypeOK'
  BY <1>1, ParentFacts DEF SCITypeOK
<1>5. Closed'
  BY <1>2 DEF Closed
<1>6. RootsPending'
  BY DEF RootsPending, SCITypeOK
<1>7. ClosurePending'
  BY DEF ClosurePending, Users
<1>8. Inherited'
  <2>1. (\A c \in F.instrs : IBS[c] \subseteq SCInstructions)'
    BY DEF Inherited, SCITypeOK
  <2>2. (\A c, j \in F.instrs : \A o \in F.ops[j] : j \in IBS[c] => c \in CBI[o])'
    <3> SUFFICES ASSUME NEW c \in F.instrs, NEW j \in F.instrs, NEW o \in F.ops[j],
                        j \in IBS'[c]
                 PROVE  c \in CBI'[o]
      OBVIOUS
    <3>1. o \in F.instrs
      BY <1>1 DEF WellFormed
    <3>2. CASE j \in IBS[c]
      BY <3>1, <3>2 DEF Inherited
    <3>3. CASE j \notin IBS[c]
      BY <3>1, <3>3
    <3>4. QED
      BY <3>2, <3>3
  <2>3. (\A c, o \in F.instrs :
           o \in SCInstructions /\ Users(F, o) # {} /\ c \in CBI[o] => o \in IBS[c])'
    BY <1>2, <1>3 DEF Inherited
  <2>4. QED
    BY <2>1, <2>2, <2>3 DEF Inherited
<1>9. QueuedBranches'
  <2> SUFFICES ASSUME NEW p \in F.blocks,
                      Terminator(F, p) \in SCInstructions' \cup Worklist',
                      F.kind[Terminator(F, p)] = "condbr"
               PROVE  \E b \in F.succ[p] : GuardsOnlyChecks(F, p, b, SCInstructions')
    BY DEF QueuedBranches
  <2>1. Terminator(F, p) \notin F.ops[i]
    BY <1>1 DEF WellFormed, Void
  <2>2. Terminator(F, p) \in SCInstructions \cup Worklist
    BY <2>1
  <2>3. PICK b \in F.succ[p] : GuardsOnlyChecks(F, p, b, SCInstructions)
    BY <2>2 DEF QueuedBranches
  <2>4. SCInstructions \subseteq SCInstructions'
    OBVIOUS
  <2>5. QED
    BY <2>3, <2>4, GuardsMonotone
<1>10. QED
  BY <1>4, <1>5, <1>6, <1>7, <1>8, <1>9

LEMMA SkipBlockInv ==
  ASSUME SCIInv, NEW b \in BlockWorklist, SkipBlock(b)
  PROVE  SCIInv'
<1> USE DEF SCIInv, SkipBlock, Unnecessary
<1>1. SCITypeOK'
  BY DEF SCITypeOK
<1>2. Closed' /\ Inherited' /\ RootsPending' /\ ClosurePending' /\ QueuedBranches'
  BY DEF Closed, Inherited, RootsPending, ClosurePending, QueuedBranches
<1>3. QED
  BY <1>1, <1>2

LEMMA QueuePredTerminatorInv ==
  ASSUME SCIInv, NEW b \in BlockWorklist, QueuePredTerminator(b)
  PROVE  SCIInv'
<1> USE DEF SCIInv
<1>1. PICK p \in F.blocks :
        /\ GuardsOnlyChecks(F, p, b, SCInstructions)
        /\ Worklist' = Worklist \cup {Terminator(F, p)}
        /\ CBI' = [CBI EXCEPT ![Terminator(F, p)] = @ \cup CBI[FirstInstr(F, b)]]
  BY DEF QueuePredTerminator, Unnecessary
<1>2. /\ phase = "blocks"
      /\ BlockWorklist' = BlockWorklist \ {b}
      /\ UNCHANGED <<todo, phase, F, SCInstructions, SCRoots, IBS>>
  BY DEF QueuePredTerminator, Unnecessary
<1> DEFINE t == Terminator(F, p)
<1>3. /\ WellFormed(F) /\ b \in F.blocks /\ b \in F.succ[p]
      /\ t \in F.instrs /\ FirstInstr(F, b) \in F.instrs
      /\ \A q \in F.blocks : Terminator(F, q) = t => q = p
  <2>1. WellFormed(F) /\ b \in F.blocks
    BY DEF SCITypeOK
  <2>2. b \in F.succ[p]
    BY <1>1 DEF GuardsOnlyChecks, Preds
  <2>3. QED
    BY <2>1, <2>2, TerminatorFacts DEF t
<1>4. Users(F, t) = {}
  BY <1>1, <1>3, VoidHasNoUsers DEF GuardsOnlyChecks, Void
<1>5. \A j \in F.instrs : t \notin F.ops[j]
  BY <1>4 DEF Users
<1>6. /\ CBI' \in [F.instrs -> SUBSET F.instrs]
      /\ \A j \in F.instrs : CBI[j] \subseteq CBI'[j]
      /\ \A j \in F.instrs : j # t => CBI'[j] = CBI[j]
  BY <1>1, <1>3 DEF SCITypeOK
<1> HIDE DEF t
<1>7. SCITypeOK'
  BY <1>1, <1>2, <1>3, <1>6 DEF SCITypeOK, t
<1>8. Closed'
  BY <1>2 DEF Closed
<1>9. RootsPending'
  BY <1>1, <1>2, <1>6 DEF RootsPending, SCITypeOK
<1>10. ClosurePending'
  BY <1>1, <1>2 DEF ClosurePending
<1>11. Inherited'
  <2>1. \A c, j \in F.instrs : \A o \in F.ops[j] : o \in F.instrs
    BY <1>3 DEF WellFormed
  <2>2. QED
    BY <1>2, <1>4, <1>6, <2>1 DEF Inherited
<1>12. QueuedBranches'
  BY <1>1, <1>2, <1>3 DEF QueuedBranches, t
<1>13. QED
  BY <1>2, <1>7, <1>8, <1>9, <1>10, <1>11, <1>12

LEMMA PhaseChangeInv ==
  ASSUME SCIInv, WorklistEmpty \/ BlockWorklistEmpty \/ FunctionDone \/ UNCHANGED sciVars
  PROVE  SCIInv'
<1> USE DEF SCIInv
<1>1. UNCHANGED <<todo, F, Worklist, CBI, SCInstructions, SCRoots, IBS>>
  BY DEF WorklistEmpty, BlockWorklistEmpty, FunctionDone, sciVars
<1>2. SCITypeOK'
  BY DEF SCITypeOK, WorklistEmpty, BlockWorklistEmpty, FunctionDone, sciVars
<1>3. (phase = "found" => Worklist = {})'
  BY DEF WorklistEmpty, BlockWorklistEmpty, FunctionDone, sciVars
<1>4. Closed' /\ Inherited' /\ RootsPending' /\ ClosurePending' /\ QueuedBranches'
  BY <1>1 DEF Closed, Inherited, RootsPending, ClosurePending, QueuedBranches
<1>5. QED
  BY <1>2, <1>3, <1>4

\* The invariant is inductive: it holds in every state of the pass.
THEOREM SCIInvariant == SCISpec => []SCIInv
<1>1. SCIInv /\ [SCINext]_sciVars => SCIInv'
  <2> SUFFICES ASSUME SCIInv, [SCINext]_sciVars PROVE SCIInv'
    OBVIOUS
  <2>1. CASE RunOnFunction
    BY <2>1, RunOnFunctionInv
  <2>2. CASE \E i \in Worklist : SkipInstruction(i) \/ AddInstruction(i)
    BY <2>2, SkipInstructionInv, AddInstructionInv
  <2>3. CASE \E b \in BlockWorklist : SkipBlock(b) \/ QueuePredTerminator(b)
    BY <2>3, SkipBlockInv, QueuePredTerminatorInv
  <2>4. CASE WorklistEmpty \/ BlockWorklistEmpty \/ FunctionDone \/ UNCHANGED sciVars
    BY <2>4, PhaseChangeInv
  <2>5. QED
    BY <2>1, <2>2, <2>3, <2>4 DEF SCINext, FindInstructions, ModuleDone
<1>2. QED
  BY <1>1, SCIInitInv, PTL DEF SCISpec

\* All state of the pass belongs to the function it runs on.
THEOREM SCITypeCorrect == SCISpec => []SCITypeOK
<1>1. SCIInv => SCITypeOK
  BY DEF SCIInv
<1>2. QED
  BY <1>1, SCIInvariant, PTL

\* getInstructionsBySanityCheck has an entry for every root, in every function
\* and for every order of the worklists.
THEOREM RootsAlwaysAttributed == SCISpec => []RootsAttributed
<1>1. SCIInv => RootsAttributed
  BY DEF SCIInv, RootsPending, RootsAttributed
<1>2. QED
  BY <1>1, SCIInvariant, PTL

\* The worklist computes a closed set of instructions.
THEOREM ClosureAlwaysComplete == SCISpec => []ClosureComplete
<1>1. SCIInv => ClosureComplete
  BY DEF SCIInv, ClosurePending, ClosureComplete
<1>2. QED
  BY <1>1, SCIInvariant, PTL

\* No check loses an operand of an instruction it owns.
THEOREM OperandsAlwaysAttributed == SCISpec => []OperandsAttributed
<1>1. SCIInv => OperandsAttributed
  <2> SUFFICES ASSUME SCIInv, NEW c \in F.instrs, NEW i \in F.instrs, NEW o \in F.ops[i],
                      i \in IBS[c], o \in SCInstructions
               PROVE  o \in IBS[c]
    BY DEF OperandsAttributed
  <2>1. o \in F.instrs
    BY DEF SCIInv, SCITypeOK
  <2>2. i \in Users(F, o)
    BY DEF Users
  <2>3. c \in CBI[o]
    BY DEF SCIInv, Inherited
  <2>4. QED
    BY <2>1, <2>2, <2>3 DEF SCIInv, Inherited
<1>2. QED
  BY <1>1, SCIInvariant, PTL

\* A conditional branch that the pass classifies as a sanity check guards only
\* sanity check code.
THEOREM BranchesAlwaysGuardOnlyChecks == SCISpec => []BranchesGuardOnlyChecks
<1>1. SCIInv => BranchesGuardOnlyChecks
  BY DEF SCIInv, QueuedBranches, BranchesGuardOnlyChecks
<1>2. QED
  BY <1>1, SCIInvariant, PTL

-----------------------------------------------------------------------------
(* AsapPass *)

\* Roots and inline assembly are nobody's operands and end no block, so they keep
\* the checks that the first loop gave them.
Attributed ==
  \A c, i \in F.instrs : F.kind[i] \in {"root", "asm"} =>
    /\ c \in CBI[i] => c \in InitialChecks(F)[i]
    /\ i \in IBS[c] => c \in InitialChecks(F)[i]

\* Nothing is deleted before the function has costs, and no check waits for the
\* removal loop when the loop does not run: CheckCosts may be the previous
\* function's by then, and nobody reads it.
NotYet ==
  /\ phase # "remove" => unvisited = {}
  /\ phase \in {"worklist", "blocks", "found"} => erased = {} /\ nonAtomic = {}

\* A check that was reached and was too expensive.
Removed(c) == c \in F.instrs /\ IsRoot(F, c) /\ TooExpensive(c) /\ c \notin unvisited

\* What has been deleted is such a check, or assembly behind one.
ErasedBehind ==
  \A i \in erased :
    \/ Removed(i)
    \/ F.kind[i] = "asm" /\ \E c \in InstrumentationInBB(F, i) : Removed(c)

AsapInv ==
  /\ SCIInv
  /\ Attributed
  /\ AsapTypeOK
  /\ NotYet
  /\ unvisited \subseteq DOMAIN CheckCosts
  /\ ErasedBehind
  /\ nonAtomic \subseteq SCInstructions

-----------------------------------------------------------------------------
\* Instructions of a block are in order, and an instruction is in one block: there
\* is at most one last root before it.
LEMMA OneInstrumentationInBB ==
  ASSUME NEW f, WellFormed(f), NEW i \in f.instrs,
         NEW c \in InstrumentationInBB(f, i), NEW d \in InstrumentationInBB(f, i)
  PROVE  c = d
<1>1. PICK b \in f.blocks : \A a \in f.blocks : InBlock(f, i, a) => a = b
  BY DEF WellFormed
<1>2. ASSUME NEW r \in InstrumentationInBB(f, i)
      PROVE  \E m, n \in 1..Len(f.body[b]) : m < n /\ f.body[b][m] = r /\ f.body[b][n] = i
  <2>1. PICK a \in f.blocks : \E m, n \in 1..Len(f.body[a]) :
               m < n /\ f.body[a][m] = r /\ f.body[a][n] = i
    BY <1>2 DEF InstrumentationInBB, Precedes
  <2>2. InBlock(f, i, a)
    BY <2>1 DEF InBlock
  <2>3. a = b
    BY <1>1, <2>2
  <2> QED BY <2>1, <2>3
<1>3. PICK m, n \in 1..Len(f.body[b]) : m < n /\ f.body[b][m] = c /\ f.body[b][n] = i
  BY <1>2
<1>4. PICK p, q \in 1..Len(f.body[b]) : p < q /\ f.body[b][p] = d /\ f.body[b][q] = i
  BY <1>2
<1>5. m \in Int /\ p \in Int
  BY WellFormed(f) DEF WellFormed
<1>6. CASE m = p
  BY <1>3, <1>4, <1>6
<1>7. CASE m < p
  <2>1. Precedes(f, c, d)
    BY <1>3, <1>4, <1>7 DEF Precedes
  <2> QED BY <2>1 DEF InstrumentationInBB
<1>8. CASE p < m
  <2>1. Precedes(f, d, c)
    BY <1>3, <1>4, <1>8 DEF Precedes
  <2> QED BY <2>1 DEF InstrumentationInBB
<1> QED BY <1>5, <1>6, <1>7, <1>8

\* The first loop gives a root itself, and assembly the root before it.
LEMMA InitialChecksOf ==
  ASSUME NEW f, WellFormed(f), NEW i \in f.instrs, NEW c \in InitialChecks(f)[i]
  PROVE  /\ c \in f.instrs /\ IsRoot(f, c)
         /\ f.kind[i] = "root" => c = i
         /\ f.kind[i] = "asm" => c \in InstrumentationInBB(f, i)
BY DEF InitialChecks, IsRoot, IsFollower, InstrumentationInBB

LEMMA AsapInitInv == AsapInit => AsapInv
<1> SUFFICES ASSUME AsapInit PROVE AsapInv
  OBVIOUS
<1>1. SCIInv
  BY SCIInitInv DEF AsapInit
<1>2. Attributed
  BY DEF AsapInit, SCIInit, Attributed, NoChecks
<1>3. AsapTypeOK
  BY <1>1 DEF AsapInit, SCIInit, AsapTypeOK, SCIInv
<1> QED BY <1>1, <1>2, <1>3 DEF AsapInit, SCIInit, AsapInv, NotYet, ErasedBehind

\* The next function: everything is forgotten, except for the costs.
LEMMA VisitFunctionInv == AsapInv /\ VisitFunction => AsapInv'
<1> SUFFICES ASSUME AsapInv, VisitFunction PROVE AsapInv'
  OBVIOUS
<1>1. SCIInv'
  BY RunOnFunctionInv DEF AsapInv, VisitFunction
<1>2. Attributed'
  BY DEF Attributed, VisitFunction, RunOnFunction, NoChecks
<1>3. unvisited' = {} /\ phase' = "worklist" /\ CheckCosts' = CheckCosts
  BY DEF AsapInv, NotYet, VisitFunction, RunOnFunction
<1>4. AsapTypeOK'
  BY <1>1, <1>3 DEF AsapInv, AsapTypeOK, SCIInv, VisitFunction
<1> QED BY <1>1, <1>2, <1>3, <1>4 DEF AsapInv, VisitFunction, NotYet, ErasedBehind

\* A step of the detection pass.
LEMMA AnalyzeInv == AsapInv /\ Analyze => AsapInv'
<1> SUFFICES ASSUME AsapInv, Analyze PROVE AsapInv'
  OBVIOUS
<1>1. SCIInv'
  BY SkipInstructionInv, AddInstructionInv, SkipBlockInv, QueuePredTerminatorInv, PhaseChangeInv
     DEF AsapInv, Analyze, FindInstructions
<1>2. Attributed'
  <2>1. CASE \E i \in Worklist : AddInstruction(i)
    <3>1. PICK i \in Worklist : AddInstruction(i)
      BY <2>1
    <3>2. \A o \in F.ops[i] : F.kind[o] \notin {"root", "asm"}
      BY DEF AsapInv, SCIInv, SCITypeOK, WellFormed, Void
    <3> QED BY <3>1, <3>2 DEF AddInstruction, Attributed, AsapInv, SCIInv, SCITypeOK
  <2>2. CASE \E b \in BlockWorklist : QueuePredTerminator(b)
    <3>1. PICK b \in BlockWorklist : QueuePredTerminator(b)
      BY <2>2
    <3>2. PICK p \in F.blocks :
            /\ F.kind[Terminator(F, p)] \in {"br", "condbr"}
            /\ CBI' = [CBI EXCEPT ![Terminator(F, p)] = @ \cup CBI[FirstInstr(F, b)]]
      BY <3>1 DEF QueuePredTerminator, Unnecessary, GuardsOnlyChecks
    <3> QED BY <3>1, <3>2 DEF QueuePredTerminator, Attributed, AsapInv, SCIInv, SCITypeOK
  <2>3. CASE UNCHANGED <<F, CBI, IBS>>
    BY <2>3 DEF Attributed, AsapInv
  <2> QED BY <2>1, <2>2, <2>3 DEF Analyze, FindInstructions, SkipInstruction, WorklistEmpty,
       SkipBlock, BlockWorklistEmpty
<1>3. /\ phase \in {"worklist", "blocks"} /\ phase' \in {"worklist", "blocks", "found"}
      /\ UNCHANGED <<F, SCRoots, asapVars>> /\ SCInstructions \subseteq SCInstructions'
  BY DEF Analyze, FindInstructions, SkipInstruction, AddInstruction, WorklistEmpty,
     SkipBlock, QueuePredTerminator, BlockWorklistEmpty
<1>4. erased = {} /\ nonAtomic = {} /\ unvisited = {}
  BY <1>3 DEF AsapInv, NotYet
<1>5. AsapTypeOK'
  BY <1>1, <1>3 DEF AsapTypeOK, AsapInv, SCIInv, asapVars
<1> QED BY <1>1, <1>2, <1>3, <1>4, <1>5 DEF AsapInv, NotYet, ErasedBehind, asapVars

\* The end of the analysis, and of the loop.
LEMMA PassChangeInv ==
  ASSUME AsapInv, ComputeCosts \/ NoCosts \/ EndFunction \/ UNCHANGED vars
  PROVE  AsapInv'
<1>1. UNCHANGED <<todo, F, Worklist, BlockWorklist, CBI, SCInstructions, SCRoots, IBS,
                  erased, nonAtomic>>
  BY DEF ComputeCosts, NoCosts, EndFunction, vars, sciVars, asapVars
<1>2. SCIInv'
  <2>1. SCITypeOK'
    BY <1>1 DEF AsapInv, SCIInv, SCITypeOK, ComputeCosts, NoCosts, EndFunction, vars, sciVars
  <2>2. (phase = "found" => Worklist = {})'
    BY <1>1 DEF AsapInv, SCIInv, ComputeCosts, NoCosts, EndFunction, vars, sciVars
  <2> QED BY <1>1, <2>1, <2>2 DEF AsapInv, SCIInv, Closed, Inherited, RootsPending, ClosurePending,
       QueuedBranches
<1>3. Attributed' /\ (nonAtomic \subseteq SCInstructions)'
  BY <1>1 DEF Attributed, AsapInv
<1>4. /\ AsapTypeOK'
      /\ NotYet'
      /\ (unvisited \subseteq DOMAIN CheckCosts)'
      /\ ErasedBehind'
  <2>1. CASE ComputeCosts
    BY <1>1, <1>2, <2>1 DEF AsapInv, NotYet, ComputeCosts, ErasedBehind, AsapTypeOK, SCIInv
  <2>2. CASE NoCosts
    BY <1>1, <1>2, <2>2 DEF AsapInv, NotYet, NoCosts, ErasedBehind, AsapTypeOK, SCIInv
  <2>3. CASE EndFunction \/ UNCHANGED vars
    <3>1. UNCHANGED <<CheckCosts, unvisited>>
      BY <2>3 DEF EndFunction, vars, asapVars
    <3>2. \/ phase' = phase
          \/ phase = "remove" /\ phase' = "idle" /\ unvisited = {}
      BY <2>3 DEF EndFunction, vars, sciVars
    <3>3. NotYet'
      BY <1>1, <3>1, <3>2 DEF NotYet, AsapInv
    <3>4. phase' \in {"remove", "idle"} => phase \in {"remove", "idle"}
      BY <3>2
    <3>5. AsapTypeOK'
      BY <1>1, <1>2, <3>1, <3>4 DEF AsapInv, AsapTypeOK, SCIInv
    <3>6. (unvisited \subseteq DOMAIN CheckCosts)' /\ ErasedBehind'
      BY <1>1, <3>1 DEF AsapInv, ErasedBehind, Removed, TooExpensive
    <3> QED BY <3>3, <3>5, <3>6
  <2> QED BY <2>1, <2>2, <2>3
<1> QED BY <1>2, <1>3, <1>4 DEF AsapInv

LEMMA KeepCheckInv ==
  ASSUME AsapInv, NEW c \in unvisited, KeepCheck(c)
  PROVE  AsapInv'
<1>1. UNCHANGED <<sciVars, CheckCosts, erased, nonAtomic>> /\ unvisited' = unvisited \ {c}
  BY DEF KeepCheck
<1>2. SCIInv'
  BY <1>1, PhaseChangeInv DEF AsapInv
<1> QED BY <1>1, <1>2 DEF AsapInv, Attributed, AsapTypeOK, NotYet, ErasedBehind, Removed, TooExpensive, SCIInv,
     sciVars

LEMMA RemoveCheckInv ==
  ASSUME AsapInv, NEW c \in unvisited, RemoveCheck(c)
  PROVE  AsapInv'
<1>1. /\ UNCHANGED <<sciVars, CheckCosts>> /\ unvisited' = unvisited \ {c}
      /\ phase = "remove" /\ CheckCosts[c] >= CostThreshold
      /\ erased' = erased \cup AsmsOf(c) \cup {c}
      /\ nonAtomic' = nonAtomic \cup LoadsOf(c)
  BY DEF RemoveCheck
<1>2. SCIInv'
  BY <1>1, PhaseChangeInv DEF AsapInv
<1>3. c \in F.instrs /\ IsRoot(F, c) /\ TooExpensive(c)
  BY <1>1 DEF AsapInv, AsapTypeOK, SCITypeOK, SCIInv, RootsPending, TooExpensive
<1>4. Removed(c)'
  BY <1>1, <1>3 DEF Removed, TooExpensive, sciVars
<1>5. IBS[c] \subseteq SCInstructions /\ IBS[c] \subseteq F.instrs
  BY <1>3 DEF AsapInv, SCIInv, SCITypeOK, Inherited
<1>6. AsapTypeOK'
  BY <1>1, <1>2, <1>3, <1>5 DEF AsapInv, AsapTypeOK, SCIInv, sciVars, AsmsOf, LoadsOf
<1>7. (nonAtomic \subseteq SCInstructions)'
  BY <1>1, <1>5 DEF AsapInv, sciVars, LoadsOf
<1>8. ErasedBehind'
  <2> SUFFICES ASSUME NEW i \in erased'
               PROVE  \/ Removed(i)'
                      \/ F.kind[i] = "asm" /\ \E d \in InstrumentationInBB(F, i) : Removed(d)'
    BY <1>1 DEF ErasedBehind, sciVars
  <2>1. CASE i \in erased
    BY <1>1, <2>1 DEF AsapInv, ErasedBehind, Removed, TooExpensive, sciVars
  <2>2. CASE i \in AsmsOf(c)
    <3>1. F.kind[i] = "asm" /\ i \in F.instrs /\ i \in IBS[c]
      BY <2>2, <1>5 DEF AsmsOf
    <3>2. c \in InitialChecks(F)[i]
      BY <3>1, <1>3 DEF AsapInv, Attributed
    <3>3. c \in InstrumentationInBB(F, i)
      BY <3>1, <3>2, InitialChecksOf DEF AsapInv, SCIInv, SCITypeOK
    <3> QED BY <3>1, <3>3, <1>4
  <2>3. CASE i = c
    BY <2>3, <1>4
  <2> QED BY <1>1, <2>1, <2>2, <2>3
<1> QED BY <1>1, <1>2, <1>6, <1>7, <1>8 DEF AsapInv, Attributed, NotYet, sciVars

\* The invariant holds in every state of the three passes.
THEOREM AsapInvariant == AsapSpec => []AsapInv
<1>1. AsapInv /\ [AsapNext]_vars => AsapInv'
  <2> SUFFICES ASSUME AsapInv, [AsapNext]_vars PROVE AsapInv'
    OBVIOUS
  <2>1. CASE VisitFunction
    BY <2>1, VisitFunctionInv
  <2>2. CASE Analyze
    BY <2>2, AnalyzeInv
  <2>3. CASE ComputeCosts \/ NoCosts \/ EndFunction \/ UNCHANGED vars
    BY <2>3, PassChangeInv
  <2>4. CASE \E c \in unvisited : RemoveCheck(c) \/ KeepCheck(c)
    BY <2>4, RemoveCheckInv, KeepCheckInv
  <2>5. CASE Finished
    BY <2>5, PassChangeInv DEF Finished, ModuleDone, vars
  <2> QED BY <2>1, <2>2, <2>3, <2>4, <2>5 DEF AsapNext
<1> QED BY <1>1, AsapInitInv, PTL DEF AsapSpec

\* All state of the three passes belongs to the function they run on.
THEOREM AsapTypeCorrect == AsapSpec => []AsapTypeOK
<1>1. AsapInv => AsapTypeOK
  BY DEF AsapInv
<1> QED BY <1>1, AsapInvariant, PTL

\* removeExpensiveChecks never deletes a part of a check that is below the threshold.
THEOREM KeptChecksStayIntact == AsapSpec => []KeptChecksIntact
<1>1. AsapInv => KeptChecksIntact
  BY DEF AsapInv, ErasedBehind, Removed, KeptChecksIntact
<1> QED BY <1>1, AsapInvariant, PTL

\* optimizeCheckAway only relaxes loads that nothing but sanity checks uses.
THEOREM OnlyCheckLoadsEverRelaxed == AsapSpec => []OnlyCheckLoadsRelaxed
<1>1. AsapInv => OnlyCheckLoadsRelaxed
  BY DEF AsapInv, SCIInv, Closed, OnlyCheckLoadsRelaxed
<1> QED BY <1>1, AsapInvariant, PTL

\* optimizeCheckAway never reaches an instruction that was deleted with an earlier
\* check: checks do not share their assembly.
THEOREM NeverErasedTwice == AsapSpec => []NoSecondErase
<1>1. ASSUME AsapInv, NEW c \in unvisited, TooExpensive(c), NEW i \in erased
      PROVE  i # c /\ i \notin IBS[c]
  <2>1. /\ WellFormed(F) /\ c \in F.instrs /\ i \in F.instrs
        /\ IsRoot(F, c)
    BY <1>1 DEF AsapInv, AsapTypeOK, SCITypeOK, SCIInv, RootsPending
  <2>2. CASE Removed(i)
    <3>1. i # c /\ F.kind[i] = "root"
      BY <2>2, <1>1 DEF Removed, IsRoot
    <3>2. ASSUME i \in IBS[c] PROVE FALSE
      <4>1. c \in InitialChecks(F)[i]
        BY <2>1, <3>1, <3>2, <1>1 DEF AsapInv, Attributed
      <4> QED BY <4>1, <2>1, <3>1, InitialChecksOf
    <3> QED BY <3>1, <3>2
  <2>3. CASE F.kind[i] = "asm" /\ \E d \in InstrumentationInBB(F, i) : Removed(d)
    <3>1. PICK d \in InstrumentationInBB(F, i) : Removed(d)
      BY <2>3
    <3>2. c # d /\ c # i
      BY <1>1, <2>1, <2>3, <3>1 DEF Removed, IsRoot
    <3>3. ASSUME i \in IBS[c] PROVE FALSE
      <4>1. c \in InitialChecks(F)[i]
        BY <2>1, <2>3, <3>3, <1>1 DEF AsapInv, Attributed
      <4>2. c \in InstrumentationInBB(F, i)
        BY <4>1, <2>1, <2>3, InitialChecksOf
      <4> QED BY <4>2, <3>2, <2>1, OneInstrumentationInBB
    <3> QED BY <3>2, <3>3
  <2> QED BY <2>2, <2>3, <1>1 DEF AsapInv, ErasedBehind
<1>2. AsapInv => NoSecondErase
  BY <1>1 DEF NoSecondErase
<1> QED BY <1>2, AsapInvariant, PTL

=============================================================================
