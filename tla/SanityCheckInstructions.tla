----------------------- MODULE SanityCheckInstructions -----------------------
(***************************************************************************)
(* The function pass that finds the instructions belonging to sanity       *)
(* checks: lib/Transforms/SanityChecks/SanityCheckInstructions.cpp.        *)
(*                                                                         *)
(* The pass seeds a worklist with the instrumentation calls of a function  *)
(* (the check roots), and then alternates between two loops: one moves     *)
(* instructions that only sanity checks use into SCInstructions and        *)
(* attributes them to checks, the other looks for blocks that contain only *)
(* sanity check code, and queues the branch that leads to them.  Both      *)
(* worklists are SmallPtrSets, so the order in which elements are popped   *)
(* depends on pointer values: here it is arbitrary.                        *)
(*                                                                         *)
(* The code of a function is a record:                                     *)
(*   instrs, blocks   its instructions and basic blocks                    *)
(*   body             the sequence of instructions of each block           *)
(*   kind             what the pass distinguishes about an instruction     *)
(*   ops              the instructions an instruction has as operands      *)
(*   succ             the successors of each block                         *)
(*   dom              DominatorTree::getDescendants: the blocks dominated  *)
(*                    by a block, {} for an unreachable block              *)
(***************************************************************************)
EXTENDS Integers, Sequences, FiniteSets

CONSTANTS
  Functions,  \* the names of the functions that are compiled
  IR,         \* the code of each function
  Modules     \* the sequences of functions that are compiled together

Kinds == {"root", "asm", "load", "unreachable", "br", "condbr", "other"}

\* Instructions that produce no value, and thus have no users.
Void == {"root", "asm", "unreachable", "br", "condbr"}

\* Instruction j comes before instruction k in the same basic block.
Precedes(f, j, k) ==
  \E b \in f.blocks : \E m, n \in 1..Len(f.body[b]) :
     m < n /\ f.body[b][m] = j /\ f.body[b][n] = k

InBlock(f, i, b) == \E k \in 1..Len(f.body[b]) : f.body[b][k] = i

(***************************************************************************)
(* What LLVM IR and its dominator tree guarantee.                          *)
(***************************************************************************)
WellFormed(f) ==
  /\ f.body \in [f.blocks -> Seq(f.instrs)]
  /\ f.kind \in [f.instrs -> Kinds]
  /\ f.ops  \in [f.instrs -> SUBSET f.instrs]
  /\ f.succ \in [f.blocks -> SUBSET f.blocks]
  /\ f.dom  \in [f.blocks -> SUBSET f.blocks]
  /\ \A b \in f.blocks : Len(f.body[b]) > 0
  /\ \A i \in f.instrs : \E b \in f.blocks :
        InBlock(f, i, b) /\ \A c \in f.blocks : InBlock(f, i, c) => c = b
  /\ \A i \in f.instrs : ~ Precedes(f, i, i)
  /\ \A u \in f.instrs : \A i \in f.ops[u] : f.kind[i] \notin Void

ASSUME FunctionsWellFormed == \A f \in Functions : WellFormed(IR[f])

ASSUME ModulesAreFunctions == Modules \subseteq Seq(Functions) \ {<<>>}

VARIABLES
  todo,           \* the functions the pass manager has still to visit
  phase,          \* which loop of findInstructions, or which later pass, runs
  F,              \* the code of the function the pass runs on
  Worklist,       \* instructions used by sanity checks
  BlockWorklist,  \* blocks that contain sanity check instructions
  CBI,            \* ChecksByInstruction
  SCInstructions, \* instructions that belong to sanity checks
  SCRoots,        \* the instrumentation calls
  IBS             \* InstructionsBySanityCheck

sciVars == <<todo, phase, F, Worklist, BlockWorklist, CBI, SCInstructions, SCRoots, IBS>>

-----------------------------------------------------------------------------
Users(f, i) == {u \in f.instrs : i \in f.ops[u]}

Parent(f, i) == CHOOSE b \in f.blocks : InBlock(f, i, b)

FirstInstr(f, b) == f.body[b][1]

Terminator(f, b) == f.body[b][Len(f.body[b])]

Preds(f, b) == {p \in f.blocks : b \in f.succ[p]}

IsRoot(f, i) == f.kind[i] = "root"

\* Instructions added by the instrumentation tool after the check.
IsFollower(f, i) == f.kind[i] \in {"asm", "unreachable", "br"}

\* The value of InstrumentationInBB when the initialization loop reaches i: the
\* last root before i in its block.
InstrumentationInBB(f, i) ==
  {r \in f.instrs :
     /\ IsRoot(f, r) /\ Precedes(f, r, i)
     /\ ~ \E s \in f.instrs : IsRoot(f, s) /\ Precedes(f, r, s) /\ Precedes(f, s, i)}

\* Mutant: a root is attributed to the root before it.
InitialChecks_Late(f) ==
  [i \in f.instrs |-> IF IsRoot(f, i) \/ IsFollower(f, i) THEN InstrumentationInBB(f, i) ELSE {}]

\* Mutant: an instruction after several roots is attributed to all of them.
InitialChecks_AllBefore(f) ==
  [i \in f.instrs |-> IF IsRoot(f, i) THEN {i}
                      ELSE IF IsFollower(f, i) THEN {r \in f.instrs : IsRoot(f, r) /\ Precedes(f, r, i)}
                      ELSE {}]

\* ChecksByInstruction after the initialization loop.
InitialChecks(f) ==
  [i \in f.instrs |-> IF IsRoot(f, i) THEN {i}
                      ELSE IF IsFollower(f, i) THEN InstrumentationInBB(f, i)
                      ELSE {}]

\* Mutant: one use in a sanity check is enough.
onlyUsedInSanityChecks_Any(f, i) ==
  Users(f, i) = {} \/ Users(f, i) \cap SCInstructions # {}

onlyUsedInSanityChecks(f, i) == Users(f, i) \subseteq SCInstructions

onlyContainsInstructionsFrom(f, b, Instrs) ==
  \A k \in 1..Len(f.body[b]) : f.body[b][k] \in Instrs

onlyDominatesInstructionsFrom(f, b, Instrs) ==
  \A d \in f.dom[b] : onlyContainsInstructionsFrom(f, d, Instrs)

getDominanceFrontier(f, b) == (UNION {f.succ[d] : d \in f.dom[b]}) \ f.dom[b]

\* BB and the code below it are only sanity checks, and the terminator of its
\* predecessor p is a branch that is not needed for anything else.
GuardsOnlyChecks(f, p, b, Instrs) ==
  /\ Preds(f, b) = {p}
  /\ onlyDominatesInstructionsFrom(f, b, Instrs)
  /\ \/ f.kind[Terminator(f, p)] = "br"
     \/ /\ f.kind[Terminator(f, p)] = "condbr"
        /\ \E s \in f.blocks : getDominanceFrontier(f, b) \subseteq {s}
        /\ getDominanceFrontier(f, b) \subseteq f.succ[p]

-----------------------------------------------------------------------------
NoChecks(f) == [i \in f.instrs |-> {}]

\* The pass manager has a module to compile and visits its first function.
SCIInit ==
  /\ todo \in Modules
  /\ phase = "idle"
  /\ F = IR[Head(todo)]
  /\ Worklist = {} /\ BlockWorklist = {}
  /\ CBI = NoChecks(F)
  /\ SCInstructions = {} /\ SCRoots = {}
  /\ IBS = NoChecks(F)

\* Mutant: SCInstructions is not cleared between functions.
RunOnFunction_Stale ==
  /\ phase = "idle"
  /\ todo # <<>>
  /\ todo' = Tail(todo)
  /\ phase' = "worklist"
  /\ F' = IR[Head(todo)]
  /\ SCRoots' = {i \in F'.instrs : IsRoot(F', i)}
  /\ IBS' = NoChecks(F')
  /\ CBI' = InitialChecks(F')
  /\ Worklist' = {i \in F'.instrs : CBI'[i] # {}}
  /\ BlockWorklist' = {}
  /\ UNCHANGED SCInstructions

\* runOnFunction: forget the previous function, and seed the worklist with the
\* roots of the new one and the instructions that follow them.
RunOnFunction ==
  /\ phase = "idle"
  /\ todo # <<>>
  /\ todo' = Tail(todo)
  /\ phase' = "worklist"
  /\ F' = IR[Head(todo)]
  /\ SCInstructions' = {}
  /\ SCRoots' = {i \in F'.instrs : IsRoot(F', i)}
  /\ IBS' = NoChecks(F')
  /\ CBI' = InitialChecks(F')
  /\ Worklist' = {i \in F'.instrs : CBI'[i] # {}}
  /\ BlockWorklist' = {}

IsNew(i) == i \notin SCInstructions

\* Mutant: an operand that was queued once is not queued again.
QueuedOperands_Once(i) == {o \in F.ops[i] : CBI[o] = {}}

QueuedOperands(i) == F.ops[i]

\* One iteration of the first inner loop, on an instruction that is used
\* elsewhere, or that is known already.
SkipInstruction(i) ==
  /\ phase = "worklist"
  /\ i \in Worklist
  /\ ~ onlyUsedInSanityChecks(F, i) \/ ~ IsNew(i)
  /\ Worklist' = Worklist \ {i}
  /\ UNCHANGED <<todo, phase, F, BlockWorklist, CBI, SCInstructions, SCRoots, IBS>>

\* The other iterations: the instruction becomes a sanity check instruction,
\* its operands are queued and inherit its checks.
AddInstruction(i) ==
  /\ phase = "worklist"
  /\ i \in Worklist
  /\ onlyUsedInSanityChecks(F, i)
  /\ IsNew(i)
  /\ SCInstructions' = SCInstructions \cup {i}
  /\ Worklist' = (Worklist \ {i}) \cup QueuedOperands(i)
  /\ CBI' = [o \in F.instrs |-> IF o \in F.ops[i] THEN CBI[o] \cup CBI[i] ELSE CBI[o]]
  /\ BlockWorklist' = BlockWorklist \cup {Parent(F, i)}
  /\ IBS' = [c \in F.instrs |-> IF c \in CBI[i] THEN IBS[c] \cup {i} ELSE IBS[c]]
  /\ UNCHANGED <<todo, phase, F, SCRoots>>

WorklistEmpty ==
  /\ phase = "worklist"
  /\ Worklist = {}
  /\ phase' = "blocks"
  /\ UNCHANGED <<todo, F, Worklist, BlockWorklist, CBI, SCInstructions, SCRoots, IBS>>

\* Mutant: where the code below the block joins the rest is not looked at.
Unnecessary_NoFrontier(p, b) ==
  Preds(F, b) = {p} /\ onlyDominatesInstructionsFrom(F, b, SCInstructions)

\* The terminator of p is needed only to decide whether the checks in b run.
Unnecessary(p, b) == GuardsOnlyChecks(F, p, b, SCInstructions)

\* Mutant: a block is erased from the worklist only after the tests.
SkipBlock_NoErase(b) ==
  /\ phase = "blocks"
  /\ b \in BlockWorklist
  /\ ~ \E p \in F.blocks : Unnecessary(p, b)
  /\ UNCHANGED sciVars

\* One iteration of the second inner loop that ends in a continue, or whose
\* predecessor does not end in a branch.
SkipBlock(b) ==
  /\ phase = "blocks"
  /\ b \in BlockWorklist
  /\ ~ \E p \in F.blocks : Unnecessary(p, b)
  /\ BlockWorklist' = BlockWorklist \ {b}
  /\ UNCHANGED <<todo, phase, F, Worklist, CBI, SCInstructions, SCRoots, IBS>>

\* The other iterations: the predecessor's terminator is queued, attributed to
\* the checks of the block's first instruction.
QueuePredTerminator(b) ==
  /\ phase = "blocks"
  /\ b \in BlockWorklist
  /\ BlockWorklist' = BlockWorklist \ {b}
  /\ \E p \in F.blocks :
       /\ Unnecessary(p, b)
       /\ Worklist' = Worklist \cup {Terminator(F, p)}
       /\ CBI' = [CBI EXCEPT ![Terminator(F, p)] = @ \cup CBI[FirstInstr(F, b)]]
  /\ UNCHANGED <<todo, phase, F, SCInstructions, SCRoots, IBS>>

\* The condition of the outer loop.
BlockWorklistEmpty ==
  /\ phase = "blocks"
  /\ BlockWorklist = {}
  /\ phase' = IF Worklist = {} THEN "found" ELSE "worklist"
  /\ UNCHANGED <<todo, F, Worklist, BlockWorklist, CBI, SCInstructions, SCRoots, IBS>>

FindInstructions ==
  \/ \E i \in Worklist : SkipInstruction(i) \/ AddInstruction(i)
  \/ WorklistEmpty
  \/ \E b \in BlockWorklist : SkipBlock(b) \/ QueuePredTerminator(b)
  \/ BlockWorklistEmpty

\* The pass manager goes on to the next function.
FunctionDone ==
  /\ phase = "found"
  /\ phase' = "idle"
  /\ UNCHANGED <<todo, F, Worklist, BlockWorklist, CBI, SCInstructions, SCRoots, IBS>>

\* opt -sanity-check-instructions has processed the whole module.
ModuleDone == phase = "idle" /\ todo = <<>> /\ UNCHANGED sciVars

SCINext ==
  \/ RunOnFunction
  \/ FindInstructions
  \/ FunctionDone
  \/ ModuleDone

SCISpec == SCIInit /\ [][SCINext]_sciVars

\* The pass is a single thread that runs until it returns.
SCIFairSpec == SCISpec /\ WF_sciVars(SCINext)

-----------------------------------------------------------------------------
\* Types, and all state belongs to the function the pass runs on.
SCITypeOK ==
  /\ todo \in Seq(Functions)
  /\ phase \in {"idle", "worklist", "blocks", "found", "remove"}
  /\ WellFormed(F)
  /\ Worklist \subseteq F.instrs
  /\ BlockWorklist \subseteq F.blocks
  /\ CBI \in [F.instrs -> SUBSET F.instrs]
  /\ SCInstructions \subseteq F.instrs
  /\ SCRoots \subseteq F.instrs
  /\ IBS \in [F.instrs -> SUBSET F.instrs]

\* Once the pass has found its instructions, every root has an entry in
\* InstructionsBySanityCheck that contains the root itself: the map.at() of
\* getInstructionsBySanityCheck never throws, whatever the order of the pops.
RootsAttributed ==
  phase = "found" => \A r \in SCRoots : r \in SCInstructions /\ r \in IBS[r]

\* The result is closed: every value that only sanity check instructions use,
\* and that at least one uses, is a sanity check instruction.  An operand that
\* is popped too early is queued again when its last user is added.
ClosureComplete ==
  phase = "found" =>
    \A i \in F.instrs :
      Users(F, i) # {} /\ Users(F, i) \subseteq SCInstructions => i \in SCInstructions

\* A check owns the operands of what it owns: whatever the order in which
\* shared operands are reached, no check loses one of them.
OperandsAttributed ==
  \A c, i \in F.instrs : \A o \in F.ops[i] :
     i \in IBS[c] /\ o \in SCInstructions => o \in IBS[c]

\* A conditional branch is classified as a sanity check only if one of its
\* sides, up to the point where the sides join, has only sanity check
\* instructions (the pattern in the comment of findInstructions; the branch of
\* test_non_dominating_branch.c must not be classified so).
BranchesGuardOnlyChecks ==
  \A p \in F.blocks :
    /\ Terminator(F, p) \in SCInstructions
    /\ F.kind[Terminator(F, p)] = "condbr"
    => \E b \in F.succ[p] : GuardsOnlyChecks(F, p, b, SCInstructions)

\* The two nested loops terminate, although blocks queue terminators and
\* instructions queue blocks.
Terminates == (phase = "worklist") ~> (phase = "found")

=============================================================================
