# A specification of the C-minus compiler

The repository is a student compiler for C-minus: a flex and bison front end, a
builder that turns the syntax tree into a light LLVM-like IR, optimisation passes
over that IR, and a code generator for LoongArch. It lives in the directory `Lab`:
its sources under `Lab/src`, its headers under `Lab/include`. Paths below are
relative to these two.

The compiler is one sequential process. Nothing in it is concurrent, nothing is
persisted, nothing is sent. What makes it hard is elsewhere: fixpoints whose
termination and result depend on the shape of a graph; traversals that change the
graph they traverse; containers of pointers whose order is not determined; data
that one pass leaves and another one relies on; generated code that is only right
if hundreds of small conventions about slots, registers and immediates agree. The
modules are about these.

## The system

| part | source | state it keeps | operations |
|---|---|---|---|
| Lexer, grammar, syntax tree | `parser`, `common/syntax_tree.c` | the tree | tokens and reductions |
| AST construction | `common/ast.cpp` | the AST | one recursive translation |
| CminusfBuilder | `cminusfc/cminusf_builder.cpp` | scope stack, insert point, `context` (function, value, type, `is_lval`) | one visitor for each node of the AST |
| Control flow graph | `lightir/BasicBlock`, `Function`, `Instruction` | list of blocks, list of instructions, `pre_bbs_`, `succ_bbs_` | create, insert, branch, return, remove |
| IR values and use lists | `lightir/Value`, `User` | operands and use lists, each mirroring the other | `set_operand`, `add_use`, `remove_use`, `replace_all_use_with` |
| IRBuilder, instructions | `lightir/IRBuilder.hpp`, `Instruction.cpp` | the insert block | one `create_` for each instruction, whose constructor asserts types |
| Types, constants, module | `lightir/Type`, `Constant`, `Module` | interned types and constants | `get` |
| Dominators | `passes/Dominators.cpp` | `postorder`, `doms`, `idom_`, `dom_frontier_`, `dom_tree_succ_` | depth-first search, fixpoint, frontiers, tree |
| Mem2Reg | `passes/Mem2Reg.cpp` | definition sets, stacks of values, the IR | `generate_phi`, `rename` |
| FuncInfo | `passes/FuncInfo.cpp` | `is_pure`, `worklist` | mark the bodies, propagate to callers |
| DeadCode | `passes/DeadCode.cpp` | `marked`, `work_list`, the IR | `mark`, `sweep`, rounds |
| CodeGen | `codegen/CodeGen.cpp`, `Register` | `context` (offsets, frame size, label counter), the output | `allocate`, prologue, one `gen_` for each instruction, epilogue |
| IRprinter, naming | `lightir/IRprinter.cpp`, `Function::set_instr_name` | names | print |
| Driver | `cminusfc/cminusfc.cpp`, `PassManager.hpp` | the options | run the parts in order |
| Runtime, logging | `io`, `common/logging.cpp` | none | input and output |

How they interact. The driver parses, lets the builder visit the AST, and then
runs Mem2Reg and DeadCode if asked to. Mem2Reg runs Dominators and reads its maps;
DeadCode runs FuncInfo once and reads its map in every round. All of them share the
IR: the builder appends to it and removes an unused block from it, Mem2Reg adds
phis, replaces uses and erases loads and stores, DeadCode detaches and erases.
CodeGen reads the result function by function.

What makes each part correct, and what is hard about it:

* **Control flow graph**: the two edge lists agree with the branches, nothing
  follows a terminator. Hard after removals, and because one instruction may list
  the same target twice.
* **CminusfBuilder**: whatever sits in the branches of an `if` or the body of a
  `while`, every block ends in exactly one terminator and every scope is left. Hard
  because returns nest anywhere and because an array subscript splits the block in
  the middle of an expression. For expressions: the type conversions are complete
  and `is_lval` is consumed by the visit it was set for.
* **Dominators**: immediate dominators, frontiers and tree are those of the
  definitions. Hard for loops, for nested joins, for blocks nothing reaches.
* **Mem2Reg**: no load changes its value on any path; the phis are where they are
  needed; the stacks balance over the recursion.
* **FuncInfo**: the fixpoint is the least one, whatever the recursion.
* **DeadCode**: nothing with an effect goes, nothing needed goes, everything else
  goes, and the rounds end.
* **CodeGen**: no two values share a byte of the frame; the code computes what the
  IR computes, calls what it calls, and returns with the caller's registers; no
  immediate exceeds its field.
* **Use lists**: they mirror the operands at every moment between two calls, in
  whatever order values are changed and destroyed, and positions stay right when an
  operand is removed. Hard because the loops walk lists that they change.
* **Grammar, AST, builder together**: the module prints what the program means. Hard
  because lists and precedence go through four representations, and because each
  visitor relies on what another one left in `context`.

## The modules

`Lists` and `Flow` are vocabulary: lists by position, and reachability, dominance,
immediate dominators and frontiers of a graph by definition. `CFG` is a function as a
record, with the operations of `BasicBlock`, `Function` and `BranchInst` on it.

`CfgBuilder` models the visitors of CminusfBuilder as far as they lay out blocks and
scopes. The recursion of the visitors is a continuation `todo`; what a visit finds
is chosen when it is visited, so that the runs range over all programs within the
bounds and not over a list of them. A `visit` is one action, or as many as it has
recursive calls plus one: `VisitSelectionStmt`, `BranchIf`, `FinishThen` and
`FinishElse` are the parts of `visit(ASTSelectionStmt)` between its calls of
`accept`. Expressions are a number of array accesses: each splits a block.

`Syntax` has the tree that each rule of the grammar builds, and
`transform_node_iter`, which makes the AST of it: two recursive algorithms, of which
the second undoes the lists of the first. A source program is given by its structure.

`IR` is the module under construction: types, values, and an operator for each
`create_` of IRBuilder. What the constructors of instructions assert is an operator for
each class, named for it, and `Asserted` takes them together. It is evaluated as a
property and not as a guard, so that a failing assertion shows.

`Visitors` models CminusfBuilder a second time and completely: every visitor with the
values and types, the scopes by name, and `context` (`val`, `is_lval`, `func`) as the
state that visitors leave to each other. Again a visit is cut where it calls `accept`,
and the continuation carries its locals. `CfgBuilder` remains because it ranges over
all shapes of functions, which `Visitors`, given whole programs, cannot.

`FrontEnd` composes the three: `Init` parses and transforms, `Visit` builds, and then
the module is executed, one action for each kind of instruction, with the library of
`io.c`. `Meaning` says what a program prints, by recursion over its structure: it
follows the language as the notes of the labs describe it (C's conversions, division
that truncates, a negative subscript that stops the program) and shares nothing with
the modules it is compared with but the programs and the arithmetic. Floats are in
quarters, products of which truncate. In two places where no readable text of the
repository decides, it follows the code, so there a disagreement could not show: the
right side of an assignment is evaluated before the subscript on the left, and a
function that ends without `return` gives 0.

`UseDef` is Value and User as a library: one action for each call, in any order, and
one for each round of a loop over operands or uses. A value is created, gets operands,
is replaced, and is destroyed, while others still refer to it or not. A use list is a
bag: its order is left open, so `begin()` is any entry.

`Dominators` models the pass step by step: a frame for each call of `dfs`, one step
for each movement of a finger in `intersect`, one for each step of a runner.
`std::map::operator[]` on a missing key gives a zero or a null pointer, as in the
code; a read of `doms` out of bounds is a choice over all numbers.

`Analysis` composes the two. Its runs analyse exactly what the builder can emit.

`Mem2Reg` models `generate_phi` and `rename` on a function given by its graph and
its loads and stores; a frame stands for a call of `rename`, and the orders the
code leaves to pointer values (the set of active variables, the children in the
dominator tree) are left open. What it takes from Dominators is the contract that
`Analysis` checks. After the pass it executes the function it was given beside the
one it made: `ExecuteStore`, `ExecuteLoad`, `Jump`.

`FuncInfo` is the purity analysis, one action for each body marked and each use
followed. `DeadCode` includes an instance of it as its first phase, and then models
`mark` (a worklist over operands), the two loops of `sweep`, and the rounds.

`Frame` is `CodeGen::allocate`. `Machine` says what the emitted instructions do: it
is external to the repository, as is the execution of the IR in `Execution`.
`CodeGen` extends both with one action for the prologue, each `gen_` function, each
label and the epilogue. `Execution` runs the emitted code. The comment that CodeGen
writes before the code of every instruction is the point where the two executions
meet: there the IR executes the instruction, and the machine goes on to the next
comment.

In `CodeGen` the widths of the machine are parameters. With a word of 12 bits and an
immediate of 7, a frame of 80 bytes takes the way that a frame of more than 2048
bytes takes on LoongArch, and the constants 7 and 500 take different ways. Memory
holds pieces of values, so that an access that meets a piece of one value, or two
values, reads junk; a called function leaves junk in every register but `$sp` and
`$fp` and in the memory below `$sp`. Float operations are those of small integers,
but the bits of a float are not those of the integer.

`MC...` modules hold the instances for TLC, `...Proofs` the proofs. `FlowProofs` has no
theorem about a pass: it holds the lemmas on lists, walks and dominance that the proofs
about the passes cite.

Mutants are definitions beside the real ones, one line each with a comment that says
so. They record for every property a bug that breaks it.

## The runs

| run | shows |
|---|---|
| `analysis` | every function of at most three control statements and one array access in which no dead block jumps to a live one (12 blocks): the builder keeps the graph well formed and the scopes balanced, and the analysis ends with the immediate dominators, frontiers and tree of the definitions |
| `analysis_hang` | violated: with a dead predecessor the analysis may not end |
| `mem2reg` | over an if, a loop and a loop around an if, with the listed contents of the blocks and two variables: phis at the iterated frontier, balanced stacks, no store left, and every load replaced by the value it would have read |
| `mem2reg_unassigned` | violated: without a store on every path, the pruning of variables with one definition loses values |
| `func_info` | the fixpoint is exact for every call graph of three functions, main and an external function |
| `dead_code` | effects are kept, needed code is intact at every moment, nothing else is left, and the rounds end |
| `codegen` | for a function of every kind of instruction: the code does what the function does, in sound frames, and returns with everything restored |
| `codegen_branch` | violated: integer phis of a target overwrite the condition |
| `codegen_copies` | violated: phis that exchange values are copied one after the other |
| `codegen_immediates` | violated: a frame of exactly 2048 bytes, or an alloca far away, exceeds the immediate |
| `front_end` | for the programs of `MCFrontEnd`, no constructor asserts, the output is at every moment a prefix of what the program means, and in the end all of it |
| `use_def` | for two users with up to three operands and a leaf, every sequence of calls: lists mirror operands, nothing refers to a destroyed value, and the loops end |

The bounds, and why they are enough.

* `MaxControl` counts `if`, `while` and further statements of a list, `MaxIndex`
  array accesses. Three of the first nest a loop in a loop in an if, put a join in
  a loop, and put statements after a return; one access splits each of the blocks
  of such a function in turn. `MaxBlocks` only has to be large enough
  (`BoundAssumption`).
* In `mem2reg` the three graphs are those of the builder; two variables can copy and
  swap each other, which is what makes stale replacements visible; seven visits
  (`MaxVisits`) take a loop around an if twice.
* C-minus has no prototypes, so a function calls itself and what was declared before
  it. Three functions are a chain of calls with recursion at every link; `f` may be
  called twice by the same function.
* In `dead_code` a cycle of two phis, a needed phi, recursion, and every chain of
  addresses the builder emits.
* In `codegen` the functions have every instruction with operands of every kind,
  constants on both sides of the immediate, frames on both sides of it, calls whose
  parameters alternate between the register files, branches, loops, joins.
* The programs of `front_end` are every nesting of two operators with each mixture of
  int and float, left and right; assignments to and from scalars, elements of both
  types and with subscripts that are expressions, assignments, floats and negative;
  calls with every mixture of arguments and results, with arrays handed on, and with
  recursion; two control statements in a row, nested once more, with returns and
  hidden names in them. No program reads a local variable it has not assigned (globals
  start at 0) or an element past the end of its array. Two operators are what precedence
  and associativity show on; two statements are what a terminated block shows on.
* In `use_def` three operands let `remove_operand` shift two, two users let a use go
  from one to the other and destroy each other's operands, and a user is its own
  operand. The proof is for any number.

Four constants keep the known defects out of the passing runs. `DeadJumps = FALSE`
asks for functions in which no dead block jumps to a live one, `Assigned = TRUE` for
functions that store before they load, and `Hazards = {}` leaves out phis of integers
behind conditional branches, phis that use phis of their own block, and frames and
allocas at the boundary. The violation runs put these back, one at a time.
`EqualNeighbours = FALSE` leaves out `remove_operand` where the next operand is the
same value, which nothing in the compiler does; with `TRUE`, `use_def` is violated.

## What the checks found

* `passes/Dominators.cpp:107` never returns for a function in which a block that
  nothing reaches jumps to a join. `if (...) return; else return;` at the end of the
  body of a `while` gives such a block. The notes of Lab 4 say such blocks are ignored.
* `passes/Dominators.cpp:81` takes such a predecessor for the block with number 0 and
  may read through its undefined dominator (`NoUndefinedRead`, when `DeadJumps` is
  `TRUE`).
* `passes/Mem2Reg.cpp:59` prunes a variable that one block defines. If a path reaches
  a load without passing that block and another one through it, `top()` of an empty
  stack (`:112`) replaces the load for both.
* `passes/FuncInfo.cpp:79` counts loads of globals and of array elements as impure;
  `FuncInfo.hpp:12` says only writes do (`Passes` and `TriviallyImpure` are the code).
  DeadCode is the safer for it.
* `lightir/User.cpp:33`: `remove_operand` moves the uses of later operands before it
  drops the use of the one removed. If the next operand is the same value, `remove_use`
  then takes both, since it takes every equal entry, and a use is lost. Latent: no
  caller.
* `lightir/Constant.cpp:61`: the constructor of ConstantArray calls `set_operand` on
  operands that were never added, which always asserts. Nothing creates one: global
  arrays are `ConstantZero`.
* `codegen/CodeGen.cpp:237` copies the operands of phis through `$t0` between loading
  the condition into `$t0` and testing it.
* `codegen/CodeGen.cpp:466` copies the operands of phis one after the other.
* `codegen/CodeGen.cpp:199` tests `-frame_size` and writes `frame_size`; `:309` writes
  an offset without a test.

## Fairness

Every part is a loop or a recursion in one thread: as long as a statement is left it
is executed. So liveness is stated under weak fairness of the whole next-state
relation (`Analysis`, `FuncInfo`, `DeadCode`, `Execution`, `FrontEnd`). In `UseDef`
only the rounds of a loop are fair: the next call need not come. In `Mem2Reg` only the
steps of the pass are fair: the execution that follows is the user's program and may
stop. No choice is assumed to be fair: the order of a set of pointers and the program
being compiled are arbitrary. A behaviour ends where the system ends, which is why
the runs do not check deadlock; that nothing stops early is what `Terminates`,
`PassEnds`, `Termination` and `Returns` say.

## The proofs

| theorem | says |
|---|---|
| `FuncInfoProofs!TypeCorrect` | `Spec => []TypeOK` of FuncInfo |
| `FuncInfoProofs!Exact` | when the analysis returns, the impure functions are exactly the least set that holds the trivially impure ones and is closed under callers |
| `FuncInfoProofs!Deserved` | on the way there no function is marked impure that is not |
| `DeadCodeProofs!TypeCorrect` | `Spec => []TypeOK` of DeadCode |
| `DeadCodeProofs!EffectsAreKept` | no round erases a store, a branch, a return, or a call of a function that is impure by definition |
| `DeadCodeProofs!LiveCodeStaysIntact` | at every moment, also between the two loops of `sweep`, what stays has all of its operands, still in their blocks |
| `DeadCodeProofs!NothingNeedlessLeft` | when the pass is done, every instruction left is needed |
| `CfgProofs!BuilderTyped` | type correctness of the function under construction |
| `CfgProofs!NothingFollowsTerminator` | the assertion of `add_instruction` never fails |
| `CfgProofs!EdgesAgree` | predecessor and successor lists mirror each other and the branches, after a removal too |
| `CfgProofs!FunctionWellFormed` | every finished function has only terminated blocks, and nothing jumps to its entry |
| `CfgProofs!ScopesMatch` | scopes are entered and left in step |
| `CfgProofs!BuiltReducible` | the graph of a finished function is reducible: an edge that closes a cycle of a path from the entry leads to a block that dominates its source |
| `AnalysisProofs!AnalysisLeavesTheFunction` | builder and analysis together implement the builder's specification |
| `AnalysisProofs!AnalysedIsWellFormed` | hence what `CfgProofs` shows holds of every function that is analysed |
| `AnalysisProofs!SearchNumbersSoundly` | the depth-first search numbers exactly the blocks that a walk from the entry reaches, dominated ones first |
| `AnalysisProofs!AnalysisTyped` | type correctness of builder and analysis |
| `AnalysisProofs!UndefinedNeverRead` | with `DeadJumps = FALSE`, as in the next five: neither `intersect` nor the last loop of `create_idom` reads a dominator that is undefined, so `doms` is never read out of bounds |
| `AnalysisProofs!FingersStayBelow` | whenever a block of a round is done, every stored dominator has a larger number than its block, and none is above a block that strictly dominates it |
| `AnalysisProofs!DominatorsOnlyRise` | no step of a round gives a stored dominator a smaller number, which bounds the rounds |
| `AnalysisProofs!IdomsAreImmediate` | `create_idom` ends with the immediate dominators, and with none for blocks that nothing reaches |
| `AnalysisProofs!FrontiersAreExact` | `create_dominance_frontier` ends with the dominance frontiers of the definition |
| `AnalysisProofs!TreeIsSpanning` | the tree that `rename` walks reaches every reachable block from the entry along one path, and nothing else |
| `Mem2RegProofs!PhisPlacedExactly` | the phis of a variable stand exactly at the iterated dominance frontier of its stores, one at each block |
| `Mem2RegProofs!PassTyped` | type correctness of phi placement and renaming; a call's position stays inside its block whatever is inserted, rewritten or erased |
| `Mem2RegProofs!PassLeavesNothingBehind` | when `rename` returns no store is left where control goes, every load there was replaced, and phis have at most one operand for each predecessor |
| `Mem2RegProofs!StacksAreTheCalls` | the stacks are exactly what the open calls of `rename` pushed, and never hold what `top()` of an empty stack gives |
| `Mem2RegProofs!PromotionKeepsMeaning` | the value that replaced a load is the one the load would have read, along every path and in every iteration |
| `CodeGenProofs!FramesAreSound` | in every frame all slots and areas are apart, aligned, and inside |
| `CodeGenProofs!CompilerAllocates` | code generation and the run of its code implement the specification of the frame |
| `CodeGenProofs!CompiledFramesAreSound` | hence the slots of every compiled function are sound, from the first step to the return |
| `CodeGenProofs!ImmediatesInReach` | every immediate of the code fits its field, except in a frame of exactly `2^(Low - 1)` bytes (2048) and for an alloca that is farther away than that |
| `UseDefProofs!MirrorCorrect` | with `EqualNeighbours = FALSE`, the use lists mirror the operands, and no operand is a destroyed value |
| `UseDefProofs!TypeCorrect` | under the same condition no use is in a list twice, in the middle of `remove_operand` either |

They hold for every value of the constants that satisfies the named assumptions, each of
which TLC evaluates in the run of its module:

* FuncInfo: `OrderAssumption` (the functions are visited each at least once) and
  `ModulesAssumption` (use lists hold functions).
* DeadCode: `OrderAssumption` again; `InstAssumption` (there is an instruction) and
  `ProgramsAssumption` (an instruction stands in one function, and its operands are
  instructions of that function).
* CfgBuilder: `BoundAssumption` (`MaxBlocks` is large enough for `MaxControl` and
  `MaxIndex`, which are any numbers). Analysis: `NullAssumption` (the null pointer is no
  block) and `DeadJumpsAssumption`.
* Mem2Reg: `VarAssumption`; `FunctionsAssumption` (the edge lists of the graph mirror
  each other, which is `EdgesAgree`; blocks hold loads and stores; a store stores what
  is computed there or the result of a load that dominates it, which is SSA form of what
  the builder emits).
* Frame: `LayoutsAssumption` (sizes are those of `Type::get_size`, an instruction occurs
  once). CodeGen: `FunctionsAssumption` (no block is empty, branches lead to blocks of the
  function, what an instruction loads is a constant, a global variable or a value: the
  constructors of instructions leave nothing else) and `ReachAssumption` (an immediate
  reaches the saved registers). Machine: `WidthAssumption`.
* UseDef: `UseDefAssumption` (users, leaves and the null pointer are different).

The last six theorems about the analysis have the hypothesis `DeadJumps = FALSE`: the
functions analysed are all those that the builder can emit in which every predecessor of
a reachable block is reachable itself (`LivePredecessors`). Without it
`UndefinedNeverRead` is false and `create_idom` need not end: see `analysis_hang`.

`StacksAreTheCalls` and `PromotionKeepsMeaning` have one more hypothesis: every function
satisfies `StoredFirst`, that is, every path to a load passes a store of the variable. It
is what C asks of a program whose meaning is defined, the functions of the run `mem2reg`
satisfy it, and without it both are false: `mem2reg_unassigned` is the counterexample.

The arguments.

* *Lists and graphs* (`FlowProofs`). A set of naturals that is not empty has a least
  element, so a set that holds 0 and every successor is `Nat`: that is the induction all
  proofs use, over sets and not over operators. The functions that define
  reachability and `Kept` are unfolded once (`ReachUnfolds`, `KeptUnfolds`). A block is
  reached exactly if a walk leads to it (`ReachByWalk`); dominators of a block are in
  line, and one tree child leads towards each block dominated.
* *FuncInfo.* Exactness is not inductive: in the middle of the run some impure
  functions are not marked yet. `IInv` is the invariant of a worklist: what is marked
  is impure; a marked function waits in the queue, or is in hand with the callers
  before the current use marked, or all of its callers are marked. With an empty
  queue and nothing in hand, the marked functions are closed under callers, so they
  include the least such set; by the first part they are included in it.
* *DeadCode.* FuncInfo's invariant is taken over through an instance of its proofs. On
  top of it the blocks of a function stay closed under operands and keep what is
  critical, and the marks of the round are closed under operands but for what waits
  or is in hand. So `sweep`, which detaches and then erases what is not marked, takes
  no operand of what stays.
* *CFG and builder.* `GoodFunction` says that the edges of a block are those of the
  branch it ends in and that unused blocks are untouched; every operation of `CFG` keeps it,
  whoever calls it. The rest of `Inv` is about the continuation: which blocks it still
  has to fill and that those are open (`Waiting`, `Closed`), what shape it has
  (`Shaped`), when the insert block is still open (`InsertFits`), which scopes it leaves
  (`ScopesLeft`), and that its remaining cost fits the bounds (`WithinBounds`).
* *Reducibility.* Every block gets a rank, a natural number or below all of them, in the
  order in which the builder goes on in blocks, which is not the order in which it
  creates them. `OrderInv` says that edges ascend, except those back to the head of a
  loop that encloses their source; the loops still open are on the continuation, and a
  block has to be filled inside them. A walk that ascends returns nowhere, so what closes
  a cycle is an edge to a head, and no walk enters a loop but through it
  (`BackEdgeDominates`, `ClosesALoop`).
* *Analysis.* The search stack is a walk from the entry; a finished block has all its
  successors visited; and every dominator of a finished block is on the stack or
  finished later. When the stack is empty the last two give the numbering. The
  numbers, fingers and maps stay within it by `AInv`.
* *Analysis, the rounds.* `IterInv` says that every dominator stored is already the
  immediate one. The iterative algorithm does not promise that: in general a round
  stores approximations. It holds here because of what the builder emits. The first
  predecessor of a block precedes it in the order of `BuiltReducible`, so the edge from
  it closes no loop, so the search finishes it later and numbers it higher
  (`EdgesDescend`); blocks are taken from the highest number down, so it has a
  dominator when its successor is in hand, and the intersection has a block to start
  from. A predecessor that is not defined yet closes a loop, so the block in hand
  dominates it and nothing is lost by skipping it. A finger dominates the block it
  started from and lies at or below every strict dominator of the block in hand
  (`Finger`); it climbs along immediate dominators and so passes none of them. Where the
  fingers meet, both is true of both predecessors (`Candidate`), and after the last
  predecessor that is the immediate dominator (`CandidateIsIdom`). Later rounds only
  confirm it.
* *Analysis, frontier and tree.* By `FrontInv` the frontiers hold nothing that no
  predecessor of a join tells them (`OnlyTold`) and everything that the predecessors
  taken so far tell (`Gathered`); of the predecessor in hand, what is still to be told
  is told to the runner or above (`Running`). Blocks with one predecessor are skipped by
  the code, and are in no frontier because that predecessor closes no loop. In the tree
  the blocks of a level are given by their distance to the entry; that every block has
  such a distance is an induction downwards on the numbers, since an immediate dominator
  has the larger one.
* *Mem2Reg, placement.* `PlacementInv` is the invariant of a worklist: every block that
  defines the variable waits in the queue or has phis on its whole frontier; the blocks
  with phis lie in every closed set; a block has one phi or none. It also needs that the
  variables still to handle have no phis, since variables are handled one after the
  other in the same blocks.
* *Mem2Reg, renaming.* The open calls are a path in the dominator tree, the subtrees
  still to visit hang from them, and every other reachable block is past (`CallsInv`).
  Until `rename` leaves a block, it holds its phis and then what it held at the start,
  with the loads replaced so far (`ShapeInv`); the loads replaced are those that
  `rename` has passed (`ReplInv`), and phi operands come from blocks that have told
  their successors (`ArgsInv`).
* *Mem2Reg, values.* A point is a block and a position, and points are ordered by
  dominance. `StacksInv` says, by rank, that a stack is what the phis and stores passed
  by the open calls pushed. So its top is the nearest definition before the point where
  `rename` stands, and from then on a load stands for what its nearest definition gives
  and a phi's operand for what the end of the predecessor sees (`SsaInv`). That there is
  a definition at all is where `StoredFirst` comes in, with `HandledInv`: a variable has
  its phis at all frontiers, or one definition and no phi.
* *Mem2Reg, meaning.* `ExecInv` relates memory to the promoted function at the point the
  execution has reached: the nearest definition has the value that memory holds. A store
  becomes the nearest definition; a jump makes the phis of the block the nearest ones,
  and they take the value that the end of the predecessor saw; where there is no phi,
  the definitions seen at the end of the predecessor are those seen at the block, for
  otherwise the block were in a frontier (`OutsideIsFrontier`). Nothing else that a
  point sees changes, since what it sees comes from before it.
* *Frame.* What is allocated lies at or above `-offset`, and the next slot below it.
  `AlignUp` says what `ALIGN` does for the four alignments that occur.
* *CodeGen.* `Emitting` says where CodeGen is in the function, so that an instruction in
  hand is one of the function, and that the code so far is a sequence whose immediates
  fit (`Code`). Sequences joined, and those that the loops over arguments, phis and
  parameters flatten, are such code when their parts are (`JoinedCode`,
  `FlattenedCode`); loads and stores of slots test the offset (`AccessCode`), and there
  is one lemma for each kind of instruction. `FrameInReach` names what the code does not
  test: the size that `gen_epilogue` adds, and the offset of the area of an alloca. It
  is the hypothesis of `ImmediatesInReach`, and the run `codegen_immediates` has
  functions that break each half of it.
* *UseDef.* That lists mirror operands is not inductive: `remove_operand` breaks it
  between two rounds, `~Value` relies on `~User` having run, and the loop of
  `replace_use_with_if` on the uses it has not seen yet. `Inv` adds what each loop
  relies on, and `Listed` says which value each position is listed for while operands
  are shifted: the positions passed so far already belong to the next operand, and the
  first of them to two values. Those two are different exactly because of the
  condition of the theorem. `SetOperandKeeps` and `RemoveAllKeeps` carry most actions.

Not proved, only checked:

* liveness (`Terminates`, `PassEnds`, `Termination`, `Returns` and the like), which the
  proof system has no rules for;
* generated code (`InStep`, `ReturnsIntact`): `Execution` composes the semantics of two
  machines, and that they agree also needs that no pointer the program computes leaves
  its array, which is the program's part; the run ranges over functions given one by one;
* the front end (`AssertionsHold`, `OutputAsMeant`), whose algorithms are recursive over
  trees and use RECURSIVE operators, which the proof system does not accept.

## What is not modelled

* Of the front end: the scanner, and how bison finds a derivation (the rules are
  modelled by the tree they build; precedence is in the rules); programs with errors of
  type or scope, on which the builder asserts or crashes; the printer of the AST.
* Of the IR: the caches that intern types and constants (equal structures are equal
  values in the modules), ConstantArray, names, printing, the destructor of
  `BranchInst` (no pass erases a branch).
* Of CodeGen: the directives that reserve globals; how a mnemonic is spelled (the
  comparisons `f.slt.s` and the conversions `ftintrz.b.s` are taken for what they are
  meant to do); more than eight parameters of a kind, on which `Reg::a` asserts;
  several functions in one output, so that labels of different functions cannot meet.
* Logging is output.

## Plan

The order is that of the data: what later parts rely on comes first.

1. *(done)* `CFG`, `CfgBuilder`, `Dominators`, `Analysis`.
2. *(done)* `FuncInfo` with its proofs, `DeadCode`.
3. *(done)* `Mem2Reg` with the placement proof.
4. *(done)* `Frame`, `Machine`, `CodeGen`, `Execution`, with the proofs of the frame
   and of the immediates.
5. *(done)* `UseDef` with its proof.
6. *(done)* `Syntax`, `IR`, `Visitors`, `Meaning`, `FrontEnd`.
7. *(done)* Proofs: DeadCode, the builder's control flow graph, all of Dominators, and
   all of Mem2Reg.
8. `Naming`: `set_instr_name` and the labels that CodeGen makes of it; DeadCode's
   `sweep` on top of `UseDef`.
