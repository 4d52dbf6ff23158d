------------------------------ MODULE Mem2Reg ------------------------------
(***************************************************************************)
(* Promotion of local variables to SSA values (passes/Mem2Reg.cpp), for    *)
(* one function, from the dominance frontiers and the dominator tree that  *)
(* Dominators computes: generate_phi places the phis, rename walks the     *)
(* dominator tree with one stack of current values for each variable.      *)
(*                                                                         *)
(* After the pass the function is executed, step by step, together with    *)
(* the one that entered the pass: the value that replaced a load is        *)
(* compared with what the load would have read from memory.                *)
(*                                                                         *)
(* An instruction is a record                                              *)
(*   [op |-> "store", var, val]    [op |-> "load", var]                    *)
(*   [op |-> "phi", var, args]     args: pairs of a value and a block      *)
(* and a value is a tuple: <<"new", b, k>>, computed by the program just   *)
(* before the instruction at position k of block b stores it; <<"load", b, *)
(* k>> and <<"phi", v, b>>, the results of those instructions; Garbage,    *)
(* what the top() of an empty stack returns, which is undefined.           *)
(***************************************************************************)
EXTENDS CFG

CONSTANTS
    Var,          \* the variables to promote: allocas that are valid pointers
    Functions,    \* the functions under promotion: [cfg, body]
    MaxVisits     \* bound: blocks the execution visits

(* What a function holds when it enters the pass: a graph whose edge lists *)
(* stay inside it and mirror each other, and in its blocks loads and       *)
(* stores; what a store stores is computed there, or is the result of a    *)
(* load that every path to the store has passed.                           *)
StoreInst == [op : {"store"}, var : Var, val : {"new", "load"} \X Block \X Nat]
LoadInst == [op : {"load"}, var : Var]

FlowGraph(c) ==
    /\ c.blocks \in Seq(Block) /\ c.blocks # << >>
    /\ \A b \in Members(c.blocks) : c.succ[b] \in Seq(Members(c.blocks))
    /\ \A a, b \in Members(c.blocks) :
          b \in Members(c.succ[a]) <=> a \in Members(c.pre[b])

Available(f, val, b, k) ==
    IF val[1] = "new" THEN val = <<"new", b, k>>
    ELSE /\ val[3] \in 1..Len(f.body[val[2]]) /\ f.body[val[2]][val[3]].op = "load"
         /\ IF val[2] = b THEN val[3] < k ELSE <<val[2], b>> \in Dominance(f.cfg)

ASSUME VarAssumption == Var # {}

ASSUME FunctionsAssumption ==
    \A f \in Functions :
      /\ FlowGraph(f.cfg)
      /\ f.body \in [Block -> Seq(StoreInst \cup LoadInst)]
      /\ \A b \in Reachable(f.cfg) : \A k \in 1..Len(f.body[b]) :
            f.body[b][k].op = "store" => Available(f, f.body[b][k].val, b, k)

(* Every path to a load passes a store of the variable first: what C asks  *)
(* of a program whose meaning is defined.                                  *)
StoredFirst(f) ==
    \A v \in Var, b \in Members(f.cfg.blocks) : \A k \in 1..Len(f.body[b]) :
      LET stores(c, n) == \E m \in 1..n : f.body[c][m].op = "store" /\ f.body[c][m].var = v
          storing == {c \in Members(f.cfg.blocks) : stores(c, Len(f.body[c]))}
      IN  f.body[b][k] = [op |-> "load", var |-> v] /\ ~stores(b, k - 1) =>
             /\ b # Entry(f.cfg)
             /\ Members(f.cfg.pre[b]) \cap ReachAvoiding(f.cfg, storing) = {}

VARIABLES
    fn,           \* the control flow graph; no step changes it
    body,         \* the instructions of every block, as they enter the pass
    insts,        \* ... and as they are now
    df, tree,     \* dominance frontier and dominator tree successors
    phase,        \* "collect", "pick", "place", "rename", "ready" or "run"
    defset,       \* val_defset_map_
    active,       \* the variables of global_active_val_set_ still to handle
    var,          \* active_val
    queue,        \* Defs
    frontiers,    \* Frontiers
    stk,          \* reg_stk_map_: the top is the last element
    frames,       \* the calls of rename: block, next instruction, children
    repl,         \* what the uses of each load were replaced with
    exec          \* the execution that follows the pass

vars == <<fn, body, insts, df, tree, phase, defset, active, var, queue,
          frontiers, stk, frames, repl, exec>>

graph == <<fn, body, df, tree>>
placing == <<defset, active, var, queue, frontiers>>
renaming == <<stk, frames, repl>>

Garbage == <<"garbage">>
Load(b, k) == <<"load", b, k>>
Phi(v, b) == <<"phi", v, b>>

Blocks == Members(fn.blocks)

StoresOf(v, code) == {k \in 1..Len(code) : code[k].op = "store" /\ code[k].var = v}
DefBlocks(v) == {b \in Blocks : StoresOf(v, body[b]) # {}}

NotRun == [at |-> 0, k |-> 1, from |-> 0, visits |-> 0, tick |-> 0,
           mem |-> [v \in Var |-> 0], env |-> << >>, expected |-> 0, actual |-> 0]

(* The contract of Dominators, checked in Analysis.                        *)
Init ==
    /\ \E function \in Functions : fn = function.cfg /\ body = function.body
    /\ insts = body
    /\ LET D == Dominance(fn) IN
         /\ df = [b \in Block |-> IF b \in Reachable(fn) THEN FrontierOf(fn, D, b) ELSE {}]
         /\ tree = [b \in Block |-> {c \in Reachable(fn) : IsIdom(D, b, c)}]
    /\ phase = "collect"
    /\ defset = [v \in Var |-> {}] /\ active = {}
    /\ var = CHOOSE v \in Var : TRUE
    /\ queue = {} /\ frontiers = {}
    /\ stk = [v \in Var |-> << >>] /\ frames = << >>
    /\ repl = << >>
    /\ exec = NotRun

-----------------------------------------------------------------------------
(* generate_phi, step one: the blocks that store each variable.            *)
CollectDefs ==
    /\ phase = "collect"
    /\ defset' = [v \in Var |-> DefBlocks(v)]
    /\ active' = {v \in Var : DefBlocks(v) # {}}
    /\ phase' = "pick"
    /\ UNCHANGED <<graph, insts, var, queue, frontiers, renaming, exec>>

(* One iteration of the outer loop begins: the set of variables is         *)
(* unordered, and a variable that one block defines is skipped.            *)
PrunedVariable(v) == Cardinality(defset[v]) = 1

PickVariable ==
    /\ phase = "pick"
    /\ \E v \in active :
         /\ var' = v
         /\ active' = active \ {v}
         /\ IF PrunedVariable(v) THEN phase' = "pick" /\ UNCHANGED queue
                                 ELSE phase' = "place" /\ queue' = defset[v]
    /\ frontiers' = {}
    /\ UNCHANGED <<graph, insts, defset, renaming, exec>>

(* One block of Defs: a phi at the head of every frontier block that has   *)
(* none yet; one that did not define the variable before defines it now,   *)
(* and joins the queue.  The order of the queue is left open.              *)
PhiInst(v) == [op |-> "phi", var |-> v, args |-> << >>]

NewPhis(bb) == df[bb] \ frontiers
Joining(bb) == NewPhis(bb) \ defset[var]

Place(bb, waiting) ==
    /\ phase = "place" /\ bb \in queue
    /\ frontiers' = frontiers \cup NewPhis(bb)
    /\ insts' = [b \in Block |-> IF b \in NewPhis(bb) THEN <<PhiInst(var)>> \o insts[b]
                                                      ELSE insts[b]]
    /\ queue' = waiting
    /\ defset' = [defset EXCEPT ![var] = @ \cup NewPhis(bb)]
    /\ UNCHANGED <<graph, phase, active, var, renaming, exec>>

(* Mutants: a block stays in the queue; a block that gets a phi does not   *)
(* join it.                                                                *)
PlacePhisAgain == \E bb \in queue : Place(bb, queue \cup Joining(bb))
PlacePhisOnce == \E bb \in queue : Place(bb, queue \ {bb})

PlacePhis == \E bb \in queue : Place(bb, (queue \ {bb}) \cup Joining(bb))

VariablePlaced ==
    /\ phase = "place" /\ queue = {}
    /\ phase' = "pick"
    /\ UNCHANGED <<graph, insts, placing, renaming, exec>>

-----------------------------------------------------------------------------
(* rename.  A frame is a call: the block, the next instruction to look at, *)
(* and the children of the tree still to visit.                            *)
Call(b) == [bb |-> b, k |-> 1, children |-> tree[b], filled |-> FALSE]

BeginRename ==
    /\ phase = "pick" /\ active = {}
    /\ frames' = <<Call(Entry(fn))>>
    /\ phase' = "rename"
    /\ UNCHANGED <<graph, insts, placing, stk, repl, exec>>

Frame == frames[Len(frames)]
BB == Frame.bb
InBody == phase = "rename" /\ frames # << >> /\ Frame.k <= Len(insts[BB])
Instr == insts[BB][Frame.k]
Advance == frames' = [frames EXCEPT ![Len(frames)].k = @ + 1]

(* A phi or a store gives its variable a new current value.                *)
Push(op, v, val, code) ==
    /\ InBody /\ Instr.op = op
    /\ stk' = [stk EXCEPT ![v] = Append(@, val)]
    /\ insts' = [insts EXCEPT ![BB] = code]
    /\ Advance
    /\ UNCHANGED <<graph, phase, placing, repl, exec>>

(* A mutant: the variable is the one generate_phi handled last.            *)
RenamePhiOfLast == Push("phi", var, Phi(Instr.var, BB), insts[BB])

RenamePhi == Push("phi", Instr.var, Phi(Instr.var, BB), insts[BB])

(* A mutant: the store is erased at once, under the loop over the block.   *)
RenameStoreErasing ==
    Push("store", Instr.var, Instr.val,
         SubSeq(insts[BB], 1, Frame.k - 1) \o SubSeq(insts[BB], Frame.k + 1, Len(insts[BB])))

RenameStore == Push("store", Instr.var, Instr.val, insts[BB])

(* The position of an instruction in the block as it entered the pass.     *)
PhisIn(b) == Cardinality({k \in 1..Len(insts[b]) : insts[b][k].op = "phi"})

TopOf(s) == IF s = << >> THEN Garbage ELSE s[Len(s)]

(* replace_all_use_with: every operand that is the load becomes the value. *)
ReplaceUses(code, old, new) ==
    [k \in 1..Len(code) |->
        CASE code[k].op = "store" ->
               IF code[k].val = old THEN [code[k] EXCEPT !.val = new] ELSE code[k]
          [] code[k].op = "phi" ->
               [code[k] EXCEPT !.args = [a \in 1..Len(code[k].args) |->
                   IF code[k].args[a][1] = old THEN <<new, code[k].args[a][2]>>
                                               ELSE code[k].args[a]]]
          [] code[k].op = "load" -> code[k]]

RenameLoad ==
    /\ InBody /\ Instr.op = "load"
    /\ LET load == Load(BB, Frame.k - PhisIn(BB))
           val == TopOf(stk[Instr.var])
       IN  /\ insts' = [b \in Block |-> ReplaceUses(insts[b], load, val)]
           /\ repl' = [l \in DOMAIN repl \cup {load} |-> IF l = load THEN val ELSE repl[l]]
    /\ Advance
    /\ UNCHANGED <<graph, phase, placing, stk, exec>>

(* Step six: the phis of the successors learn the value that reaches them  *)
(* from this block; a variable without a value is passed over.             *)
FillPhi(instr, b) ==
    IF instr.op = "phi" /\ stk[instr.var] # << >>
    THEN [instr EXCEPT !.args = Append(@, <<TopOf(stk[instr.var]), b>>)]
    ELSE instr

Leaving == phase = "rename" /\ frames # << >> /\ Frame.k > Len(insts[BB])

FillSuccessors ==
    /\ Leaving /\ ~Frame.filled
    /\ insts' = [s \in Block |->
          IF s \in Members(fn.succ[BB])
          THEN [k \in 1..Len(insts[s]) |-> FillPhi(insts[s][k], BB)]
          ELSE insts[s]]
    /\ frames' = [frames EXCEPT ![Len(frames)].filled = TRUE]
    /\ UNCHANGED <<graph, phase, placing, stk, repl, exec>>

(* Step seven: the children in the dominator tree, in any order (a set of  *)
(* pointers).                                                              *)
RenameChild ==
    /\ Leaving /\ Frame.filled
    /\ \E c \in Frame.children :
         frames' = Append([frames EXCEPT ![Len(frames)].children = @ \ {c}], Call(c))
    /\ UNCHANGED <<graph, insts, phase, placing, stk, repl, exec>>

(* Steps eight and nine: pop what this block pushed, and erase the stores. *)
PushedNothing(v) == 0         \* a mutant: nothing is popped

Pushed(v) == Cardinality({k \in 1..Len(insts[BB]) :
                insts[BB][k].op \in {"phi", "store"} /\ insts[BB][k].var = v})

Leave(code) ==
    /\ Leaving /\ Frame.filled /\ Frame.children = {}
    /\ stk' = [v \in Var |-> SubSeq(stk[v], 1, Len(stk[v]) - Pushed(v))]
    /\ insts' = [insts EXCEPT ![BB] = code]
    /\ frames' = SubSeq(frames, 1, Len(frames) - 1)
    /\ phase' = IF Len(frames) = 1 THEN "ready" ELSE "rename"
    /\ UNCHANGED <<graph, placing, repl, exec>>

LeaveStores == Leave(insts[BB])           \* a mutant: the stores stay

LeaveBlock == Leave(Kept(insts[BB], {instr \in Members(insts[BB]) : instr.op # "store"}))

PassNext ==
    \/ CollectDefs \/ PickVariable \/ PlacePhis \/ VariablePlaced
    \/ BeginRename \/ RenamePhi \/ RenameStore \/ RenameLoad
    \/ FillSuccessors \/ RenameChild \/ LeaveBlock

-----------------------------------------------------------------------------
(* The execution.  Memory and values hold numbers: 0 is uninitialised, and *)
(* every computation of a new value takes the next number; -1 is a value   *)
(* the promoted function does not have: Garbage, a phi without an operand  *)
(* for the predecessor, or a load, whose stores are gone.                  *)
ValueOf(env, val) == IF val \in DOMAIN env /\ val[1] # "load" THEN env[val] ELSE -1

(* Entering a block from a predecessor gives all of its phis the values    *)
(* they have for that predecessor, at once.                                *)
PhiValue(env, phi, from) ==
    LET vals == {ValueOf(env, phi.args[a][1]) :
                    a \in {a \in 1..Len(phi.args) : phi.args[a][2] = from}}
    IN  IF vals = {} THEN -1 ELSE CHOOSE x \in vals : TRUE

EnterBlock(env, b, from) ==
    LET phis == {k \in 1..Len(insts[b]) : insts[b][k].op = "phi"}
        phi(v) == insts[b][CHOOSE k \in phis : insts[b][k].var = v]
        results == {Phi(insts[b][k].var, b) : k \in phis}
    IN  [x \in DOMAIN env \cup results |->
            IF x \in results THEN PhiValue(env, phi(x[2]), from) ELSE env[x]]

Start ==
    /\ phase = "ready"
    /\ exec' = [NotRun EXCEPT !.at = Entry(fn), !.visits = 1]
    /\ phase' = "run"
    /\ UNCHANGED <<graph, insts, placing, renaming>>

Set(env, x, n) == [y \in DOMAIN env \cup {x} |-> IF y = x THEN n ELSE env[y]]

Running(op) ==
    /\ phase = "run" /\ exec.k <= Len(body[exec.at])
    /\ body[exec.at][exec.k].op = op

(* A store of the original program: a value computed just before it, or    *)
(* the result of an earlier load.                                          *)
ExecuteStore ==
    /\ Running("store")
    /\ LET store == body[exec.at][exec.k]
           fresh == store.val[1] = "new"
           value == IF fresh THEN exec.tick + 1 ELSE exec.env[store.val]
       IN  exec' = [exec EXCEPT !.k = @ + 1, !.mem[store.var] = value,
                                !.tick = IF fresh THEN @ + 1 ELSE @,
                                !.env = Set(@, store.val, value)]
    /\ UNCHANGED <<graph, insts, phase, placing, renaming>>

(* A load of the original program, and the value that took its place.      *)
ExecuteLoad ==
    /\ Running("load")
    /\ LET load == Load(exec.at, exec.k)
           value == exec.mem[body[exec.at][exec.k].var]
       IN  exec' = [exec EXCEPT !.k = @ + 1, !.env = Set(@, load, value),
                                !.expected = value,
                                !.actual = ValueOf(exec.env, repl[load])]
    /\ UNCHANGED <<graph, insts, phase, placing, renaming>>

Jump ==
    /\ phase = "run" /\ exec.k > Len(body[exec.at])
    /\ exec.visits < MaxVisits
    /\ \E b \in Members(fn.succ[exec.at]) :
         exec' = [exec EXCEPT !.at = b, !.k = 1, !.from = exec.at,
                              !.visits = @ + 1,
                              !.env = EnterBlock(@, b, exec.at)]
    /\ UNCHANGED <<graph, insts, phase, placing, renaming>>

Next == PassNext \/ Start \/ ExecuteStore \/ ExecuteLoad \/ Jump

Spec == Init /\ [][Next]_vars

(* The pass is sequential and keeps going while it has work.               *)
FairSpec == Spec /\ WF_vars(PassNext)

-----------------------------------------------------------------------------
(* The type invariant of the pass: what is where while phis are placed and *)
(* blocks renamed.                                                         *)
TypeOK ==
    /\ phase \in {"collect", "pick", "place", "rename", "ready", "run"}
    /\ defset \in [Var -> SUBSET Block] /\ active \subseteq Var /\ var \in Var
    /\ queue \subseteq Block /\ frontiers \subseteq Block
    /\ \A b \in Block : \A k \in 1..Len(insts[b]) :
          insts[b][k].op \in {"store", "load", "phi"} /\ insts[b][k].var \in Var
    /\ \A j \in 1..Len(frames) :
          /\ frames[j].bb \in Blocks /\ frames[j].children \subseteq Blocks
          /\ frames[j].k \in 1..(Len(insts[frames[j].bb]) + 1)

(* The meaning of the pass: whenever the original function loads a         *)
(* variable that was stored before, the value that replaced the load is    *)
(* the one memory holds, along every path and in every iteration.          *)
LoadsKeepTheirValue ==
    exec.expected # 0 => exec.actual = exec.expected

(* Mem2Reg.cpp says of a variable that one block defines: "only one        *)
(* definition point, no phi needs to be inserted".  It is what             *)
(* LoadsKeepTheirValue says of the functions that load a variable which    *)
(* some path leaves unstored.                                              *)
PruningIsHarmless == LoadsKeepTheirValue

(* When a variable is done, its phis stand where the iterated dominance    *)
(* frontier of its stores is, one at each block and none elsewhere: the    *)
(* least set that holds the frontier of every block that stores the        *)
(* variable, and of its own members.                                       *)
ClosedUnderFrontiers(v, S) == \A b \in DefBlocks(v) \cup S : df[b] \subseteq S

PhisOf(v, b) == {k \in 1..Len(insts[b]) : insts[b][k].op = "phi" /\ insts[b][k].var = v}

PhisAtIteratedFrontier ==
    phase = "place" /\ queue = {} =>
        /\ ClosedUnderFrontiers(var, frontiers)
        /\ \A S \in SUBSET Blocks : ClosedUnderFrontiers(var, S) => frontiers \subseteq S
        /\ \A b \in Block :
              IF b \in frontiers THEN \E k \in 1..Len(insts[b]) : PhisOf(var, b) = {k}
                                ELSE PhisOf(var, b) = {}

(* The stacks hold what the open calls of rename pushed and nothing else,  *)
(* so that a block sees only definitions of blocks that dominate it, and   *)
(* when rename returns to generate_phi's caller every stack is empty.      *)
PushedBy(j, v) ==
    LET code == insts[frames[j].bb] IN
    {<<j, k>> : k \in {k \in 1..Len(code) :
        k < frames[j].k /\ code[k].var = v /\ code[k].op \in {"phi", "store"}}}

StacksMatchFrames ==
    \A v \in Var :
        /\ Len(stk[v]) = Cardinality(UNION {PushedBy(j, v) : j \in 1..Len(frames)})
        /\ \A n \in 1..Len(stk[v]) : stk[v][n] # Garbage

(* When the pass is over, no store of a promoted variable is left in a     *)
(* block that control reaches and each of its loads was replaced; a phi    *)
(* has at most one operand for each predecessor and none for another block.*)
NothingLeftBehind ==
    phase \in {"ready", "run"} =>
      \A b \in Reachable(fn) :
        /\ \A k \in 1..Len(body[b]) : body[b][k].op = "load" => Load(b, k) \in DOMAIN repl
        /\ \A k \in 1..Len(insts[b]) :
             /\ insts[b][k].op # "store"
             /\ insts[b][k].op = "phi" =>
                  LET args == insts[b][k].args IN
                  /\ \A a \in 1..Len(args) : args[a][2] \in Members(fn.pre[b])
                  /\ \A a, c \in 1..Len(args) : args[a][2] = args[c][2] => a = c

(* The pass ends.                                                          *)
PassEnds == <>(phase = "ready")
=============================================================================
