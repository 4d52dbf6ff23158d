-------------------------------- MODULE CFG --------------------------------
(***************************************************************************)
(* The control flow graph of a function, as BasicBlock, Function and the   *)
(* constructors and destructors of branches keep it (lightir/BasicBlock,   *)
(* Function, Instruction).                                                 *)
(*                                                                         *)
(* A function under construction is a record                               *)
(*   next    the name the next block gets                                  *)
(*   blocks  Function::basic_blocks_, in creation order                    *)
(*   pre, succ   pre_bbs_ and succ_bbs_ of every block, in insertion order *)
(*   code    the instructions of every block: "br", "ret", and "op" for a  *)
(*           run of instructions that do not end a block, possibly empty   *)
(*   insert  the insert point of the IRBuilder, 0 before there is one      *)
(***************************************************************************)
EXTENDS Flow

CONSTANT MaxBlocks          \* the blocks a function may create: the bound

Block == 1..MaxBlocks

EmptyFunction ==
    [next |-> 1, blocks |-> << >>, insert |-> 0,
     pre |-> [b \in Block |-> << >>], succ |-> [b \in Block |-> << >>],
     code |-> [b \in Block |-> << >>]]

(* BasicBlock::create, n times: the new blocks join the end of the list.   *)
NewBlock(f, n) == f.next + n - 1

Create(f, n, used) ==
    [f EXCEPT !.next = @ + used, !.blocks = @ \o [j \in 1..n |-> NewBlock(f, j)]]

CreateBlocksStale(f, n) == Create(f, n, n - 1)    \* a mutant: the last name stays free

CreateBlocks(f, n) == Create(f, n, n)

set_insert_point(f, b) == [f EXCEPT !.insert = b]

is_terminated(f, b) == f.code[b] # << >> /\ f.code[b][Len(f.code[b])] \in {"br", "ret"}

InsertTerminated(f) == is_terminated(f, f.insert)

(* BasicBlock::add_instruction on the insert block.  Its assertion is a    *)
(* property here, not a guard.                                             *)
add_instruction(f, kind) ==
    LET c == f.code[f.insert] IN
    IF kind = "op" /\ c # << >> /\ c[Len(c)] = "op" THEN f
    ELSE [f EXCEPT !.code[f.insert] = Append(c, kind)]

(* The constructor of BranchInst, without and with a condition.            *)
Branch(f, told, targets) ==
    LET g == add_instruction(f, "br") IN
    [g EXCEPT !.pre = [b \in Block |-> @[b] \o [n \in 1..Occurrences(told, b) |-> f.insert]],
              !.succ[f.insert] = @ \o targets]

create_br(f, target) == Branch(f, <<target>>, <<target>>)

(* A mutant: the false target is not told of its predecessor.              *)
CondBrHalfLinked(f, if_true, if_false) == Branch(f, <<if_true>>, <<if_true, if_false>>)

create_cond_br(f, if_true, if_false) ==
    Branch(f, <<if_true, if_false>>, <<if_true, if_false>>)

create_ret(f) == add_instruction(f, "ret")

(* Function::remove, behind BasicBlock::erase_from_parent.                 *)
Without(s, b) == Kept(s, Members(s) \ {b})

remove(f, b) ==
    [f EXCEPT !.blocks = Without(@, b),
              !.pre = [s \in Block |-> IF s \in Members(f.succ[b])
                                       THEN Without(f.pre[s], b) ELSE f.pre[s]],
              !.succ = [p \in Block |-> IF p \in Members(f.pre[b])
                                        THEN Without(f.succ[p], b) ELSE f.succ[p]]]
=============================================================================
