--------------------------------- MODULE IR ---------------------------------
(***************************************************************************)
(* The module under construction, as IRBuilder and the constructors of     *)
(* lightir/Instruction.cpp make it, with what these assert.                *)
(*                                                                         *)
(* A type is a sequence: <<"i32">>, <<"float">>, <<"ptr">> \o ty,          *)
(* <<"array">> \o ty; the sizes of arrays are left out.  A value is        *)
(* <<kind, type, identity>>; an instruction is identified by its block and *)
(* its place in it, and blocks and instructions only get added.            *)
(***************************************************************************)
EXTENDS Integers, Sequences

I1 == <<"i1">>
I32 == <<"i32">>
Float == <<"float">>
Void == <<"void">>
Pointer(ty) == <<"ptr">> \o ty
Array(ty) == <<"array">> \o ty

Ty(v) == v[2]
IsInteger(ty) == ty \in {I1, I32}
IsPointer(ty) == Head(ty) = "ptr"
IsArray(ty) == Head(ty) = "array"
ElementType(ty) == Tail(ty)

Const(ty, x) == <<"const", ty, x>>
Argument(ty, n) == <<"arg", ty, n>>
Global(ty, name) == <<"global", Pointer(ty), name>>
Func(name) == <<"func", <<"function">>, name>>
Zero(ty) == Const(ty, 0)

(* funcs: the signature and the entry block of each function; code and     *)
(* owner: the instructions and the function of each block; at: the insert  *)
(* block.                                                                  *)
Builtin(result, params) == [ret |-> result, params |-> params, entry |-> 0]

EmptyModule ==
    [code |-> << >>, owner |-> << >>, at |-> 0,
     funcs |-> [f \in {"input", "output", "outputFloat", "neg_idx_except"} |->
                  CASE f = "input" -> Builtin(I32, << >>)
                    [] f = "output" -> Builtin(Void, <<I32>>)
                    [] f = "outputFloat" -> Builtin(Void, <<Float>>)
                    [] OTHER -> Builtin(Void, << >>)]]

CreateBlocks(m, f, n) ==
    [m EXCEPT !.code = @ \o [k \in 1..n |-> << >>], !.owner = @ \o [k \in 1..n |-> f]]
NewBlock(m, n) == Len(m.code) + n

CreateFunction(m, name, result, params) ==
    [m EXCEPT !.funcs = [f \in DOMAIN @ \cup {name} |->
        IF f = name THEN [ret |-> result, params |-> params, entry |-> NewBlock(m, 1)] ELSE @[f]]]

erase_from_parent(m, b) == [m EXCEPT !.owner[b] = "none"]
set_insert_point(m, b) == [m EXCEPT !.at = b]

Terminators == {"br", "ret"}
is_terminated(m) ==
    LET code == m.code[m.at] IN code # << >> /\ code[Len(code)].op \in Terminators

-----------------------------------------------------------------------------
(* Creating an instruction appends it to the insert block.  The operations *)
(* of arithmetic and the comparisons carry the operator, by.               *)
CreateBy(m, op, by, ty, args) ==
    [m EXCEPT !.code[m.at] = Append(@, [op |-> op, by |-> by, ty |-> ty, args |-> args])]
Create(m, op, ty, args) == CreateBy(m, op, "", ty, args)

(* The instruction created last.                                           *)
It(m) == LET k == Len(m.code[m.at]) IN <<"inst", m.code[m.at][k].ty, <<m.at, k>>>>

create_binary(m, by, is_int, l, r) ==
    IF is_int THEN CreateBy(m, "binary", by, I32, <<l, r>>)
              ELSE CreateBy(m, "fbinary", by, Float, <<l, r>>)
create_cmp(m, by, is_int, l, r) ==
    CreateBy(m, IF is_int THEN "icmp" ELSE "fcmp", by, I1, <<l, r>>)
create_call(m, f, args) == Create(m, "call", m.funcs[f[3]].ret, <<f>> \o args)
create_br(m, b) == Create(m, "br", Void, <<b>>)
create_cond_br(m, cond, t, f) == Create(m, "br", Void, <<cond, t, f>>)
create_ret(m, v) == Create(m, "ret", Void, <<v>>)
create_void_ret(m) == Create(m, "ret", Void, << >>)
create_store(m, v, p) == Create(m, "store", Void, <<v, p>>)
create_load(m, p) == Create(m, "load", ElementType(Ty(p)), <<p>>)
create_alloca(m, ty) == Create(m, "alloca", Pointer(ty), << >>)
create_zext(m, v) == Create(m, "zext", I32, <<v>>)
create_sitofp(m, v) == Create(m, "sitofp", Float, <<v>>)
create_fptosi(m, v) == Create(m, "fptosi", I32, <<v>>)

(* get_element_type: of an array the second index selects.                 *)
create_gep(m, p, idxs) ==
    LET ty == ElementType(Ty(p)) IN
    Create(m, "gep", Pointer(IF IsArray(ty) /\ Len(idxs) > 1 THEN ElementType(ty) ELSE ty), <<p>> \o idxs)

-----------------------------------------------------------------------------
(* What each constructor asserts of the instruction i that it makes: of    *)
(* the types of its operands, and of those it gives and points to.         *)
OperandType(i, n) == Ty(i.args[n])
BothAre(i, ty) == OperandType(i, 1) = ty /\ OperandType(i, 2) = ty

IBinaryInst(i) == BothAre(i, I32)
FBinaryInst(i) == BothAre(i, Float)
ICmpInst(i) == BothAre(i, I32)
FCmpInst(i) == BothAre(i, Float)

CallInst(m, i) ==
    LET callee == i.args[1]
        params == m.funcs[callee[3]].params
    IN  /\ callee[1] = "func" /\ Len(i.args) = Len(params) + 1
        /\ \A n \in 1..Len(params) : OperandType(i, n + 1) = params[n]

BranchInst(i) == Len(i.args) = 3 => OperandType(i, 1) = I1

ReturnInst(i, return_type) ==
    IF i.args = << >> THEN return_type = Void
    ELSE return_type # Void /\ OperandType(i, 1) = return_type

GetElementPtrInst(i) ==
    LET contained == ElementType(OperandType(i, 1)) IN
    /\ IsPointer(OperandType(i, 1))
    /\ IsArray(contained) \/ IsInteger(contained) \/ contained = Float
    /\ \A n \in 2..Len(i.args) : IsInteger(OperandType(i, n))

StoreInst(i) == OperandType(i, 2) = Pointer(OperandType(i, 1))

LoadInst(i) ==
    IsPointer(OperandType(i, 1)) /\ (IsInteger(i.ty) \/ i.ty = Float \/ IsPointer(i.ty))

AllocaInst(i) ==
    LET ty == ElementType(i.ty) IN IsInteger(ty) \/ ty = Float \/ IsArray(ty) \/ IsPointer(ty)

ZextInst(i) == OperandType(i, 1) = I1 /\ i.ty = I32
FpToSiInst(i) == OperandType(i, 1) = Float /\ IsInteger(i.ty)
SiToFpInst(i) == IsInteger(OperandType(i, 1)) /\ i.ty = Float

(* Only the last instruction of a block is a terminator.                   *)
add_instruction(code, k) == k < Len(code) => code[k].op \notin Terminators

(* What was asserted when instruction k of block b was made.               *)
Asserted(m, b, k) ==
    LET i == m.code[b][k] IN
    /\ add_instruction(m.code[b], k)
    /\ CASE i.op = "binary" -> IBinaryInst(i)
         [] i.op = "fbinary" -> FBinaryInst(i)
         [] i.op = "icmp" -> ICmpInst(i)
         [] i.op = "fcmp" -> FCmpInst(i)
         [] i.op = "call" -> CallInst(m, i)
         [] i.op = "br" -> BranchInst(i)
         [] i.op = "ret" -> ReturnInst(i, m.funcs[m.owner[b]].ret)
         [] i.op = "gep" -> GetElementPtrInst(i)
         [] i.op = "store" -> StoreInst(i)
         [] i.op = "load" -> LoadInst(i)
         [] i.op = "alloca" -> AllocaInst(i)
         [] i.op = "zext" -> ZextInst(i)
         [] i.op = "fptosi" -> FpToSiInst(i)
         [] i.op = "sitofp" -> SiToFpInst(i)
=============================================================================
