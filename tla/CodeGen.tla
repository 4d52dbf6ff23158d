------------------------------ MODULE CodeGen ------------------------------
(***************************************************************************)
(* Code generation for one function (codegen/CodeGen.cpp): allocate its    *)
(* frame, emit the prologue, the code of every instruction block by block, *)
(* and the epilogue; then run the code beside the function it came from.   *)
(*                                                                         *)
(* A function is a record                                                  *)
(*   args, blocks   names, in order                                        *)
(*   insts   the instructions of every block, each a record                *)
(*             [id, op, ty, ops, aux]                                      *)
(*           ty is the type of the result ("void", "i1", "i32", "float",   *)
(*           "ptr"); aux is the size an alloca makes room for, the element *)
(*           type of a getelementptr, or the callee of a call              *)
(*   type    the type of every argument and instruction                    *)
(*   inputs  the values the arguments may have                             *)
(* and an operand is <<"c", n, ty>>, a constant, <<"g", name>>, a global,  *)
(* <<"v", id>>, a value, or <<"b", block>>.  Phis list values and blocks   *)
(* in turn, and branches list the condition first.                         *)
(*                                                                         *)
(* The output is a sequence of tuples <<op, d, a, b>>, as Machine reads    *)
(* them; loads and stores are <<"ld", r, base, offset, bytes>>.            *)
(***************************************************************************)
EXTENDS Frame, Machine, SequencesExt

CONSTANTS
    Functions,    \* the functions to compile
    Signature,    \* for each callee the types of its parameters and result
    Address,      \* the address of each global variable
    Stack         \* the stack pointer of the caller

Blocks(f) == ToSet(f.blocks)
Instructions(f) == UNION {ToSet(f.insts[b]) : b \in Blocks(f)}

(* The operands whose values the code of an instruction loads, and those   *)
(* that are the targets of a branch.                                       *)
Targets(i) == IF i.op # "br" THEN {} ELSE IF Len(i.ops) = 1 THEN {1} ELSE {2, 3}

Loaded(i) ==
    CASE i.op = "br" -> IF Len(i.ops) = 1 THEN {} ELSE {1}
      [] i.op = "phi" -> {2 * a - 1 : a \in 1..(Len(i.ops) \div 2)}
      [] i.op = "ret" -> IF i.ops = << >> THEN {} ELSE {1}
      [] i.op = "call" -> 1..Len(Signature[i.aux].params)
      [] i.op = "getelementptr" -> {1, IF Len(i.ops) = 2 THEN 2 ELSE 3}
      [] i.op \in {"zext", "sitofp", "fptosi", "load"} -> {1}
      [] i.op = "alloca" -> {}
      [] OTHER -> {1, 2}

(* What the constructors of instructions leave to CodeGen: no block is     *)
(* empty, it ends in a terminator; what is loaded is a constant, a global  *)
(* or a value; and branches lead to blocks.                                *)
ASSUME FunctionsAssumption ==
    \A f \in Functions :
        /\ f.args \in Seq(Value) /\ f.blocks \in Seq(Blocks(f))
        /\ \A b \in Blocks(f) : f.insts[b] \in Seq(Instructions(f)) /\ f.insts[b] # << >>
        /\ \A i \in Instructions(f) :
              /\ i.ops \in Seq(ToSet(i.ops))
              /\ i.op = "call" => Len(Signature[i.aux].params) \in Nat
              /\ \A n \in Loaded(i) : i.ops[n][1] \in {"c", "g", "v"}
              /\ \A n \in Targets(i) : i.ops[n][2] \in Blocks(f)

(* The immediate of a load reaches the saved registers.                    *)
ASSUME ReachAssumption == 2^(Low - 1) \in Nat /\ PROLOGUE_OFFSET_BASE <= 2^(Low - 1)

VARIABLES
    func,         \* context.func
    phase,        \* "frame", "prologue", "label", "inst", "epilogue", "ready", then
                  \* "run" and "halt"
    bb, inst,     \* positions of context.bb and context.inst, from 1
    cmp_cnt,      \* context.cmp_cnt
    output,       \* the code
    pc, reg, mem, \* the machine
    calls,        \* the calls it made: callee and arguments
    ir            \* the function, executed: see below

machine == <<pc, reg, mem, calls>>
vars == <<fvars, func, phase, bb, inst, cmp_cnt, output, machine, ir>>

ByteSize(ty) == CASE ty = "i1" -> 1 [] ty \in {"i32", "float"} -> 4 [] ty = "ptr" -> 8
                  [] ty = "void" -> 0

LayoutOf(f) ==
    [n \in 1..Len(f.args) |-> [id |-> f.args[n], size |-> ByteSize(f.type[f.args[n]]), extra |-> 0]]
    \o FlattenSeq([b \in 1..Len(f.blocks) |->
         [k \in 1..Len(f.insts[f.blocks[b]]) |->
            LET i == f.insts[f.blocks[b]][k] IN
            [id |-> i.id, size |-> ByteSize(i.ty),
             extra |-> IF i.op = "alloca" THEN i.aux ELSE 0]]])

TypeOf(x) == IF x[1] = "c" THEN x[3] ELSE IF x[1] = "g" THEN "ptr" ELSE func.type[x[2]]
IsFloat(x) == TypeOf(x) = "float"

-----------------------------------------------------------------------------
(* Loading and storing values.                                             *)
load_large_int32(n, r) ==
    << <<"lu12i.w", r, "zero", n \div 2^Low>>, <<"ori", r, r, n % 2^Low>> >>

load_large_int64(n, r) ==
    LET high_32 == n \div 2^Word IN
    load_large_int32(Sext(n, Word), r)
    \o << <<"lu32i.d", r, r, Sext(high_32, High)>>, <<"lu52i.d", r, r, high_32 \div 2^High>> >>

(* An access to the slot of a value, through addr if it is far away.       *)
AccessSlot(op, r, id, addr) ==
    LET off == offset_map[id]
        size == ByteSize(func.type[id])
    IN  IF FitsLow(off) THEN << <<op, r, "fp", off, size>> >>
        ELSE load_large_int64(off, addr)
             \o << <<"add.d", addr, "fp", addr>>, <<op, r, addr, 0, size>> >>

LoadWith(x, r, small) ==
    CASE x[1] = "c" -> IF small THEN << <<"addi.w", r, "zero", x[2]>> >>
                                ELSE load_large_int32(x[2], r)
      [] x[1] = "g" -> << <<"la.local", r, x[2]>> >>
      [] x[1] = "v" -> AccessSlot("ld", r, x[2], r)

load_to_greg_unchecked(x, r) == LoadWith(x, r, TRUE)    \* a mutant: no constant is large

load_to_greg(x, r) == LoadWith(x, r, FitsLow(x[2]))

load_to_freg(x, r) ==
    IF x[1] = "c"
    THEN load_large_int32(FloatBits(x[2]), "t8") \o << <<"movgr2fr.w", r, "t8">> >>
    ELSE AccessSlot("ld", r, x[2], "t8")

store_from(id, r) == AccessSlot("st", r, id, "t8")

load_to(x, gr, fr) == IF IsFloat(x) THEN load_to_freg(x, fr) ELSE load_to_greg(x, gr)

(* garg_cnt and farg_cnt: floats and other parameters count apart.         *)
CountBefore(types, n, float) ==
    Len(SelectSeq(SubSeq(types, 1, n - 1), LAMBDA t : (t = "float") = float))

ArgRegJoint(types, n) ==                  \* a mutant: one counter for both
    IF types[n] = "float" THEN FArgs[n] ELSE GArgs[n]

ArgReg(types, n) ==
    IF types[n] = "float" THEN FArgs[CountBefore(types, n, TRUE) + 1]
                          ELSE GArgs[CountBefore(types, n, FALSE) + 1]

-----------------------------------------------------------------------------
(* The frame is allocated, and the prologue saves $ra and $fp, makes room  *)
(* and moves the arguments to their slots.                                 *)
Init ==
    /\ func \in Functions /\ FInit /\ layout = LayoutOf(func)
    /\ phase = "frame" /\ bb = 1 /\ inst = 1 /\ cmp_cnt = 0 /\ output = << >>
    /\ pc = 1 /\ reg = << >> /\ mem = << >> /\ calls = << >> /\ ir = << >>

Emit(code) == output' = output \o code

AllocateFrame ==
    /\ phase = "frame" /\ FNext
    /\ phase' = IF frame_size' # 0 THEN "prologue" ELSE "frame"
    /\ UNCHANGED <<func, bb, inst, cmp_cnt, output, machine, ir>>

SaveRegisters == << <<"st", "ra", "sp", -8, 8>>, <<"st", "fp", "sp", -16, 8>> >>

Enter(first, last) ==
    IF FitsLow(-frame_size)
    THEN first \o << <<"addi.d", "fp", "sp", 0>>, <<"addi.d", "sp", "sp", -frame_size>> >> \o last
    ELSE load_large_int64(frame_size, "t0") \o first
         \o << <<"sub.d", "sp", "sp", "t0">>, <<"add.d", "fp", "sp", "t0">> >> \o last

EnterFrameLate == Enter(<< >>, SaveRegisters)     \* a mutant: saved when $sp has moved

EnterFrame == Enter(SaveRegisters, << >>)

ArgTypes == [n \in 1..Len(func.args) |-> func.type[func.args[n]]]

GenPrologue ==
    /\ phase = "prologue"
    /\ Emit(EnterFrame \o FlattenSeq([n \in 1..Len(func.args) |->
                              store_from(func.args[n], ArgReg(ArgTypes, n))]))
    /\ phase' = "label"
    /\ UNCHANGED <<fvars, func, bb, inst, cmp_cnt, machine, ir>>

BB == func.blocks[bb]
label_name(b) == <<"block", b>>
Exit == <<"function_exit">>

GenLabel ==
    /\ phase = "label"
    /\ IF bb <= Len(func.blocks)
       THEN Emit(<< <<"label", label_name(BB)>> >>) /\ phase' = "inst"
       ELSE phase' = "epilogue" /\ UNCHANGED output
    /\ inst' = 1
    /\ UNCHANGED <<fvars, func, bb, cmp_cnt, machine, ir>>

Inst == func.insts[BB][inst]

(* The code of one instruction, after the comment that shows it.           *)
Gen(ops, code) ==
    /\ phase = "inst" /\ Inst.op \in ops
    /\ Emit(<< <<"comment", BB, inst>> >> \o code)
    /\ IF inst = Len(func.insts[BB])
       THEN phase' = "label" /\ bb' = bb + 1 /\ UNCHANGED inst
       ELSE inst' = inst + 1 /\ UNCHANGED <<phase, bb>>
    /\ UNCHANGED <<fvars, func, machine, ir>>

GenPlain(ops, code) == Gen(ops, code) /\ UNCHANGED cmp_cnt

ReturnValue ==
    IF Inst.ops = << >> THEN << <<"addi.w", "a0", "zero", 0>> >>
                        ELSE load_to(Inst.ops[1], "a0", "fa0")

GenRet == GenPlain({"ret"}, ReturnValue \o << <<"b", Exit>> >>)

(* The copies for the phis of a successor, one after the other.            *)
PhiCopies(b) ==
    FlattenSeq([k \in 1..Len(func.insts[b]) |->
        LET phi == func.insts[b][k] IN
        IF phi.op # "phi" THEN << >>
        ELSE FlattenSeq([a \in 1..(Len(phi.ops) \div 2) |->
               IF phi.ops[2 * a] # <<"b", BB>> THEN << >>
               ELSE load_to(phi.ops[2 * a - 1], "t0", "ft0")
                    \o store_from(phi.id, IF phi.ty = "float" THEN "ft0" ELSE "t0")])])

(* The condition waits in $t0 while the phis of both targets get theirs.   *)
GenBr ==
    GenPlain({"br"},
        LET target(n) == label_name(Inst.ops[n][2])
            copies(n) == PhiCopies(Inst.ops[n][2])
        IN  IF Len(Inst.ops) = 1
            THEN copies(1) \o << <<"b", target(1)>> >>
            ELSE load_to_greg(Inst.ops[1], "t0") \o copies(2) \o copies(3)
                 \o << <<"beqz", target(3), "t0">>, <<"b", target(2)>> >>)

GenPhi == GenPlain({"phi"}, << >>)

-----------------------------------------------------------------------------
(* Computations: operands in $t0 and $t1, the result from $t2.             *)
Operands(x, y) == load_to(Inst.ops[1], x[1], x[2]) \o load_to(Inst.ops[2], y[1], y[2])
T0 == <<"t0", "ft0">>
T1 == <<"t1", "ft1">>

Mnemonic ==
    [add |-> "add.w", sub |-> "sub.w", mul |-> "mul.w", sdiv |-> "div.w",
     fadd |-> "fadd.s", fsub |-> "fsub.s", fmul |-> "fmul.s", fdiv |-> "fdiv.s",
     feq |-> "f.seq.s", fne |-> "f.sne.s", fgt |-> "f.slt.s", fge |-> "f.sle.s",
     flt |-> "f.slt.s", fle |-> "f.sle.s"]

GenBinary ==
    GenPlain({"add", "sub", "mul", "sdiv"},
        Operands(T0, T1) \o << <<Mnemonic[Inst.op], "t2", "t0", "t1">> >>
        \o store_from(Inst.id, "t2"))

GenFloatBinary ==
    GenPlain({"fadd", "fsub", "fmul", "fdiv"},
        Operands(T0, T1) \o << <<Mnemonic[Inst.op], "ft2", "ft0", "ft1">> >>
        \o store_from(Inst.id, "ft2"))

Negate == <<"xori", "t2", "t2", 1>>

GenIcmp ==
    GenPlain({"eq", "ne", "gt", "ge", "lt", "le"},
        LET less(x, y) == <<"slt", "t2", x, y>>
            differ == << <<"xor", "t2", "t0", "t1">>, <<"sltu", "t2", "zero", "t2">> >>
        IN  Operands(T0, T1)
            \o (CASE Inst.op = "eq" -> differ \o <<Negate>>
                  [] Inst.op = "ne" -> differ
                  [] Inst.op = "gt" -> <<less("t1", "t0")>>
                  [] Inst.op = "ge" -> <<less("t0", "t1"), Negate>>
                  [] Inst.op = "lt" -> <<less("t0", "t1")>>
                  [] Inst.op = "le" -> <<less("t1", "t0"), Negate>>)
            \o store_from(Inst.id, "t2"))

(* A comparison of floats sets a flag; three labels turn it into a number. *)
FcmpCode ==
    LET swapped == Inst.op \in {"fgt", "fge"}
        label(name) == <<name, cmp_cnt>>
        answer(name, n) == << <<"label", label(name)>>, <<"addi.w", "t0", "zero", n>>,
                              <<"b", label("exit")>> >>
    IN  Operands(T0, T1)
        \o << <<Mnemonic[Inst.op], "fcc0", IF swapped THEN "ft1" ELSE "ft0",
                                           IF swapped THEN "ft0" ELSE "ft1">>,
              <<"bcnez", label("true"), "fcc0">>, <<"b", label("false")>> >>
        \o answer("true", 1) \o answer("false", 0)
        \o << <<"label", label("exit")>> >> \o store_from(Inst.id, "t0")

Compare(count) ==
    Gen({"feq", "fne", "fgt", "fge", "flt", "fle"}, FcmpCode) /\ cmp_cnt' = count

GenFcmpSameLabels == Compare(cmp_cnt)     \* a mutant: labels are used again

GenFcmp == Compare(cmp_cnt + 1)

GenZext ==
    GenPlain({"zext"},
        load_to_greg(Inst.ops[1], "t0")
        \o << <<"bstrpick", "t1", "t0", IF TypeOf(Inst.ops[1]) = "i1" THEN 8 ELSE Word>> >>
        \o store_from(Inst.id, "t1"))

GenSiToFp ==
    GenPlain({"sitofp"},
        load_to_greg(Inst.ops[1], "t0")
        \o << <<"movgr2fr.w", "ft0", "t0">>, <<"ffint.s.w", "ft1", "ft0">> >>
        \o store_from(Inst.id, "ft1"))

GenFpToSi ==
    GenPlain({"fptosi"},
        load_to_freg(Inst.ops[1], "ft0")
        \o << <<"ftintrz.w.s", "ft1", "ft0">>, <<"movfr2gr.s", "t0", "ft1">> >>
        \o store_from(Inst.id, "t0"))

-----------------------------------------------------------------------------
(* Memory and calls.                                                       *)
GenAlloca ==
    GenPlain({"alloca"},
        << <<"addi.d", "t0", "fp", offset_map[Inst.id] - Inst.aux>> >>
        \o store_from(Inst.id, "t0"))

GenLoad ==
    GenPlain({"load"},
        LET r == IF Inst.ty = "float" THEN "ft0" ELSE "t1" IN
        load_to_greg(Inst.ops[1], "t0")
        \o << <<"ld", r, "t0", 0, ByteSize(Inst.ty)>> >> \o store_from(Inst.id, r))

GenStore ==
    GenPlain({"store"},
        LET val == Inst.ops[1]
            r == IF IsFloat(val) THEN "ft0" ELSE "t1"
        IN  load_to_greg(Inst.ops[2], "t0") \o load_to(val, "t1", "ft0")
            \o << <<"st", r, "t0", 0, ByteSize(TypeOf(val))>> >>)

(* The last index is the one that counts: the element's size is a shift.   *)
GenGep ==
    GenPlain({"getelementptr"},
        load_to_greg(Inst.ops[1], "t0")
        \o load_to_greg(IF Len(Inst.ops) = 2 THEN Inst.ops[2] ELSE Inst.ops[3], "t1")
        \o << <<"slli.d", "t1", "t1",
                CASE Inst.aux = "i1" -> 0 [] Inst.aux \in {"i32", "float"} -> 2 [] OTHER -> 3>>,
              <<"add.d", "t0", "t0", "t1">> >>
        \o store_from(Inst.id, "t0"))

GenCall ==
    GenPlain({"call"},
        LET types == Signature[Inst.aux].params IN
        FlattenSeq([n \in 1..Len(types) |->
            IF types[n] = "float" THEN load_to_freg(Inst.ops[n], ArgReg(types, n))
                                  ELSE load_to_greg(Inst.ops[n], ArgReg(types, n))])
        \o << <<"bl", Inst.aux>> >>
        \o (IF Inst.ty = "void" THEN << >>
            ELSE store_from(Inst.id, IF Inst.ty = "float" THEN "fa0" ELSE "a0")))

LeaveFrame ==
    (IF FitsLow(-frame_size)
     THEN << <<"addi.d", "sp", "sp", frame_size>> >>
     ELSE load_large_int64(frame_size, "t0") \o << <<"add.d", "sp", "sp", "t0">> >>)
    \o << <<"ld", "ra", "sp", -8, 8>>, <<"ld", "fp", "sp", -16, 8>>, <<"jr", "ra">> >>

GenEpilogue ==
    /\ phase = "epilogue"
    /\ Emit(<< <<"label", Exit>> >> \o LeaveFrame)
    /\ phase' = "ready"
    /\ UNCHANGED <<fvars, func, bb, inst, cmp_cnt, machine, ir>>

Generate ==
    \/ AllocateFrame \/ GenPrologue \/ GenLabel \/ GenRet \/ GenBr \/ GenPhi
    \/ GenBinary \/ GenFloatBinary \/ GenIcmp \/ GenFcmp \/ GenZext \/ GenSiToFp
    \/ GenFpToSi \/ GenAlloca \/ GenLoad \/ GenStore \/ GenGep \/ GenCall \/ GenEpilogue
=============================================================================
