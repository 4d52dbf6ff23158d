----------------------------- MODULE Execution -----------------------------
(***************************************************************************)
(* The code that CodeGen emits, executed beside the function it stands     *)
(* for.  The comment that the code carries before every instruction is     *)
(* where the two meet: there the function executes the instruction, and    *)
(* the machine goes on until the next comment.                             *)
(*                                                                         *)
(* The function (LLVM IR) has an environment of values, memory by cells    *)
(* <<alloca or global, byte offset>>, and the calls it made.  A pointer    *)
(* is such a cell; integers are words, floats are numbers.                 *)
(***************************************************************************)
EXTENDS CodeGen

Member(x, s) == \E n \in 1..Len(s) : s[n] = x

Set(m, x, y) == [z \in DOMAIN m \cup {x} |-> IF z = x THEN y ELSE m[z]]

-----------------------------------------------------------------------------
(* The function.                                                           *)
Eval(env, x) == CASE x[1] = "c" -> x[2] [] x[1] = "g" -> <<x[2], 0>> [] x[1] = "v" -> env[x[2]]

Compute(op, x, y) ==
    CASE op = "add" -> Sext(x + y, Word)
      [] op = "sub" -> Sext(x - y, Word)
      [] op = "mul" -> Sext(x * y, Word)
      [] op = "sdiv" -> Sext(Quotient(x, y), Word)
      [] op = "fadd" -> x + y
      [] op = "fsub" -> x - y
      [] op = "fmul" -> x * y
      [] op = "fdiv" -> Quotient(x, y)
      [] op \in {"eq", "feq"} -> Truth(x = y)
      [] op \in {"ne", "fne"} -> Truth(x # y)
      [] op \in {"gt", "fgt"} -> Truth(x > y)
      [] op \in {"ge", "fge"} -> Truth(x >= y)
      [] op \in {"lt", "flt"} -> Truth(x < y)
      [] op \in {"le", "fle"} -> Truth(x <= y)

(* What the n-th call answers.                                             *)
Answer(n) == 3 * n - 2

(* Entering a block gives its phis, all at once, the values they have for  *)
(* the block control comes from.                                           *)
EnterBlock(env, b, from) ==
    LET code == func.insts[b]
        operand(k) == CHOOSE a \in 1..Len(code[k].ops) : code[k].ops[a] = <<"b", from>>
        phis == {k \in 1..Len(code) : code[k].op = "phi" /\ Member(<<"b", from>>, code[k].ops)}
        value(id) == LET k == CHOOSE k \in phis : code[k].id = id IN
                     Eval(env, code[k].ops[operand(k) - 1])
        ids == {code[k].id : k \in phis}
    IN  [id \in DOMAIN env \cup ids |-> IF id \in ids THEN value(id) ELSE env[id]]

GoTo(s, b) == [s EXCEPT !.at = b, !.k = 1, !.env = EnterBlock(s.env, b, s.at)]

Perform(s) ==
    LET i == func.insts[s.at][s.k]
        arg(n) == Eval(s.env, i.ops[n])
        value(v) == [s EXCEPT !.k = @ + 1, !.env = Set(@, i.id, v)]
    IN  CASE i.op = "ret" -> [s EXCEPT !.ret = IF i.ops = << >> THEN 0 ELSE arg(1)]
          [] i.op = "br" -> GoTo(s, IF Len(i.ops) = 1 THEN i.ops[1][2]
                                    ELSE IF arg(1) # 0 THEN i.ops[2][2] ELSE i.ops[3][2])
          [] i.op = "phi" -> [s EXCEPT !.k = @ + 1]
          [] i.op \in {"zext", "sitofp", "fptosi"} -> value(arg(1))
          [] i.op = "alloca" -> value(<<i.id, 0>>)
          [] i.op = "load" -> value(s.mem[arg(1)])
          [] i.op = "store" -> [s EXCEPT !.k = @ + 1, !.mem = Set(@, arg(2), arg(1))]
          [] i.op = "getelementptr" ->
               value(<<arg(1)[1], arg(1)[2] + ByteSize(i.aux) * arg(Len(i.ops))>>)
          [] i.op = "call" ->
               LET made == [s EXCEPT !.k = @ + 1,
                              !.calls = Append(@, <<i.aux, [n \in 1..Len(i.ops) |-> arg(n)]>>)]
               IN  IF i.ty = "void" THEN made
                   ELSE [made EXCEPT !.env = Set(@, i.id, Answer(Len(made.calls)))]
          [] OTHER -> value(Compute(i.op, arg(1), arg(2)))

-----------------------------------------------------------------------------
(* What a value of the function is on the machine.                         *)
AddressOf(base) ==
    IF base \in DOMAIN Address THEN Address[base]
    ELSE LET n == CHOOSE n \in 1..Len(layout) : layout[n].id = base IN
         Stack + LowByte(layout[n])

OnMachine(x, ty) ==
    CASE ty = "ptr" -> AddressOf(x[1]) + x[2]
      [] ty = "float" -> FloatBits(x)
      [] OTHER -> x

-----------------------------------------------------------------------------
(* The machine.                                                            *)
Registers == {"zero", "ra", "sp", "fp", "t0", "t1", "t2", "t8", "ft0", "ft1", "ft2", "fcc0"}
             \cup {GArgs[n] : n \in 1..8} \cup {FArgs[n] : n \in 1..8}

ReturnAddress == 1
CallersFrame == 2

(* The global variables are arrays of two words, aligned and zero.         *)
GlobalCells == (DOMAIN Address) \X {0, 4}
CellBytes(c) == (Address[c[1]] + c[2])..(Address[c[1]] + c[2] + 3)

Start ==
    /\ phase = "ready"
    /\ \E given \in func.inputs :
         /\ reg' = [r \in Registers |->
               CASE r = "zero" -> 0 [] r = "sp" -> Stack
                 [] r = "ra" -> ReturnAddress [] r = "fp" -> CallersFrame
                 [] \E n \in 1..Len(given) : Parameter(ArgTypes, n) = r ->
                      LET n == CHOOSE n \in 1..Len(given) : Parameter(ArgTypes, n) = r IN
                      OnMachine(given[n], ArgTypes[n])
                 [] OTHER -> Junk]
         /\ ir' = [at |-> func.blocks[1], k |-> 1, mem |-> [c \in GlobalCells |-> 0],
                   env |-> [a \in {func.args[n] : n \in 1..Len(given)} |->
                              given[CHOOSE n \in 1..Len(given) : func.args[n] = a]],
                   ret |-> Junk, calls |-> << >>]
    /\ mem' = [a \in UNION {CellBytes(c) : c \in GlobalCells} |-> <<0, 4, a % 4>>]
    /\ phase' = "run"
    /\ UNCHANGED <<fvars, func, bb, inst, cmp_cnt, output, pc, calls>>

Fetch == output[pc]

(* One instruction of the machine, of the given kind.                      *)
Execute(ops) == phase = "run" /\ Fetch[1] \in ops
Unmoved == UNCHANGED <<fvars, func, phase, bb, inst, cmp_cnt, output>>

Comment ==
    /\ Execute({"comment"})
    /\ ir' = Perform(ir)
    /\ pc' = pc + 1
    /\ UNCHANGED <<reg, mem, calls>> /\ Unmoved

PassLabel ==
    /\ Execute({"label"})
    /\ pc' = pc + 1
    /\ UNCHANGED <<reg, mem, calls, ir>> /\ Unmoved

Access == {"ld", "st"}
Control == {"comment", "label", "b", "beqz", "bcnez", "bl", "jr"}

ComputeRegister ==
    /\ phase = "run" /\ Fetch[1] \notin Access \cup Control
    /\ reg' = [reg EXCEPT ![Fetch[2]] = IF Fetch[1] = "la.local" THEN Address[Fetch[3]]
                                        ELSE Result(Fetch, reg)]
    /\ pc' = pc + 1
    /\ UNCHANGED <<mem, calls, ir>> /\ Unmoved

Effective == reg[Fetch[3]] + Fetch[4]

LoadMemory ==
    /\ Execute({"ld"})
    /\ reg' = [reg EXCEPT ![Fetch[2]] = Read(mem, Effective, Fetch[5])]
    /\ pc' = pc + 1
    /\ UNCHANGED <<mem, calls, ir>> /\ Unmoved

StoreMemory ==
    /\ Execute({"st"})
    /\ mem' = Write(mem, Effective, Fetch[5], reg[Fetch[2]])
    /\ pc' = pc + 1
    /\ UNCHANGED <<reg, calls, ir>> /\ Unmoved

Jump ==
    /\ Execute({"b", "beqz", "bcnez"})
    /\ LET taken == \/ Fetch[1] = "b"
                    \/ Fetch[1] = "beqz" /\ reg[Fetch[3]] = 0
                    \/ Fetch[1] = "bcnez" /\ reg[Fetch[3]] # 0
       IN  pc' = IF taken THEN CHOOSE n \in 1..Len(output) : output[n] = <<"label", Fetch[2]>>
                          ELSE pc + 1
    /\ UNCHANGED <<reg, mem, calls, ir>> /\ Unmoved

(* A callee may use every register but $sp and $fp, and the memory below   *)
(* the stack pointer; it returns after the call.                           *)
CallFunction ==
    /\ Execute({"bl"})
    /\ LET types == Signature[Fetch[2]].params
           made == Append(calls, <<Fetch[2], [n \in 1..Len(types) |-> reg[Parameter(types, n)]]>>)
           answer == Answer(Len(made))
       IN  /\ calls' = made
           /\ reg' = [r \in Registers |->
                 CASE r \in {"zero", "sp", "fp"} -> reg[r]
                   [] r = "a0" /\ Signature[Fetch[2]].result = "i32" -> answer
                   [] r = "fa0" /\ Signature[Fetch[2]].result = "float" -> FloatBits(answer)
                   [] OTHER -> Junk]
    /\ mem' = [a \in {a \in DOMAIN mem : a >= reg["sp"]} |-> mem[a]]
    /\ pc' = pc + 1
    /\ UNCHANGED ir /\ Unmoved

ReturnToCaller ==
    /\ Execute({"jr"})
    /\ phase' = "halt"
    /\ UNCHANGED <<fvars, func, bb, inst, cmp_cnt, output, machine, ir>>

Next ==
    \/ Generate \/ Start \/ Comment \/ PassLabel \/ ComputeRegister
    \/ LoadMemory \/ StoreMemory \/ Jump \/ CallFunction \/ ReturnToCaller

Spec == Init /\ [][Next]_vars

(* The compiler and the machine are sequential and keep going.             *)
FairSpec == Spec /\ WF_vars(Next)

-----------------------------------------------------------------------------
SlotHolds(id, x) ==
    Read(mem, Stack + offset_map[id], ByteSize(func.type[id])) = OnMachine(x, func.type[id])

(* The machine is about to execute the code of an instruction.             *)
Arrived == phase = "run" /\ Fetch[1] = "comment"

(* A branch is taken on the value of its condition: whenever the machine   *)
(* comes to the code of an instruction, the function has come to that      *)
(* instruction.                                                            *)
BranchesOnCondition == Arrived => Fetch = <<"comment", ir.at, ir.k>>

(* Whenever both have come to the same instruction, the slot of every      *)
(* value holds it; right after a branch, that of every phi the operand for *)
(* the block the branch is in, whatever the other phis are given.          *)
ValuesInSlots ==
    Arrived /\ Fetch = <<"comment", ir.at, ir.k>> =>
        \A id \in DOMAIN ir.env : SlotHolds(id, ir.env[id])

(* The code does what the function does: it takes the same branches, holds *)
(* the same values, and calls the same functions with the same arguments.  *)
InStep ==
    /\ BranchesOnCondition
    /\ ValuesInSlots
    /\ Arrived =>
        /\ Len(calls) = Len(ir.calls)
        /\ \A n \in 1..Len(calls) :
              LET types == Signature[calls[n][1]].params IN
              /\ calls[n][1] = ir.calls[n][1]
              /\ \A a \in 1..Len(types) : calls[n][2][a] = OnMachine(ir.calls[n][2][a], types[a])

(* The function returns to its caller with the value it computed, and with *)
(* the stack pointer, frame pointer and return address it found, however   *)
(* large the frame and whatever the functions it called did; the global    *)
(* variables hold what the function stored.                                *)
ResultType == LET rets == {i \in UNION {{func.insts[b][k] : k \in 1..Len(func.insts[b])} :
                                          b \in {func.blocks[n] : n \in 1..Len(func.blocks)}} :
                              i.op = "ret" /\ i.ops # << >>}
              IN  IF rets = {} THEN "void" ELSE TypeOf((CHOOSE i \in rets : TRUE).ops[1])

ReturnsIntact ==
    phase = "halt" =>
        /\ reg["sp"] = Stack /\ reg["fp"] = CallersFrame /\ reg["ra"] = ReturnAddress
        /\ reg[IF ResultType = "float" THEN "fa0" ELSE "a0"] = OnMachine(ir.ret, ResultType)
        /\ \A c \in GlobalCells : Read(mem, Address[c[1]] + c[2], 4) = ir.mem[c]

(* Every immediate the code carries fits its field.                        *)
ImmediatesFit ==
    \A n \in 1..Len(output) :
        output[n][1] \in {"addi.w", "addi.d", "ld", "st"} => FitsLow(output[n][4])

(* Every function returns.                                                 *)
Returns == <>(phase = "halt")
=============================================================================
