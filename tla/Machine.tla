------------------------------ MODULE Machine ------------------------------
(***************************************************************************)
(* The part of the LoongArch machine that the output of CodeGen relies on. *)
(* It is no code of the repository: instructions mean what the mnemonics   *)
(* CodeGen emits stand for.                                                *)
(*                                                                         *)
(* The widths are parameters: an immediate has Low bits (12), the upper    *)
(* immediates High bits (20), a word Low + High, a double word twice that. *)
(* A register holds a signed double word.  Memory holds bytes: the j-th    *)
(* byte of a value v stored with n bytes is <<v, n, j>>, so that an access *)
(* which meets only part of a value, or a part of another, reads Junk.     *)
(***************************************************************************)
EXTENDS Integers, Sequences, FiniteSets

CONSTANTS Low, High

ASSUME WidthAssumption == Low \in Nat \ {0} /\ High \in Nat \ {0}

Word == Low + High
Dword == 2 * Word

(* Sign and zero extension of the low bits of a number.                    *)
Zext(n, bits) == n % 2^bits
Sext(n, bits) == LET m == Zext(n, bits) IN IF m >= 2^(bits - 1) THEN m - 2^bits ELSE m

FitsLow(n) == -(2^(Low - 1)) <= n /\ n < 2^(Low - 1)

Junk == 2^(Word - 1) - 3

(* Floating-point numbers are integers here; the bits of a number are not  *)
(* the bits of the integer of the same value.                              *)
FloatBits(x) == Sext(x + 1, Word)
FloatOf(bits) == bits - 1

Truth(b) == IF b THEN 1 ELSE 0

Quotient(x, y) ==      \* towards zero
    LET q == (IF x < 0 THEN -x ELSE x) \div (IF y < 0 THEN -y ELSE y)
    IN  IF (x < 0) = (y < 0) THEN q ELSE -q

(* What <<op, d, a, b>> writes to its destination d; a is a register, b a  *)
(* register or an immediate.  ori and xor are used only where the low bits *)
(* are clear, and for the comparison with zero.                            *)
Arith(op, x, y) ==
    CASE op = "addi.w" \/ op = "add.w" -> Sext(x + y, Word)
      [] op = "addi.d" \/ op = "add.d" -> Sext(x + y, Dword)
      [] op = "sub.w" -> Sext(x - y, Word)
      [] op = "sub.d" -> Sext(x - y, Dword)
      [] op = "mul.w" -> Sext(x * y, Word)
      [] op = "div.w" -> Sext(Quotient(x, y), Word)
      [] op = "lu12i.w" -> Sext(y * 2^Low, Word)
      [] op = "ori" -> x + y
      [] op = "lu32i.d" -> Sext(y, High) * 2^Word + Zext(x, Word)
      [] op = "lu52i.d" -> Sext(y * 2^(Word + High) + Zext(x, Word + High), Dword)
      [] op = "slli.d" -> Sext(x * 2^y, Dword)
      [] op = "bstrpick" -> Zext(x, y)
      [] op = "xor" -> Truth(x # y)
      [] op = "xori" -> Truth(x # y)
      [] op = "slt" -> Truth(x < y)
      [] op = "sltu" -> Truth(Zext(x, Dword) < Zext(y, Dword))
      [] op = "fadd.s" -> FloatBits(FloatOf(x) + FloatOf(y))
      [] op = "fsub.s" -> FloatBits(FloatOf(x) - FloatOf(y))
      [] op = "fmul.s" -> FloatBits(FloatOf(x) * FloatOf(y))
      [] op = "fdiv.s" -> FloatBits(Quotient(FloatOf(x), FloatOf(y)))
      [] op = "f.seq.s" -> Truth(FloatOf(x) = FloatOf(y))
      [] op = "f.sne.s" -> Truth(FloatOf(x) # FloatOf(y))
      [] op = "f.slt.s" -> Truth(FloatOf(x) < FloatOf(y))
      [] op = "f.sle.s" -> Truth(FloatOf(x) <= FloatOf(y))
      [] op = "movgr2fr.w" \/ op = "movfr2gr.s" -> Sext(x, Word)
      [] op = "ffint.s.w" -> FloatBits(x)
      [] op = "ftintrz.w.s" -> FloatOf(x)

Immediate == {"addi.w", "addi.d", "lu12i.w", "ori", "lu32i.d", "lu52i.d", "slli.d",
              "bstrpick", "xori"}

Unary == {"movgr2fr.w", "movfr2gr.s", "ffint.s.w", "ftintrz.w.s"}

Result(i, reg) ==
    Arith(i[1], reg[i[3]], IF i[1] \in Immediate THEN i[4]
                           ELSE IF i[1] \in Unary THEN 0 ELSE reg[i[4]])

(* The calling convention: parameters go to registers in order, integers   *)
(* and pointers to $a0..$a7, floats to $fa0..$fa7.                         *)
GArgs == <<"a0", "a1", "a2", "a3", "a4", "a5", "a6", "a7">>
FArgs == <<"fa0", "fa1", "fa2", "fa3", "fa4", "fa5", "fa6", "fa7">>

Parameter(types, n) ==
    LET rank == Cardinality({m \in 1..n : (types[m] = "float") = (types[n] = "float")})
    IN  IF types[n] = "float" THEN FArgs[rank] ELSE GArgs[rank]

(* Memory.                                                                 *)
Read(mem, a, n) ==
    IF a \in DOMAIN mem
         /\ \A j \in 0..(n - 1) : a + j \in DOMAIN mem /\ mem[a + j] = <<mem[a][1], n, j>>
    THEN mem[a][1] ELSE Junk

Write(mem, a, n, v) ==
    [x \in DOMAIN mem \cup a..(a + n - 1) |->
        IF x \in a..(a + n - 1) THEN <<Sext(v, IF n = 8 THEN Dword ELSE IF n = 4 THEN Word ELSE 8), n, x - a>>
                                ELSE mem[x]]
=============================================================================
