--------------------------- MODULE CodeGenProofs ---------------------------
(***************************************************************************)
(* Proofs about the code generator: the frame that allocate makes is sound *)
(* for every function, the composition of CodeGen and the machine keeps it *)
(* so, and every immediate of the code fits its field, unless the frame is *)
(* at one of the two boundaries the code does not guard.                   *)
(*                                                                         *)
(* The frame has an invariant of its own (IInv); that of the composition   *)
(* (Emitting) says where CodeGen is in the function and that the code so   *)
(* far, a sequence joined from the left, carries immediates that fit.      *)
(***************************************************************************)
EXTENDS Execution, FlowProofs

(* ALIGN gives the next multiple, for every alignment allocate asks for.   *)
LEMMA AlignUp ==
    ASSUME NEW x \in Nat, NEW a \in {1, 4, 8, 16}
    PROVE  /\ ALIGN(x, a) \in Nat
           /\ x <= ALIGN(x, a)
           /\ ALIGN(x, a) % a = 0
<1>1. CASE a = 1
  BY <1>1 DEF ALIGN, RoundDown
<1>2. CASE a = 4
  BY <1>2 DEF ALIGN, RoundDown
<1>3. CASE a = 8
  BY <1>3 DEF ALIGN, RoundDown
<1>4. CASE a = 16
  BY <1>4 DEF ALIGN, RoundDown
<1> QED
  BY <1>1, <1>2, <1>3, <1>4

(* The frame pointer is aligned, so an offset below it is aligned as well. *)
LEMMA NegativeMultiple ==
    ASSUME NEW x \in Nat, NEW a \in Sizes, x % a = 0
    PROVE  (-x) % a = 0
<1>1. CASE a = 1
  BY <1>1
<1>2. CASE a = 4
  BY <1>2
<1>3. CASE a = 8
  BY <1>3
<1> QED
  BY <1>1, <1>2, <1>3 DEF Sizes

(* What every step keeps: the registers are saved above the first slot, no *)
(* byte at or below the offset is used, the frame holds all of it.         *)
FTypeOK ==
    /\ layout \in Layouts
    /\ next \in 1..(Len(layout) + 1)
    /\ offset \in Nat /\ PROLOGUE_OFFSET_BASE <= offset
    /\ offset_map \in [Value -> Int]
    /\ frame_size \in Nat
    /\ frame_size # 0 => offset <= frame_size

IInv == FTypeOK /\ FrameSound

LEMMA Items ==
    ASSUME layout \in Layouts, NEW n \in 1..Len(layout)
    PROVE  /\ layout \in Seq(Item)
           /\ layout[n].id \in Value
           /\ layout[n].size \in Sizes \cup {0}
           /\ layout[n].extra \in Nat
<1>1. layout \in Seq(Item)
  BY LayoutsAssumption
<1>2. layout[n] \in Item
  BY <1>1
<1> QED
  BY <1>1, <1>2 DEF Item

LEMMA Initially == FInit => IInv
<1> SUFFICES ASSUME FInit PROVE IInv
  OBVIOUS
<1>1. Len(layout) \in Nat
  BY LayoutsAssumption DEF FInit
<1>2. FTypeOK
  BY <1>1 DEF FInit, FTypeOK, PROLOGUE_OFFSET_BASE
<1>3. \A n \in 1..Len(layout) : ~HasSlot(n)
  BY <1>1 DEF FInit, HasSlot
<1>4. frame_size % PROLOGUE_ALIGN = 0
  BY DEF FInit, PROLOGUE_ALIGN
<1> QED
  BY <1>2, <1>3, <1>4 DEF IInv, FrameSound, SlotsApart, SlotsInside, SlotsAligned

(* A slot lies below everything allocated before it, and the offset below  *)
(* the slot and the area of its alloca.                                    *)
LEMMA ValueAllocated == IInv /\ AllocateValue => IInv'
<1> SUFFICES ASSUME IInv, AllocateValue PROVE IInv'
  OBVIOUS
<1> DEFINE item == layout[next]
           top == ALIGN(offset + item.size, item.size)
<1> USE DEF PROLOGUE_OFFSET_BASE
<1>1. /\ frame_size = 0 /\ next <= Len(layout) /\ item.size # 0
      /\ offset' = top + item.extra
      /\ offset_map' = [offset_map EXCEPT ![item.id] = -top]
      /\ next' = next + 1
      /\ layout' = layout /\ frame_size' = frame_size
  BY DEF AllocateValue, Allocate
<1>2. /\ layout \in Layouts /\ layout \in Seq(Item) /\ Len(layout) \in Nat
      /\ next \in 1..Len(layout)
      /\ offset \in Nat /\ 16 <= offset /\ offset_map \in [Value -> Int]
  BY <1>1, LayoutsAssumption DEF IInv, FTypeOK
<1>3. item.id \in Value /\ item.size \in Sizes /\ item.extra \in Nat
  BY <1>1, <1>2, Items
<1>4. item.size \in {1, 4, 8, 16} /\ offset + item.size \in Nat
  BY <1>2, <1>3 DEF Sizes
<1>5. top \in Nat /\ offset + item.size <= top /\ top % item.size = 0
  BY <1>4, AlignUp
<1> HIDE DEF top
<1>6. FTypeOK'
  <2>1. offset' \in Nat /\ 16 <= offset'
    <3>1. PICK size, extra : size = item.size /\ extra = item.extra
      OBVIOUS
    <3>2. size \in Nat /\ extra \in Nat
      BY <1>3, <1>4, <3>1
    <3>3. offset + size <= top /\ offset' = top + extra
      BY <1>1, <1>5, <3>1
    <3> QED BY <1>2, <1>5, <3>2, <3>3
  <2>2. offset_map' \in [Value -> Int]
    <3>1. -top \in Int
      BY <1>5
    <3> QED BY <1>1, <1>2, <1>3, <3>1
  <2>3. next' \in 1..(Len(layout) + 1)
    BY <1>1, <1>2
  <2> QED BY <1>1, <1>2, <2>1, <2>2, <2>3 DEF FTypeOK
<1>7. ASSUME NEW n \in 1..Len(layout), HasSlot(n)'
      PROVE  /\ n = next => Slot(layout[n])' = -top
             /\ n # next => HasSlot(n) /\ n < next /\ Slot(layout[n])' = Slot(layout[n])
             /\ layout'[n] = layout[n]
  <2>1. layout[n].id = item.id => n = next
    BY <1>2, LayoutsAssumption
  <2>2. layout[n].id \in Value
    BY <1>2, Items
  <2> QED
    BY <1>1, <1>2, <1>3, <1>7, <2>1, <2>2 DEF HasSlot, Slot
<1>8. ASSUME NEW n \in 1..Len(layout), HasSlot(n)
      PROVE  /\ Slot(layout[n]) \in Int /\ layout[n].size \in Sizes /\ layout[n].extra \in Nat
             /\ HighByte(layout[n]) < -16 /\ -offset <= LowByte(layout[n])
             /\ Slot(layout[n]) % layout[n].size = 0
  BY <1>2, <1>8, Items
     DEF IInv, FrameSound, SlotsInside, SlotsAligned, HasSlot, Slot
<1>9. SlotsApart'
  <2> SUFFICES ASSUME NEW m \in 1..Len(layout), NEW n \in 1..Len(layout),
                      HasSlot(m)', HasSlot(n)', m < n
               PROVE  HighByte(layout[n])' < LowByte(layout[m])'
    BY <1>1 DEF SlotsApart
  <2>1. m # next
    BY <1>1, <1>2 DEF HasSlot
  <2>2. HasSlot(m) /\ LowByte(layout[m])' = LowByte(layout[m])
    BY <1>7, <2>1 DEF LowByte
  <2>3. CASE n = next
    <3>1. HighByte(layout[n])' = -top + item.size - 1
      BY <1>7, <2>3 DEF HighByte
    <3>2. -top + item.size - 1 < -offset
      <4>1. PICK size : size = item.size
        OBVIOUS
      <4>2. size \in Nat /\ offset + size <= top
        BY <1>4, <1>5, <4>1
      <4>3. -top + size - 1 < -offset
        BY <1>2, <1>5, <4>2
      <4> QED BY <4>1, <4>3
    <3>3. -offset <= LowByte(layout[m]) /\ LowByte(layout[m]) \in Int
      BY <1>8, <2>2 DEF LowByte
    <3>4. -top + item.size - 1 \in Int /\ -offset \in Int
      BY <1>2, <1>3, <1>5 DEF Sizes
    <3> QED
      BY <2>2, <3>1, <3>2, <3>3, <3>4
  <2>4. CASE n # next
    BY <1>7, <2>2, <2>4 DEF HighByte, IInv, FrameSound, SlotsApart
  <2> QED
    BY <2>3, <2>4
<1>10. SlotsInside'
  <2> SUFFICES ASSUME NEW n \in 1..Len(layout), HasSlot(n)'
               PROVE  HighByte(layout[n])' < -16 /\ -(offset') <= LowByte(layout[n])'
    BY <1>1 DEF SlotsInside
  <2>1. /\ HighByte(layout[n])' = Slot(layout[n])' + layout[n].size - 1
        /\ LowByte(layout[n])' = Slot(layout[n])' - layout[n].extra
    BY <1>7 DEF HighByte, LowByte
  <2>2. CASE n = next
    <3>1. Slot(layout[n])' = -top
      BY <1>7, <2>2
    <3>2. -top + item.size - 1 < -16
      BY <1>2, <1>3, <1>5 DEF Sizes
    <3>3. offset' = top + item.extra
      BY <1>1
    <3>4. -(top + item.extra) <= -top - item.extra
      BY <1>3, <1>5
    <3> QED
      BY <2>1, <2>2, <3>1, <3>2, <3>3, <3>4
  <2>3. CASE n # next
    <3>1. HasSlot(n) /\ Slot(layout[n])' = Slot(layout[n])
      BY <1>7, <2>3
    <3>2. HighByte(layout[n]) < -16 /\ -offset <= LowByte(layout[n])
      BY <1>8, <3>1
    <3>3. offset <= offset'
      <4>1. PICK size, extra : size = item.size /\ extra = item.extra
        OBVIOUS
      <4>2. size \in Nat /\ extra \in Nat
        BY <1>3, <1>4, <4>1
      <4>3. offset + size <= top /\ offset' = top + extra
        BY <1>1, <1>5, <4>1
      <4> QED BY <1>2, <1>5, <4>2, <4>3
    <3>4. LowByte(layout[n]) \in Int /\ offset' \in Int
      BY <1>1, <1>3, <1>5, <1>8, <3>1 DEF LowByte
    <3>5. HighByte(layout[n])' = HighByte(layout[n]) /\ LowByte(layout[n])' = LowByte(layout[n])
      BY <2>1, <3>1 DEF HighByte, LowByte
    <3> QED
      BY <1>2, <3>2, <3>3, <3>4, <3>5
  <2> QED
    BY <2>2, <2>3
<1>11. SlotsAligned'
  <2>1. ASSUME NEW n \in 1..Len(layout), HasSlot(n)'
        PROVE  Slot(layout[n])' % layout'[n].size = 0
    <3>1. CASE n = next
      BY <1>3, <1>5, <1>7, <2>1, <3>1, NegativeMultiple
    <3>2. CASE n # next
      BY <1>7, <1>8, <2>1, <3>2
    <3> QED
      BY <3>1, <3>2
  <2> QED
    BY <1>1, <2>1 DEF SlotsAligned, IInv, FrameSound
<1> QED
  BY <1>6, <1>9, <1>10, <1>11 DEF IInv, FrameSound

LEMMA NothingAllocated == IInv /\ AllocateNothing => IInv'
<1> SUFFICES ASSUME IInv, AllocateNothing PROVE IInv'
  OBVIOUS
<1>1. /\ frame_size = 0 /\ next <= Len(layout) /\ layout[next].size = 0
      /\ next' = next + 1
      /\ layout' = layout /\ offset' = offset /\ offset_map' = offset_map
      /\ frame_size' = frame_size
  BY DEF AllocateNothing
<1>2. Len(layout) \in Nat /\ next \in 1..Len(layout)
  BY <1>1, LayoutsAssumption DEF IInv, FTypeOK
<1>3. FTypeOK'
  BY <1>1, <1>2 DEF IInv, FTypeOK
<1>4. \A n \in 1..Len(layout) : HasSlot(n)' => HasSlot(n)
  BY <1>1, <1>2 DEF HasSlot
<1> QED
  BY <1>1, <1>3, <1>4
     DEF IInv, FrameSound, SlotsApart, SlotsInside, SlotsAligned, Slot, LowByte, HighByte

LEMMA FrameClosed == IInv /\ FrameAllocated => IInv'
<1> SUFFICES ASSUME IInv, FrameAllocated PROVE IInv'
  OBVIOUS
<1>1. /\ frame_size = 0 /\ frame_size' = ALIGN(offset, 16)
      /\ layout' = layout /\ next' = next /\ offset' = offset /\ offset_map' = offset_map
  BY DEF FrameAllocated, PROLOGUE_ALIGN
<1>2. offset \in Nat
  BY DEF IInv, FTypeOK
<1>3. frame_size' \in Nat /\ offset <= frame_size' /\ frame_size' % 16 = 0
  BY <1>1, <1>2, AlignUp
<1>4. FTypeOK'
  BY <1>1, <1>3 DEF IInv, FTypeOK
<1>5. SlotsApart'
  BY <1>1 DEF IInv, FrameSound, SlotsApart, HasSlot, Slot, LowByte, HighByte
<1>6. SlotsInside'
  <2> SUFFICES ASSUME NEW n \in 1..Len(layout), HasSlot(n)
               PROVE  /\ HighByte(layout[n]) < -PROLOGUE_OFFSET_BASE
                      /\ -offset <= LowByte(layout[n])
                      /\ -(frame_size') <= LowByte(layout[n])
    BY <1>1 DEF SlotsInside, HasSlot, Slot, LowByte, HighByte
  <2>1. HighByte(layout[n]) < -PROLOGUE_OFFSET_BASE /\ -offset <= LowByte(layout[n])
    BY DEF IInv, FrameSound, SlotsInside
  <2>2. LowByte(layout[n]) \in Int
    BY Items DEF IInv, FTypeOK, LowByte, Slot
  <2> QED
    BY <1>2, <1>3, <2>1, <2>2
<1>7. SlotsAligned'
  BY <1>1, <1>3 DEF IInv, FrameSound, SlotsAligned, HasSlot, Slot, PROLOGUE_ALIGN
<1> QED
  BY <1>4, <1>5, <1>6, <1>7 DEF IInv, FrameSound

LEMMA FrameStep == IInv /\ [FNext]_fvars => IInv'
<1> SUFFICES ASSUME IInv, [FNext]_fvars PROVE IInv'
  OBVIOUS
<1>1. CASE AllocateValue
  BY <1>1, ValueAllocated
<1>2. CASE AllocateNothing
  BY <1>2, NothingAllocated
<1>3. CASE FrameAllocated
  BY <1>3, FrameClosed
<1>4. CASE UNCHANGED fvars
  BY <1>4 DEF fvars, IInv, FTypeOK, FrameSound, SlotsApart, SlotsInside, SlotsAligned,
              HasSlot, Slot, LowByte, HighByte
<1> QED BY <1>1, <1>2, <1>3, <1>4 DEF FNext

(* Whatever the arguments and instructions of a function, allocate gives   *)
(* every value and every alloca bytes of its own, aligned, inside the      *)
(* frame and below the saved registers (CodeGen::allocate).                *)
THEOREM FramesAreSound == FSpec => []FrameSound
<1>1. FInit => IInv
  BY Initially
<1>2. IInv /\ [FNext]_fvars => IInv'
  BY FrameStep
<1>3. IInv => FrameSound
  BY DEF IInv
<1> QED BY <1>1, <1>2, <1>3, PTL DEF FSpec

-----------------------------------------------------------------------------
(* The code of CodeGen: sequences of instructions whose immediates fit.    *)
Carrying == {"addi.w", "addi.d", "ld", "st"}

Fits(x) == x[1] \in Carrying => FitsLow(x[4])

Code(c) == \E S : c \in Seq(S) /\ \A x \in S : Fits(x)

LEMMA CodeFits ==
  ASSUME NEW c, Code(c)
  PROVE  \A n \in 1..Len(c) : Fits(c[n])
<1>1. PICK S : c \in Seq(S) /\ \A x \in S : Fits(x)
  BY DEF Code
<1>2. \A n \in 1..Len(c) : c[n] \in S
  BY <1>1
<1> QED BY <1>1, <1>2

LEMMA CodeIs ==
  ASSUME NEW S, \A x \in S : Fits(x), NEW c \in Seq(S)
  PROVE  Code(c)
  BY DEF Code

LEMMA NoCode == Code(<< >>)
<1>1. PICK S, c : S = {} /\ c = << >>
  OBVIOUS
<1>2. c \in Seq(S) /\ \A x \in S : Fits(x)
  BY <1>1
<1> QED BY <1>1, <1>2, CodeIs

LEMMA OneCode ==
  ASSUME NEW x, Fits(x)
  PROVE  Code(<<x>>)
<1>1. PICK S, c : S = {x} /\ c = <<x>>
  OBVIOUS
<1>2. c \in Seq(S) /\ \A y \in S : Fits(y)
  BY <1>1
<1> QED BY <1>1, <1>2, CodeIs

LEMMA JoinedCode ==
  ASSUME NEW c, NEW d, Code(c), Code(d)
  PROVE  Code(c \o d)
<1>1. PICK S : c \in Seq(S) /\ \A x \in S : Fits(x)
  BY DEF Code
<1>2. PICK U : d \in Seq(U) /\ \A x \in U : Fits(x)
  BY DEF Code
<1>3. c \in Seq(S \cup U) /\ d \in Seq(S \cup U)
  <2>1. /\ Len(c) \in Nat /\ c = [n \in 1..Len(c) |-> c[n]] /\ \A n \in 1..Len(c) : c[n] \in S
    BY <1>1
  <2>2. /\ Len(d) \in Nat /\ d = [n \in 1..Len(d) |-> d[n]] /\ \A n \in 1..Len(d) : d[n] \in U
    BY <1>2
  <2>3. c \in Seq(S \cup U)
    BY <1>1
  <2>4. d \in Seq(S \cup U)
    BY <1>2
  <2> QED BY <2>3, <2>4
<1>4. c \o d \in Seq(S \cup U)
  BY <1>3
<1>5. \A x \in S \cup U : Fits(x)
  BY <1>1, <1>2
<1> QED BY <1>4, <1>5 DEF Code

(* FlattenSeq, unfolded: its parts are joined from the left.               *)
Flattens(g, s, l) == g = [i \in 1..l |-> IF i = 1 THEN s[i] ELSE g[i - 1] \o s[i]]

LEMMA FlattensExists ==
  ASSUME NEW s
  PROVE  \A l \in Nat : \E g : Flattens(g, s, l)
<1> DEFINE T == {l \in Nat : \E g : Flattens(g, s, l)}
<1>1. 0 \in T
  <2> DEFINE g == [i \in 1..0 |-> s[i]]
  <2>1. g = [i \in 1..0 |-> IF i = 1 THEN s[i] ELSE g[i - 1] \o s[i]]
    OBVIOUS
  <2> QED BY <2>1 DEF Flattens
<1>2. ASSUME NEW l \in Nat, l \in T PROVE l + 1 \in T
  <2>1. PICK g : Flattens(g, s, l)
    BY <1>2
  <2> DEFINE last == IF l = 0 THEN s[1] ELSE g[l] \o s[l + 1]
             h == [i \in 1..(l + 1) |-> IF i = l + 1 THEN last ELSE g[i]]
  <2>2. ASSUME NEW i \in 1..(l + 1)
        PROVE  h[i] = IF i = 1 THEN s[i] ELSE h[i - 1] \o s[i]
    <3>1. CASE i = l + 1 /\ l = 0
      BY <3>1
    <3>2. CASE i = l + 1 /\ l # 0
      <4>1. l \in 1..(l + 1) /\ l # l + 1 /\ i - 1 = l /\ i # 1
        BY <3>2
      <4>2. h[l] = g[l]
        BY <4>1
      <4>3. h[i] = g[l] \o s[l + 1]
        BY <3>2
      <4> QED BY <3>2, <4>1, <4>2, <4>3
    <3>3. CASE i # l + 1
      <4>1. i \in 1..l
        BY <3>3
      <4>2. h[i] = g[i] /\ g[i] = IF i = 1 THEN s[i] ELSE g[i - 1] \o s[i]
        BY <2>1, <3>3, <4>1 DEF Flattens
      <4>3. i # 1 => i - 1 \in 1..(l + 1) /\ i - 1 # l + 1
        BY <4>1
      <4>4. i # 1 => h[i - 1] = g[i - 1]
        BY <4>3
      <4> QED BY <4>2, <4>4
    <3> QED BY <3>1, <3>2, <3>3
  <2>3. Flattens(h, s, l + 1)
    <3>1. h = [i \in 1..(l + 1) |-> h[i]]
      OBVIOUS
    <3> HIDE DEF h
    <3> QED BY <2>2, <3>1 DEF Flattens
  <2> QED BY <2>3
<1>3. Nat \subseteq T
  <2> HIDE DEF T
  <2> QED BY <1>1, <1>2, SetInduction
<1> QED BY <1>3

LEMMA FlattenedCode ==
  ASSUME NEW l \in Nat, NEW s, s = [n \in 1..l |-> s[n]], \A n \in 1..l : Code(s[n])
  PROVE  Code(FlattenSeq(s))
<1>1. Len(s) = l
  OBVIOUS
<1>2. CASE l = 0
  <2>1. s = << >>
    BY <1>2
  <2>2. FlattenSeq(s) = s
    BY <1>1, <1>2 DEF FlattenSeq
  <2> QED BY <2>1, <2>2, NoCode
<1>3. CASE l # 0
  <2> DEFINE g == CHOOSE g : Flattens(g, s, l)
  <2>1. Flattens(g, s, l)
    BY FlattensExists
  <2>2. FlattenSeq(s) = g[l]
    BY <1>1, <1>3 DEF FlattenSeq, Flattens
  <2> HIDE DEF g
  <2> DEFINE T == {k \in Nat : k \in 1..l => Code(g[k])}
  <2>3. 0 \in T
    OBVIOUS
  <2>4. ASSUME NEW k \in Nat, k \in T PROVE k + 1 \in T
    <3> SUFFICES ASSUME k + 1 \in 1..l PROVE Code(g[k + 1])
      OBVIOUS
    <3>1. g[k + 1] = IF k + 1 = 1 THEN s[k + 1] ELSE g[(k + 1) - 1] \o s[k + 1]
      BY <2>1 DEF Flattens
    <3>2. CASE k = 0
      BY <3>1, <3>2
    <3>3. CASE k # 0
      <4>1. k \in 1..l /\ (k + 1) - 1 = k /\ k + 1 # 1
        BY <3>3
      <4>2. Code(g[k]) /\ Code(s[k + 1])
        BY <2>4, <4>1
      <4>3. g[k + 1] = g[k] \o s[k + 1]
        BY <3>1, <4>1
      <4> QED BY <4>2, <4>3, JoinedCode
    <3> QED BY <3>2, <3>3
  <2>5. Nat \subseteq T
    <3> HIDE DEF T
    <3> QED BY <2>3, <2>4, SetInduction
  <2>6. l \in T /\ l \in 1..l
    BY <1>3, <2>5
  <2> QED BY <2>2, <2>6
<1> QED BY <1>2, <1>3

LEMMA TwoCode ==
  ASSUME NEW x, NEW y, Fits(x), Fits(y)
  PROVE  Code(<<x, y>>)
<1>1. PICK S, c : S = {x, y} /\ c = <<x, y>>
  OBVIOUS
<1>2. c \in Seq(S) /\ \A z \in S : Fits(z)
  BY <1>1
<1> QED BY <1>1, <1>2, CodeIs

LEMMA ThreeCode ==
  ASSUME NEW x, NEW y, NEW z, Fits(x), Fits(y), Fits(z)
  PROVE  Code(<<x, y, z>>)
<1>1. PICK S, c : S = {x, y, z} /\ c = <<x, y, z>>
  OBVIOUS
<1>2. c \in Seq(S) /\ \A u \in S : Fits(u)
  BY <1>1
<1> QED BY <1>1, <1>2, CodeIs

(* An immediate of a load or store, of an addition, and others.            *)
LEMMA FitsNear ==
  ASSUME NEW x, FitsLow(x[4])
  PROVE  Fits(x)
  BY DEF Fits

LEMMA FitsOther ==
  ASSUME NEW x, x[1] \notin Carrying
  PROVE  Fits(x)
  BY DEF Fits

LEMMA SmallFits ==
  /\ FitsLow(-16) /\ FitsLow(-8) /\ FitsLow(0) /\ FitsLow(1)
<1>1. PICK reach : reach = 2^(Low - 1)
  OBVIOUS
<1>2. reach \in Nat /\ 16 <= reach
  BY <1>1, ReachAssumption DEF PROLOGUE_OFFSET_BASE
<1>3. \A n : -reach <= n /\ n < reach => FitsLow(n)
  BY <1>1 DEF FitsLow
<1> QED BY <1>2, <1>3

-----------------------------------------------------------------------------
(* Loading and storing values.                                             *)
LEMMA LargeCode ==
  ASSUME NEW n, NEW r
  PROVE  Code(load_large_int32(n, r)) /\ Code(load_large_int64(n, r))
<1>1. \A m : Code(load_large_int32(m, r))
  <2> TAKE m
  <2>1. PICK x : x = <<"lu12i.w", r, "zero", m \div 2^Low>>
    OBVIOUS
  <2>2. PICK y : y = <<"ori", r, r, m % 2^Low>>
    OBVIOUS
  <2>3. x[1] \notin Carrying /\ y[1] \notin Carrying
    BY <2>1, <2>2 DEF Carrying
  <2>4. Code(<<x, y>>)
    BY <2>3, FitsOther, TwoCode
  <2> QED BY <2>1, <2>2, <2>4 DEF load_large_int32
<1>2. \A p, q : Code(<< <<"lu32i.d", r, r, p>>, <<"lu52i.d", r, r, q>> >>)
  <2> TAKE p, q
  <2>1. PICK x : x = <<"lu32i.d", r, r, p>>
    OBVIOUS
  <2>2. PICK y : y = <<"lu52i.d", r, r, q>>
    OBVIOUS
  <2>3. x[1] \notin Carrying /\ y[1] \notin Carrying
    BY <2>1, <2>2 DEF Carrying
  <2> QED BY <2>1, <2>2, <2>3, FitsOther, TwoCode
<1>3. Code(load_large_int64(n, r))
  <2>1. PICK c, h : c = load_large_int32(Sext(n, Word), r) /\ h = n \div 2^Word
    OBVIOUS
  <2>2. PICK d : d = << <<"lu32i.d", r, r, Sext(h, High)>>, <<"lu52i.d", r, r, h \div 2^High>> >>
    OBVIOUS
  <2>3. Code(c) /\ Code(d)
    BY <1>1, <1>2, <2>1, <2>2
  <2>4. load_large_int64(n, r) = c \o d
    BY <2>1, <2>2 DEF load_large_int64
  <2> QED BY <2>3, <2>4, JoinedCode
<1> QED BY <1>1, <1>3

LEMMA AccessCode ==
  ASSUME NEW op, NEW r, NEW id, NEW addr
  PROVE  Code(AccessSlot(op, r, id, addr))
<1>1. PICK off, size : off = offset_map[id] /\ size = ByteSize(func.type[id])
  OBVIOUS
<1>2. CASE FitsLow(off)
  <2>1. PICK x : x = <<op, r, "fp", off, size>>
    OBVIOUS
  <2>2. x[4] = off
    BY <2>1
  <2>3. AccessSlot(op, r, id, addr) = <<x>>
    BY <1>1, <1>2, <2>1 DEF AccessSlot
  <2> QED BY <1>2, <2>2, <2>3, FitsNear, OneCode
<1>3. CASE ~FitsLow(off)
  <2>1. PICK x : x = <<"add.d", addr, "fp", addr>>
    OBVIOUS
  <2>2. PICK y : y = <<op, r, addr, 0, size>>
    OBVIOUS
  <2>3. x[1] \notin Carrying /\ y[4] = 0
    BY <2>1, <2>2 DEF Carrying
  <2>4. Code(<<x, y>>)
    BY <2>3, SmallFits, FitsNear, FitsOther, TwoCode
  <2>5. AccessSlot(op, r, id, addr) = load_large_int64(off, addr) \o <<x, y>>
    BY <1>1, <1>3, <2>1, <2>2 DEF AccessSlot
  <2> QED BY <2>4, <2>5, LargeCode, JoinedCode
<1> QED BY <1>2, <1>3

LEMMA FloatLoadCode ==
  ASSUME NEW x, NEW b
  PROVE  Code(load_to_freg(x, b))
<1>1. CASE x[1] = "c"
  <2>1. PICK y : y = <<"movgr2fr.w", b, "t8">>
    OBVIOUS
  <2>2. y[1] \notin Carrying
    BY <2>1 DEF Carrying
  <2>3. load_to_freg(x, b) = load_large_int32(FloatBits(x[2]), "t8") \o <<y>>
    BY <1>1, <2>1 DEF load_to_freg
  <2> QED BY <2>2, <2>3, FitsOther, OneCode, LargeCode, JoinedCode
<1>2. CASE x[1] # "c"
  <2>1. load_to_freg(x, b) = AccessSlot("ld", b, x[2], "t8")
    BY <1>2 DEF load_to_freg
  <2> QED BY <2>1, AccessCode
<1> QED BY <1>1, <1>2

LEMMA LoadCode ==
  ASSUME NEW x, x[1] \in {"c", "g", "v"}, NEW a, NEW b
  PROVE  Code(load_to_greg(x, a)) /\ Code(load_to(x, a, b))
<1>1. Code(load_to_greg(x, a))
  <2>1. CASE x[1] = "c" /\ FitsLow(x[2])
    <3>1. PICK y : y = <<"addi.w", a, "zero", x[2]>>
      OBVIOUS
    <3>2. y[4] = x[2]
      BY <3>1
    <3>3. load_to_greg(x, a) = <<y>>
      BY <2>1, <3>1 DEF load_to_greg, LoadWith
    <3> QED BY <2>1, <3>2, <3>3, FitsNear, OneCode
  <2>2. CASE x[1] = "c" /\ ~FitsLow(x[2])
    <3>1. load_to_greg(x, a) = load_large_int32(x[2], a)
      BY <2>2 DEF load_to_greg, LoadWith
    <3> QED BY <3>1, LargeCode
  <2>3. CASE x[1] = "g"
    <3>1. PICK y : y = <<"la.local", a, x[2]>>
      OBVIOUS
    <3>2. y[1] \notin Carrying
      BY <3>1 DEF Carrying
    <3>3. load_to_greg(x, a) = <<y>>
      BY <2>3, <3>1 DEF load_to_greg, LoadWith
    <3> QED BY <3>2, <3>3, FitsOther, OneCode
  <2>4. CASE x[1] = "v"
    <3>1. load_to_greg(x, a) = AccessSlot("ld", a, x[2], a)
      BY <2>4 DEF load_to_greg, LoadWith
    <3> QED BY <3>1, AccessCode
  <2> QED BY <2>1, <2>2, <2>3, <2>4
<1>2. Code(load_to_freg(x, b))
  BY FloatLoadCode
<1> QED BY <1>1, <1>2 DEF load_to

LEMMA StoreCode ==
  ASSUME NEW id, NEW r
  PROVE  Code(store_from(id, r))
BY AccessCode DEF store_from

-----------------------------------------------------------------------------
(* What every step of CodeGen keeps.                                       *)

(* The two boundaries that no test of the code guards: a frame of exactly  *)
(* the size an immediate no longer reaches, and an alloca farther away.    *)
FrameInReach ==
    /\ frame_size # 2^(Low - 1)
    /\ \A i \in Instructions(func) : i.op = "alloca" => FitsLow(offset_map[i.id] - i.aux)

Emitting ==
    /\ func \in Functions /\ bb \in Nat \ {0} /\ inst \in Nat \ {0}
    /\ phase = "frame" => output = << >>
    /\ phase = "inst" => bb <= Len(func.blocks) /\ inst <= Len(func.insts[BB])
    /\ (phase # "frame" => FrameInReach) => Code(output)

LEMMA BlocksIn ==
  ASSUME func \in Functions, NEW b \in Blocks(func)
  PROVE  /\ Len(func.insts[b]) \in Nat \ {0}
         /\ \A k \in 1..Len(func.insts[b]) : func.insts[b][k] \in Instructions(func)
<1>1. func.insts[b] \in Seq(Instructions(func)) /\ func.insts[b] # << >>
  BY FunctionsAssumption
<1>2. PICK s : s = func.insts[b]
  OBVIOUS
<1>3. s \in Seq(Instructions(func)) /\ s # << >>
  BY <1>1, <1>2
<1>4. Len(s) \in Nat \ {0} /\ \A k \in 1..Len(s) : s[k] \in Instructions(func)
  BY <1>3
<1> QED BY <1>2, <1>4

LEMMA BlockAt ==
  ASSUME func \in Functions, bb \in Nat \ {0}, bb <= Len(func.blocks)
  PROVE  BB \in Blocks(func)
<1>1. PICK s : s = func.blocks
  OBVIOUS
<1>2. s \in Seq(Blocks(func))
  BY <1>1, FunctionsAssumption
<1>3. bb \in 1..Len(s)
  BY <1>1, <1>2
<1>4. s[bb] \in Blocks(func)
  BY <1>2, <1>3
<1> QED BY <1>1, <1>4 DEF BB

LEMMA InstIn ==
  ASSUME Emitting, phase = "inst"
  PROVE  /\ func \in Functions /\ BB \in Blocks(func) /\ Inst \in Instructions(func)
         /\ \A n \in Loaded(Inst) : Inst.ops[n][1] \in {"c", "g", "v"}
         /\ \A n \in Targets(Inst) : Inst.ops[n][2] \in Blocks(func)
         /\ Inst.op = "call" => Len(Signature[Inst.aux].params) \in Nat
<1>1. func \in Functions /\ BB \in Blocks(func)
  BY BlockAt DEF Emitting
<1>2. PICK l : l = Len(func.insts[BB])
  OBVIOUS
<1>3. l \in Nat \ {0} /\ inst \in Nat \ {0} /\ inst <= l
  BY <1>1, <1>2, BlocksIn DEF Emitting
<1>4. inst \in 1..l
  BY <1>3
<1>5. Inst \in Instructions(func)
  BY <1>1, <1>2, <1>4, BlocksIn DEF Inst
<1> QED BY <1>1, <1>5, FunctionsAssumption

LEMMA GenKeeps ==
  ASSUME Emitting, NEW ops, NEW code, Gen(ops, code), FrameInReach => Code(code)
  PROVE  Emitting'
<1>1. /\ phase = "inst" /\ UNCHANGED <<fvars, func>>
      /\ output' = output \o (<< <<"comment", BB, inst>> >> \o code)
      /\ IF inst = Len(func.insts[BB])
         THEN phase' = "label" /\ bb' = bb + 1 /\ UNCHANGED inst
         ELSE inst' = inst + 1 /\ UNCHANGED <<phase, bb>>
  BY DEF Gen, Emit
<1>2. FrameInReach' <=> FrameInReach
  BY <1>1 DEF FrameInReach, fvars
<1>3. ASSUME FrameInReach PROVE Code(output')
  <2>1. PICK x : x = <<"comment", BB, inst>>
    OBVIOUS
  <2>2. x[1] \notin Carrying
    BY <2>1 DEF Carrying
  <2>3. Code(<<x>>)
    BY <2>2, FitsOther, OneCode
  <2>4. Code(output) /\ Code(code)
    BY <1>3 DEF Emitting
  <2>5. Code(<<x>> \o code)
    BY <2>3, <2>4, JoinedCode
  <2>6. output' = output \o (<<x>> \o code)
    BY <1>1, <2>1
  <2> QED BY <2>4, <2>5, <2>6, JoinedCode
<1>4. func' \in Functions /\ phase' # "frame"
  BY <1>1 DEF Emitting
<1>5. CASE inst = Len(func.insts[BB])
  <2>1. phase' = "label" /\ bb' \in Nat \ {0} /\ inst' \in Nat \ {0}
    BY <1>1, <1>5 DEF Emitting
  <2> QED BY <1>2, <1>3, <1>4, <2>1 DEF Emitting
<1>6. CASE inst # Len(func.insts[BB])
  <2>1. /\ phase' = "inst" /\ bb' = bb /\ inst' = inst + 1 /\ BB' = BB
        /\ Len(func.insts[BB])' = Len(func.insts[BB])
    BY <1>1, <1>6 DEF BB
  <2>2. PICK l : l = Len(func.insts[BB])
    OBVIOUS
  <2>3. l \in Nat /\ inst <= l /\ inst # l /\ inst \in Nat \ {0}
    BY <1>1, <1>6, <2>2, InstIn, BlocksIn DEF Emitting
  <2>4. inst' \in Nat \ {0} /\ inst' <= l
    BY <2>1, <2>3
  <2>5. /\ bb' \in Nat \ {0} /\ bb' <= Len(func'.blocks) /\ inst' <= Len(func'.insts[BB'])
    BY <1>1, <2>1, <2>2, <2>4 DEF Emitting
  <2> QED BY <1>2, <1>3, <1>4, <2>1, <2>4, <2>5 DEF Emitting
<1> QED BY <1>5, <1>6

-----------------------------------------------------------------------------
(* The code of each kind of instruction.                                   *)
LEMMA OperandLoaded ==
  ASSUME Emitting, phase = "inst", NEW n \in Loaded(Inst), NEW a, NEW b
  PROVE  Code(load_to_greg(Inst.ops[n], a)) /\ Code(load_to(Inst.ops[n], a, b))
<1>1. PICK x : x = Inst.ops[n]
  OBVIOUS
<1>2. x[1] \in {"c", "g", "v"}
  BY <1>1, InstIn
<1> QED BY <1>1, <1>2, LoadCode

(* An instruction that computes: two operands, some code, the result.      *)
LEMMA BothLoaded ==
  ASSUME Emitting, phase = "inst", 1 \in Loaded(Inst), 2 \in Loaded(Inst), NEW x, NEW y
  PROVE  Code(Operands(x, y))
BY OperandLoaded, JoinedCode DEF Operands

LEMMA RetKeeps == ASSUME Emitting, GenRet PROVE Emitting'
<1>1. phase = "inst" /\ Inst.op = "ret"
  BY DEF GenRet, GenPlain, Gen
<1>2. Code(ReturnValue)
  <2>1. CASE Inst.ops = << >>
    <3>1. PICK x : x = <<"addi.w", "a0", "zero", 0>>
      OBVIOUS
    <3>2. x[4] = 0
      BY <3>1
    <3>3. Code(<<x>>)
      BY <3>2, SmallFits, FitsNear, OneCode
    <3> QED BY <2>1, <3>1, <3>3 DEF ReturnValue
  <2>2. CASE Inst.ops # << >>
    <3>1. 1 \in Loaded(Inst)
      BY <1>1, <2>2 DEF Loaded
    <3> QED BY <1>1, <2>2, <3>1, OperandLoaded DEF ReturnValue
  <2> QED BY <2>1, <2>2
<1>3. Code(<< <<"b", Exit>> >>)
  <2>1. PICK x : x = <<"b", Exit>>
    OBVIOUS
  <2>2. x[1] \notin Carrying
    BY <2>1 DEF Carrying
  <2> QED BY <2>1, <2>2, FitsOther, OneCode
<1>4. Code(ReturnValue \o << <<"b", Exit>> >>)
  BY <1>2, <1>3, JoinedCode
<1> QED BY <1>4, GenKeeps DEF GenRet, GenPlain

(* The copies of a block's phis.                                           *)
LEMMA CopiesCode ==
  ASSUME func \in Functions, NEW b \in Blocks(func)
  PROVE  Code(PhiCopies(b))
<1> DEFINE l == Len(func.insts[b])
           Phi(k) == func.insts[b][k]
           Copy(k, a) == IF Phi(k).ops[2 * a] # <<"b", BB>> THEN << >>
                         ELSE load_to(Phi(k).ops[2 * a - 1], "t0", "ft0")
                              \o store_from(Phi(k).id, IF Phi(k).ty = "float" THEN "ft0" ELSE "t0")
           Copies(k) == IF Phi(k).op # "phi" THEN << >>
                        ELSE FlattenSeq([a \in 1..(Len(Phi(k).ops) \div 2) |-> Copy(k, a)])
<1>1. l \in Nat /\ \A k \in 1..l : Phi(k) \in Instructions(func)
  BY BlocksIn
<1>2. ASSUME NEW k \in 1..l PROVE Code(Copies(k))
  <2>1. CASE Phi(k).op # "phi"
    BY <2>1, NoCode
  <2>2. CASE Phi(k).op = "phi"
    <3> DEFINE i == Phi(k)
               m == Len(i.ops) \div 2
    <3>1. /\ i.ops \in Seq(ToSet(i.ops))
          /\ \A n \in Loaded(i) : i.ops[n][1] \in {"c", "g", "v"}
      BY <1>1, FunctionsAssumption
    <3>2. m \in Nat
      <4>1. Len(i.ops) \in Nat
        BY <3>1
      <4>2. \A q \in Nat : q \div 2 \in Nat
        OBVIOUS
      <4> QED BY <4>1, <4>2
    <3>3. Loaded(i) = {2 * a - 1 : a \in 1..m}
      BY <2>2 DEF Loaded
    <3>4. ASSUME NEW a \in 1..m PROVE Code(Copy(k, a))
      <4>1. CASE i.ops[2 * a] # <<"b", BB>>
        BY <4>1, NoCode
      <4>2. CASE i.ops[2 * a] = <<"b", BB>>
        <5>1. PICK x : x = i.ops[2 * a - 1]
          OBVIOUS
        <5>2. x[1] \in {"c", "g", "v"}
          BY <3>1, <3>3, <5>1
        <5>3. PICK r : r = IF i.ty = "float" THEN "ft0" ELSE "t0"
          OBVIOUS
        <5>4. Code(load_to(x, "t0", "ft0")) /\ Code(store_from(i.id, r))
          BY <5>2, LoadCode, StoreCode
        <5>5. Copy(k, a) = load_to(x, "t0", "ft0") \o store_from(i.id, r)
          BY <4>2, <5>1, <5>3
        <5> QED BY <5>4, <5>5, JoinedCode
      <4> QED BY <4>1, <4>2
    <3>5. PICK s : s = [a \in 1..m |-> Copy(k, a)]
      OBVIOUS
    <3>6. Copies(k) = FlattenSeq(s)
      BY <2>2, <3>5
    <3> HIDE DEF Copy, m, Copies
    <3>7. s = [a \in 1..m |-> s[a]] /\ \A a \in 1..m : Code(s[a])
      BY <3>4, <3>5
    <3> QED BY <3>2, <3>6, <3>7, FlattenedCode
  <2> QED BY <2>1, <2>2
<1>3. PICK s : s = [k \in 1..l |-> Copies(k)]
  OBVIOUS
<1>4. PhiCopies(b) = FlattenSeq(s)
  BY <1>3 DEF PhiCopies
<1> HIDE DEF l, Copies
<1>5. s = [k \in 1..l |-> s[k]] /\ \A k \in 1..l : Code(s[k])
  BY <1>2, <1>3
<1> QED BY <1>1, <1>4, <1>5, FlattenedCode

LEMMA BrKeeps == ASSUME Emitting, GenBr PROVE Emitting'
<1> DEFINE target(n) == label_name(Inst.ops[n][2])
           copies(n) == PhiCopies(Inst.ops[n][2])
           jump == << <<"b", target(1)>> >>
           jumps == << <<"beqz", target(3), "t0">>, <<"b", target(2)>> >>
           code == IF Len(Inst.ops) = 1 THEN copies(1) \o jump
                   ELSE load_to_greg(Inst.ops[1], "t0") \o copies(2) \o copies(3) \o jumps
<1>1. phase = "inst" /\ Inst.op = "br" /\ Gen({"br"}, code)
  BY DEF GenBr, GenPlain, Gen
<1>2. ASSUME NEW n \in Targets(Inst) PROVE Code(copies(n))
  BY <1>1, <1>2, InstIn, CopiesCode
<1>3. Code(jump) /\ Code(jumps)
  <2>1. PICK x, y, z : /\ x = <<"b", target(1)>> /\ y = <<"beqz", target(3), "t0">>
                       /\ z = <<"b", target(2)>>
    OBVIOUS
  <2>2. x[1] \notin Carrying /\ y[1] \notin Carrying /\ z[1] \notin Carrying
    BY <2>1 DEF Carrying
  <2>3. Code(<<x>>) /\ Code(<<y, z>>)
    BY <2>2, FitsOther, OneCode, TwoCode
  <2> QED BY <2>1, <2>3
<1> HIDE DEF copies, jump, jumps
<1>4. CASE Len(Inst.ops) = 1
  <2>1. 1 \in Targets(Inst)
    BY <1>1, <1>4 DEF Targets
  <2>2. Code(copies(1) \o jump)
    BY <1>2, <1>3, <2>1, JoinedCode
  <2> QED BY <1>1, <1>4, <2>2, GenKeeps
<1>5. CASE Len(Inst.ops) # 1
  <2>1. 2 \in Targets(Inst) /\ 3 \in Targets(Inst) /\ 1 \in Loaded(Inst)
    BY <1>1, <1>5 DEF Targets, Loaded
  <2>2. Code(load_to_greg(Inst.ops[1], "t0")) /\ Code(copies(2)) /\ Code(copies(3))
    BY <1>1, <1>2, <2>1, OperandLoaded
  <2>3. Code(load_to_greg(Inst.ops[1], "t0") \o copies(2))
    BY <2>2, JoinedCode
  <2>4. Code(load_to_greg(Inst.ops[1], "t0") \o copies(2) \o copies(3))
    BY <2>2, <2>3, JoinedCode
  <2>5. Code(load_to_greg(Inst.ops[1], "t0") \o copies(2) \o copies(3) \o jumps)
    BY <1>3, <2>4, JoinedCode
  <2> QED BY <1>1, <1>5, <2>5, GenKeeps
<1> QED BY <1>4, <1>5

LEMMA PhiKeeps == ASSUME Emitting, GenPhi PROVE Emitting'
  BY NoCode, GenKeeps DEF GenPhi, GenPlain

(* The result of a computation: one instruction, and the store.            *)
LEMMA ComputedCode ==
  ASSUME NEW x, Fits(x), NEW c, Code(c), NEW id, NEW r
  PROVE  Code(c \o <<x>> \o store_from(id, r))
<1>1. Code(c \o <<x>>)
  BY OneCode, JoinedCode
<1> QED BY <1>1, StoreCode, JoinedCode

LEMMA MnemonicsCarryNothing ==
  ASSUME NEW op \in {"add", "sub", "mul", "sdiv", "fadd", "fsub", "fmul", "fdiv",
                     "feq", "fne", "fgt", "fge", "flt", "fle"}
  PROVE  Mnemonic[op] \notin Carrying
<1>1. /\ Mnemonic.add \notin Carrying /\ Mnemonic.sub \notin Carrying
      /\ Mnemonic.mul \notin Carrying /\ Mnemonic.sdiv \notin Carrying
      /\ Mnemonic.fadd \notin Carrying /\ Mnemonic.fsub \notin Carrying
      /\ Mnemonic.fmul \notin Carrying /\ Mnemonic.fdiv \notin Carrying
  BY DEF Mnemonic, Carrying
<1>2. /\ Mnemonic.feq \notin Carrying /\ Mnemonic.fne \notin Carrying
      /\ Mnemonic.fgt \notin Carrying /\ Mnemonic.fge \notin Carrying
      /\ Mnemonic.flt \notin Carrying /\ Mnemonic.fle \notin Carrying
  BY DEF Mnemonic, Carrying
<1>3. /\ Mnemonic.add = Mnemonic["add"] /\ Mnemonic.sub = Mnemonic["sub"]
      /\ Mnemonic.mul = Mnemonic["mul"] /\ Mnemonic.sdiv = Mnemonic["sdiv"]
      /\ Mnemonic.fadd = Mnemonic["fadd"] /\ Mnemonic.fsub = Mnemonic["fsub"]
      /\ Mnemonic.fmul = Mnemonic["fmul"] /\ Mnemonic.fdiv = Mnemonic["fdiv"]
  OBVIOUS
<1>4. /\ Mnemonic.feq = Mnemonic["feq"] /\ Mnemonic.fne = Mnemonic["fne"]
      /\ Mnemonic.fgt = Mnemonic["fgt"] /\ Mnemonic.fge = Mnemonic["fge"]
      /\ Mnemonic.flt = Mnemonic["flt"] /\ Mnemonic.fle = Mnemonic["fle"]
  OBVIOUS
<1> QED BY <1>1, <1>2, <1>3, <1>4

LEMMA BinaryKeeps == ASSUME Emitting, GenBinary PROVE Emitting'
<1> DEFINE x == <<Mnemonic[Inst.op], "t2", "t0", "t1">>
           code == Operands(T0, T1) \o <<x>> \o store_from(Inst.id, "t2")
<1>1. /\ phase = "inst" /\ Inst.op \in {"add", "sub", "mul", "sdiv"}
      /\ Gen({"add", "sub", "mul", "sdiv"}, code)
  BY DEF GenBinary, GenPlain, Gen
<1>2. x[1] \notin Carrying
  BY <1>1, MnemonicsCarryNothing
<1>3. 1 \in Loaded(Inst) /\ 2 \in Loaded(Inst)
  BY <1>1 DEF Loaded
<1> HIDE DEF x
<1>4. Code(code)
  BY <1>1, <1>2, <1>3, FitsOther, BothLoaded, ComputedCode
<1> QED BY <1>1, <1>4, GenKeeps

LEMMA FloatBinaryKeeps == ASSUME Emitting, GenFloatBinary PROVE Emitting'
<1> DEFINE x == <<Mnemonic[Inst.op], "ft2", "ft0", "ft1">>
           code == Operands(T0, T1) \o <<x>> \o store_from(Inst.id, "ft2")
<1>1. /\ phase = "inst" /\ Inst.op \in {"fadd", "fsub", "fmul", "fdiv"}
      /\ Gen({"fadd", "fsub", "fmul", "fdiv"}, code)
  BY DEF GenFloatBinary, GenPlain, Gen
<1>2. x[1] \notin Carrying
  BY <1>1, MnemonicsCarryNothing
<1>3. 1 \in Loaded(Inst) /\ 2 \in Loaded(Inst)
  BY <1>1 DEF Loaded
<1> HIDE DEF x
<1>4. Code(code)
  BY <1>1, <1>2, <1>3, FitsOther, BothLoaded, ComputedCode
<1> QED BY <1>1, <1>4, GenKeeps

LEMMA IcmpKeeps == ASSUME Emitting, GenIcmp PROVE Emitting'
<1> DEFINE less(x, y) == <<"slt", "t2", x, y>>
           differ == << <<"xor", "t2", "t0", "t1">>, <<"sltu", "t2", "zero", "t2">> >>
           middle == CASE Inst.op = "eq" -> differ \o <<Negate>>
                       [] Inst.op = "ne" -> differ
                       [] Inst.op = "gt" -> <<less("t1", "t0")>>
                       [] Inst.op = "ge" -> <<less("t0", "t1"), Negate>>
                       [] Inst.op = "lt" -> <<less("t0", "t1")>>
                       [] Inst.op = "le" -> <<less("t1", "t0"), Negate>>
           code == Operands(T0, T1) \o middle \o store_from(Inst.id, "t2")
           ops == {"eq", "ne", "gt", "ge", "lt", "le"}
<1>1. phase = "inst" /\ Inst.op \in ops /\ Gen(ops, code)
  BY DEF GenIcmp, GenPlain, Gen
<1>2. 1 \in Loaded(Inst) /\ 2 \in Loaded(Inst)
  BY <1>1 DEF Loaded
<1>3. Code(middle)
  <2>1. \A x, y : Fits(less(x, y))
    <3> TAKE x, y
    <3>1. less(x, y)[1] \notin Carrying
      BY DEF Carrying
    <3> QED BY <3>1, FitsOther
  <2>2. Fits(Negate)
    <3>1. Negate[1] \notin Carrying
      BY DEF Carrying, Negate
    <3> QED BY <3>1, FitsOther
  <2>3. Code(differ)
    <3>1. PICK x, y : x = <<"xor", "t2", "t0", "t1">> /\ y = <<"sltu", "t2", "zero", "t2">>
      OBVIOUS
    <3>2. x[1] \notin Carrying /\ y[1] \notin Carrying
      BY <3>1 DEF Carrying
    <3> QED BY <3>1, <3>2, FitsOther, TwoCode
  <2> HIDE DEF less, differ
  <2>4. /\ Code(differ \o <<Negate>>) /\ Code(<<less("t1", "t0")>>) /\ Code(<<less("t0", "t1")>>)
    BY <2>1, <2>2, <2>3, OneCode, JoinedCode
  <2>5. Code(<<less("t0", "t1"), Negate>>) /\ Code(<<less("t1", "t0"), Negate>>)
    BY <2>1, <2>2, TwoCode
  <2> QED BY <1>1, <2>3, <2>4, <2>5
<1> HIDE DEF middle
<1>4. Code(Operands(T0, T1) \o middle)
  BY <1>1, <1>2, <1>3, BothLoaded, JoinedCode
<1>5. Code(code)
  BY <1>4, StoreCode, JoinedCode
<1> HIDE DEF ops, code
<1> QED BY <1>1, <1>5, GenKeeps

LEMMA FcmpKeeps == ASSUME Emitting, GenFcmp PROVE Emitting'
<1> DEFINE swapped == Inst.op \in {"fgt", "fge"}
           label(name) == <<name, cmp_cnt>>
           answer(name, n) == << <<"label", label(name)>>, <<"addi.w", "t0", "zero", n>>,
                                 <<"b", label("exit")>> >>
           test == << <<Mnemonic[Inst.op], "fcc0", IF swapped THEN "ft1" ELSE "ft0",
                                                   IF swapped THEN "ft0" ELSE "ft1">>,
                      <<"bcnez", label("true"), "fcc0">>, <<"b", label("false")>> >>
           exit == << <<"label", label("exit")>> >>
           ops == {"feq", "fne", "fgt", "fge", "flt", "fle"}
<1>1. phase = "inst" /\ Inst.op \in ops /\ Gen(ops, FcmpCode)
  BY DEF GenFcmp, Compare, Gen
<1>2. 1 \in Loaded(Inst) /\ 2 \in Loaded(Inst)
  BY <1>1 DEF Loaded
<1>3. Code(test)
  <2>1. PICK x, y, z :
          /\ x = <<Mnemonic[Inst.op], "fcc0", IF swapped THEN "ft1" ELSE "ft0",
                                              IF swapped THEN "ft0" ELSE "ft1">>
          /\ y = <<"bcnez", label("true"), "fcc0">> /\ z = <<"b", label("false")>>
    OBVIOUS
  <2>2. x[1] = Mnemonic[Inst.op]
    BY <2>1
  <2>3. x[1] \notin Carrying /\ y[1] \notin Carrying /\ z[1] \notin Carrying
    <3>1. x[1] \notin Carrying
      BY <1>1, <2>2, MnemonicsCarryNothing
    <3>2. y[1] \notin Carrying /\ z[1] \notin Carrying
      BY <2>1 DEF Carrying
    <3> QED BY <3>1, <3>2
  <2>4. Code(<<x, y, z>>)
    BY <2>3, FitsOther, ThreeCode
  <2> QED BY <2>1, <2>4
<1>4. \A name, n : FitsLow(n) => Code(answer(name, n))
  <2> TAKE name, n
  <2> HAVE FitsLow(n)
  <2>1. PICK x, y, z : /\ x = <<"label", label(name)>> /\ y = <<"addi.w", "t0", "zero", n>>
                       /\ z = <<"b", label("exit")>>
    OBVIOUS
  <2>2. x[1] \notin Carrying /\ y[4] = n /\ z[1] \notin Carrying
    BY <2>1 DEF Carrying
  <2>3. Code(<<x, y, z>>)
    BY <2>2, FitsNear, FitsOther, ThreeCode
  <2> QED BY <2>1, <2>3
<1>5. Code(exit)
  <2>1. PICK x : x = <<"label", label("exit")>>
    OBVIOUS
  <2>2. x[1] \notin Carrying
    BY <2>1 DEF Carrying
  <2> QED BY <2>1, <2>2, FitsOther, OneCode
<1>6. FcmpCode = Operands(T0, T1) \o test \o answer("true", 1) \o answer("false", 0) \o exit
                 \o store_from(Inst.id, "t0")
  BY DEF FcmpCode
<1> HIDE DEF test, answer, exit, ops
<1>7. Code(answer("true", 1)) /\ Code(answer("false", 0))
  BY <1>4, SmallFits
<1>8. Code(Operands(T0, T1) \o test)
  BY <1>1, <1>2, <1>3, BothLoaded, JoinedCode
<1>9. Code(Operands(T0, T1) \o test \o answer("true", 1) \o answer("false", 0))
  BY <1>7, <1>8, JoinedCode
<1>10. Code(FcmpCode)
  BY <1>5, <1>6, <1>9, StoreCode, JoinedCode
<1> QED BY <1>1, <1>10, GenKeeps

LEMMA ZextKeeps == ASSUME Emitting, GenZext PROVE Emitting'
<1> DEFINE x == <<"bstrpick", "t1", "t0", IF TypeOf(Inst.ops[1]) = "i1" THEN 8 ELSE Word>>
           code == load_to_greg(Inst.ops[1], "t0") \o <<x>> \o store_from(Inst.id, "t1")
<1>1. phase = "inst" /\ Inst.op = "zext" /\ Gen({"zext"}, code)
  BY DEF GenZext, GenPlain, Gen
<1>2. x[1] \notin Carrying
  BY DEF Carrying
<1>3. 1 \in Loaded(Inst)
  BY <1>1 DEF Loaded
<1> HIDE DEF x
<1>4. Code(code)
  BY <1>1, <1>2, <1>3, FitsOther, OperandLoaded, ComputedCode
<1> QED BY <1>1, <1>4, GenKeeps

(* A conversion takes two instructions.                                    *)
LEMMA ConvertedCode ==
  ASSUME NEW x, NEW y, x[1] \notin Carrying, y[1] \notin Carrying, NEW c, Code(c), NEW id, NEW r
  PROVE  Code(c \o <<x, y>> \o store_from(id, r))
<1>1. Code(c \o <<x, y>>)
  BY FitsOther, TwoCode, JoinedCode
<1> QED BY <1>1, StoreCode, JoinedCode

LEMMA SiToFpKeeps == ASSUME Emitting, GenSiToFp PROVE Emitting'
<1> DEFINE x == <<"movgr2fr.w", "ft0", "t0">>
           y == <<"ffint.s.w", "ft1", "ft0">>
           code == load_to_greg(Inst.ops[1], "t0") \o <<x, y>> \o store_from(Inst.id, "ft1")
<1>1. phase = "inst" /\ Inst.op = "sitofp" /\ Gen({"sitofp"}, code)
  BY DEF GenSiToFp, GenPlain, Gen
<1>2. x[1] \notin Carrying /\ y[1] \notin Carrying
  BY DEF Carrying
<1>3. 1 \in Loaded(Inst)
  BY <1>1 DEF Loaded
<1> HIDE DEF x, y
<1>4. Code(code)
  BY <1>1, <1>2, <1>3, OperandLoaded, ConvertedCode
<1> QED BY <1>1, <1>4, GenKeeps

LEMMA FpToSiKeeps == ASSUME Emitting, GenFpToSi PROVE Emitting'
<1> DEFINE x == <<"ftintrz.w.s", "ft1", "ft0">>
           y == <<"movfr2gr.s", "t0", "ft1">>
           code == load_to_freg(Inst.ops[1], "ft0") \o <<x, y>> \o store_from(Inst.id, "t0")
<1>1. Gen({"fptosi"}, code)
  BY DEF GenFpToSi, GenPlain
<1>2. x[1] \notin Carrying /\ y[1] \notin Carrying
  BY DEF Carrying
<1> HIDE DEF x, y
<1>3. Code(code)
  BY <1>2, FloatLoadCode, ConvertedCode
<1> QED BY <1>1, <1>3, GenKeeps

-----------------------------------------------------------------------------
(* Memory and calls.                                                       *)
LEMMA AllocaKeeps == ASSUME Emitting, GenAlloca PROVE Emitting'
<1> DEFINE off == offset_map[Inst.id] - Inst.aux
           x == <<"addi.d", "t0", "fp", off>>
           code == <<x>> \o store_from(Inst.id, "t0")
<1>1. phase = "inst" /\ Inst.op = "alloca" /\ Gen({"alloca"}, code)
  BY DEF GenAlloca, GenPlain, Gen
<1>2. ASSUME FrameInReach PROVE Code(code)
  <2>1. FitsLow(off)
    BY <1>1, <1>2, InstIn DEF FrameInReach
  <2> HIDE DEF off
  <2>2. x[4] = off
    OBVIOUS
  <2> HIDE DEF x
  <2>3. Code(<<x>>)
    BY <2>1, <2>2, FitsNear, OneCode
  <2> QED BY <2>3, StoreCode, JoinedCode
<1> QED BY <1>1, <1>2, GenKeeps

LEMMA LoadKeeps == ASSUME Emitting, GenLoad PROVE Emitting'
<1> DEFINE r == IF Inst.ty = "float" THEN "ft0" ELSE "t1"
           x == <<"ld", r, "t0", 0, ByteSize(Inst.ty)>>
           code == load_to_greg(Inst.ops[1], "t0") \o <<x>> \o store_from(Inst.id, r)
<1>1. phase = "inst" /\ Inst.op = "load" /\ Gen({"load"}, code)
  BY DEF GenLoad, GenPlain, Gen
<1>2. x[4] = 0
  OBVIOUS
<1>3. 1 \in Loaded(Inst)
  BY <1>1 DEF Loaded
<1> HIDE DEF x, r
<1>4. Code(code)
  BY <1>1, <1>2, <1>3, SmallFits, FitsNear, OperandLoaded, ComputedCode
<1> QED BY <1>1, <1>4, GenKeeps

LEMMA StoreKeeps == ASSUME Emitting, GenStore PROVE Emitting'
<1> DEFINE val == Inst.ops[1]
           r == IF IsFloat(val) THEN "ft0" ELSE "t1"
           x == <<"st", r, "t0", 0, ByteSize(TypeOf(val))>>
           first == load_to_greg(Inst.ops[2], "t0")
           second == load_to(val, "t1", "ft0")
           code == first \o second \o <<x>>
<1>1. phase = "inst" /\ Inst.op = "store" /\ Gen({"store"}, code)
  BY DEF GenStore, GenPlain, Gen
<1>2. x[4] = 0
  OBVIOUS
<1>3. 1 \in Loaded(Inst) /\ 2 \in Loaded(Inst)
  BY <1>1 DEF Loaded
<1>4. Code(first) /\ Code(second)
  BY <1>1, <1>3, OperandLoaded
<1> HIDE DEF x, first, second
<1>5. Code(<<x>>)
  BY <1>2, SmallFits, FitsNear, OneCode
<1>6. Code(first \o second)
  BY <1>4, JoinedCode
<1>7. Code(code)
  BY <1>5, <1>6, JoinedCode
<1> QED BY <1>1, <1>7, GenKeeps

LEMMA GepKeeps == ASSUME Emitting, GenGep PROVE Emitting'
<1> DEFINE shift == CASE Inst.aux = "i1" -> 0 [] Inst.aux \in {"i32", "float"} -> 2 [] OTHER -> 3
           x == <<"slli.d", "t1", "t1", shift>>
           y == <<"add.d", "t0", "t0", "t1">>
           n == IF Len(Inst.ops) = 2 THEN 2 ELSE 3
           first == load_to_greg(Inst.ops[1], "t0")
           second == load_to_greg(Inst.ops[n], "t1")
           code == first \o second \o <<x, y>> \o store_from(Inst.id, "t0")
<1>1. phase = "inst" /\ Inst.op = "getelementptr" /\ Gen({"getelementptr"}, code)
  BY DEF GenGep, GenPlain, Gen
<1>2. x[1] \notin Carrying /\ y[1] \notin Carrying
  BY DEF Carrying
<1>3. 1 \in Loaded(Inst) /\ n \in Loaded(Inst)
  BY <1>1 DEF Loaded
<1>4. Code(first) /\ Code(second)
  BY <1>1, <1>3, OperandLoaded
<1> HIDE DEF x, y, first, second
<1>5. Code(first \o second)
  BY <1>4, JoinedCode
<1>6. Code(code)
  BY <1>2, <1>5, ConvertedCode
<1> QED BY <1>1, <1>6, GenKeeps

LEMMA CallKeeps == ASSUME Emitting, GenCall PROVE Emitting'
<1> DEFINE types == Signature[Inst.aux].params
           l == Len(types)
           Passed(n) == IF types[n] = "float" THEN load_to_freg(Inst.ops[n], ArgReg(types, n))
                                              ELSE load_to_greg(Inst.ops[n], ArgReg(types, n))
           s == [n \in 1..l |-> Passed(n)]
           x == <<"bl", Inst.aux>>
           result == IF Inst.ty = "void" THEN << >>
                     ELSE store_from(Inst.id, IF Inst.ty = "float" THEN "fa0" ELSE "a0")
           code == FlattenSeq(s) \o <<x>> \o result
<1>1. phase = "inst" /\ Inst.op = "call" /\ Gen({"call"}, code)
  BY DEF GenCall, GenPlain, Gen
<1>2. l \in Nat /\ Loaded(Inst) = 1..l
  <2>1. l \in Nat
    BY <1>1, InstIn
  <2>2. Loaded(Inst) = 1..l
    BY <1>1 DEF Loaded
  <2> QED BY <2>1, <2>2
<1>3. ASSUME NEW n \in 1..l PROVE Code(Passed(n))
  <2>1. n \in Loaded(Inst)
    BY <1>2
  <2>2. Code(load_to_greg(Inst.ops[n], ArgReg(types, n)))
    BY <1>1, <2>1, OperandLoaded
  <2> QED BY <2>2, FloatLoadCode
<1>4. x[1] \notin Carrying
  BY DEF Carrying
<1>5. Code(result)
  BY NoCode, StoreCode
<1> HIDE DEF x, result, l, Passed
<1>6. s = [n \in 1..l |-> s[n]] /\ \A n \in 1..l : Code(s[n])
  BY <1>3
<1> HIDE DEF s
<1>7. Code(FlattenSeq(s))
  BY <1>2, <1>6, FlattenedCode
<1>8. Code(FlattenSeq(s) \o <<x>>)
  BY <1>4, <1>7, FitsOther, OneCode, JoinedCode
<1>9. Code(code)
  BY <1>5, <1>8, JoinedCode
<1> QED BY <1>1, <1>9, GenKeeps

-----------------------------------------------------------------------------
(* The frame, the prologue, the labels, the epilogue.                      *)
LEMMA FrameKeeps == ASSUME Emitting, AllocateFrame PROVE Emitting'
<1>1. /\ phase = "frame" /\ phase' \in {"prologue", "frame"}
      /\ UNCHANGED <<func, bb, inst, output>>
  BY DEF AllocateFrame
<1>2. output' = << >> /\ Code(output')
  BY <1>1, NoCode DEF Emitting
<1> QED BY <1>1, <1>2 DEF Emitting

LEMMA RegistersSaved == Code(SaveRegisters)
<1>1. PICK x, y : x = <<"st", "ra", "sp", -8, 8>> /\ y = <<"st", "fp", "sp", -16, 8>>
  OBVIOUS
<1>2. x[4] = -8 /\ y[4] = -16
  BY <1>1
<1>3. Code(<<x, y>>)
  BY <1>2, SmallFits, FitsNear, TwoCode
<1> QED BY <1>1, <1>3 DEF SaveRegisters

LEMMA EnterCode == Code(EnterFrame)
<1>1. ASSUME FitsLow(-frame_size) PROVE Code(EnterFrame)
  <2>1. PICK x, y : /\ x = <<"addi.d", "fp", "sp", 0>>
                    /\ y = <<"addi.d", "sp", "sp", -frame_size>>
    OBVIOUS
  <2>2. x[4] = 0 /\ y[4] = -frame_size
    BY <2>1
  <2>3. Fits(y)
    BY <1>1, <2>2, FitsNear
  <2>4. Code(<<x, y>>)
    BY <2>2, <2>3, SmallFits, FitsNear, TwoCode
  <2>5. EnterFrame = SaveRegisters \o <<x, y>> \o << >>
    BY <1>1, <2>1 DEF EnterFrame, Enter
  <2>6. Code(SaveRegisters \o <<x, y>>)
    BY <2>4, RegistersSaved, JoinedCode
  <2> QED BY <2>5, <2>6, NoCode, JoinedCode
<1>2. ASSUME ~FitsLow(-frame_size) PROVE Code(EnterFrame)
  <2>1. PICK x, y : x = <<"sub.d", "sp", "sp", "t0">> /\ y = <<"add.d", "fp", "sp", "t0">>
    OBVIOUS
  <2>2. x[1] \notin Carrying /\ y[1] \notin Carrying
    BY <2>1 DEF Carrying
  <2>3. Code(<<x, y>>)
    BY <2>2, FitsOther, TwoCode
  <2>4. PICK c : c = load_large_int64(frame_size, "t0")
    OBVIOUS
  <2>5. Code(c \o SaveRegisters)
    BY <2>4, LargeCode, RegistersSaved, JoinedCode
  <2>6. Code(c \o SaveRegisters \o <<x, y>>)
    BY <2>3, <2>5, JoinedCode
  <2>7. EnterFrame = c \o SaveRegisters \o <<x, y>> \o << >>
    BY <1>2, <2>1, <2>4 DEF EnterFrame, Enter
  <2> QED BY <2>6, <2>7, NoCode, JoinedCode
<1> QED BY <1>1, <1>2

LEMMA PrologueKeeps == ASSUME Emitting, GenPrologue PROVE Emitting'
<1> DEFINE l == Len(func.args)
           s == [n \in 1..l |-> store_from(func.args[n], ArgReg(ArgTypes, n))]
<1>1. /\ phase = "prologue" /\ phase' = "label" /\ UNCHANGED <<fvars, func, bb, inst>>
      /\ output' = output \o (EnterFrame \o FlattenSeq(s))
  BY DEF GenPrologue, Emit
<1>2. l \in Nat
  <2>1. PICK q : q = func.args
    OBVIOUS
  <2>2. q \in Seq(Value)
    BY <2>1, FunctionsAssumption DEF Emitting
  <2> QED BY <2>1, <2>2
<1>3. s = [n \in 1..l |-> s[n]] /\ \A n \in 1..l : Code(s[n])
  BY StoreCode
<1> HIDE DEF s, l
<1>4. Code(EnterFrame \o FlattenSeq(s))
  BY <1>2, <1>3, FlattenedCode, EnterCode, JoinedCode
<1>5. FrameInReach' <=> FrameInReach
  BY <1>1 DEF FrameInReach, fvars
<1>6. ASSUME FrameInReach PROVE Code(output')
  <2>1. Code(output)
    BY <1>6 DEF Emitting
  <2> QED BY <1>1, <1>4, <2>1, JoinedCode
<1> QED BY <1>1, <1>5, <1>6 DEF Emitting

LEMMA LabelKeeps == ASSUME Emitting, GenLabel PROVE Emitting'
<1>1. /\ phase = "label" /\ inst' = 1 /\ UNCHANGED <<fvars, func, bb>>
      /\ IF bb <= Len(func.blocks)
         THEN output' = output \o << <<"label", label_name(BB)>> >> /\ phase' = "inst"
         ELSE phase' = "epilogue" /\ UNCHANGED output
  BY DEF GenLabel, Emit
<1>2. FrameInReach' <=> FrameInReach
  BY <1>1 DEF FrameInReach, fvars
<1>3. ASSUME FrameInReach PROVE Code(output')
  <2>1. Code(output)
    BY <1>1, <1>3 DEF Emitting
  <2>2. PICK x : x = <<"label", label_name(BB)>>
    OBVIOUS
  <2>3. x[1] \notin Carrying
    BY <2>2 DEF Carrying
  <2>4. Code(output \o <<x>>)
    BY <2>1, <2>3, FitsOther, OneCode, JoinedCode
  <2> QED BY <1>1, <2>1, <2>2, <2>4
<1>4. func' \in Functions /\ bb' \in Nat \ {0} /\ inst' \in Nat \ {0} /\ phase' # "frame"
  BY <1>1 DEF Emitting
<1>5. ASSUME bb <= Len(func.blocks)
      PROVE  bb' <= Len(func'.blocks) /\ inst' <= Len(func'.insts[BB'])
  <2>1. BB \in Blocks(func)
    BY <1>5, BlockAt DEF Emitting
  <2>2. PICK n : n = Len(func.insts[BB])
    OBVIOUS
  <2>3. n \in Nat \ {0}
    BY <2>1, <2>2, BlocksIn DEF Emitting
  <2>4. 1 <= n
    BY <2>3
  <2>5. BB' = BB
    BY <1>1 DEF BB
  <2> QED BY <1>1, <1>5, <2>2, <2>4, <2>5
<1>6. phase' = "inst" => bb <= Len(func.blocks)
  BY <1>1
<1> QED BY <1>1, <1>2, <1>3, <1>4, <1>5, <1>6 DEF Emitting

LEMMA LeaveCode ==
  ASSUME frame_size \in Nat, frame_size # 2^(Low - 1)
  PROVE  Code(LeaveFrame)
<1> DEFINE restore == IF FitsLow(-frame_size)
                      THEN << <<"addi.d", "sp", "sp", frame_size>> >>
                      ELSE load_large_int64(frame_size, "t0") \o << <<"add.d", "sp", "sp", "t0">> >>
           last == << <<"ld", "ra", "sp", -8, 8>>, <<"ld", "fp", "sp", -16, 8>>, <<"jr", "ra">> >>
<1>1. ASSUME FitsLow(-frame_size) PROVE Code(restore)
  <2>1. PICK m : m = 2^(Low - 1)
    OBVIOUS
  <2>2. m \in Nat
    BY <2>1, ReachAssumption
  <2>3. -m <= -frame_size
    BY <1>1, <2>1 DEF FitsLow
  <2>4. -m <= frame_size /\ frame_size < m
    BY <2>1, <2>2, <2>3
  <2>5. FitsLow(frame_size)
    BY <2>1, <2>4 DEF FitsLow
  <2>6. PICK x : x = <<"addi.d", "sp", "sp", frame_size>>
    OBVIOUS
  <2>7. x[4] = frame_size
    BY <2>6
  <2>8. Code(<<x>>)
    BY <2>5, <2>7, FitsNear, OneCode
  <2> QED BY <1>1, <2>6, <2>8
<1>2. ASSUME ~FitsLow(-frame_size) PROVE Code(restore)
  <2>1. PICK x : x = <<"add.d", "sp", "sp", "t0">>
    OBVIOUS
  <2>2. x[1] \notin Carrying
    BY <2>1 DEF Carrying
  <2>3. Code(load_large_int64(frame_size, "t0") \o <<x>>)
    BY <2>2, LargeCode, FitsOther, OneCode, JoinedCode
  <2> QED BY <1>2, <2>1, <2>3
<1>3. Code(last)
  <2>1. PICK x, y, z : /\ x = <<"ld", "ra", "sp", -8, 8>> /\ y = <<"ld", "fp", "sp", -16, 8>>
                       /\ z = <<"jr", "ra">>
    OBVIOUS
  <2>2. x[4] = -8 /\ y[4] = -16 /\ z[1] \notin Carrying
    BY <2>1 DEF Carrying
  <2>3. Code(<<x, y, z>>)
    BY <2>2, SmallFits, FitsNear, FitsOther, ThreeCode
  <2> QED BY <2>1, <2>3
<1>4. LeaveFrame = restore \o last
  BY DEF LeaveFrame
<1> HIDE DEF restore, last
<1> QED BY <1>1, <1>2, <1>3, <1>4, JoinedCode

LEMMA EpilogueKeeps == ASSUME Emitting, frame_size \in Nat, GenEpilogue PROVE Emitting'
<1>1. /\ phase = "epilogue" /\ phase' = "ready" /\ UNCHANGED <<fvars, func, bb, inst>>
      /\ output' = output \o (<< <<"label", Exit>> >> \o LeaveFrame)
  BY DEF GenEpilogue, Emit
<1>2. FrameInReach' <=> FrameInReach
  BY <1>1 DEF FrameInReach, fvars
<1>3. ASSUME FrameInReach PROVE Code(output')
  <2>1. Code(output) /\ Code(LeaveFrame)
    BY <1>1, <1>3, LeaveCode DEF Emitting, FrameInReach
  <2>2. PICK x : x = <<"label", Exit>>
    OBVIOUS
  <2>3. x[1] \notin Carrying
    BY <2>2 DEF Carrying
  <2>4. Code(<<x>> \o LeaveFrame)
    BY <2>1, <2>3, FitsOther, OneCode, JoinedCode
  <2>5. output' = output \o (<<x>> \o LeaveFrame)
    BY <1>1, <2>2
  <2> QED BY <2>1, <2>4, <2>5, JoinedCode
<1> QED BY <1>1, <1>2, <1>3 DEF Emitting

-----------------------------------------------------------------------------
(* Running the code changes neither the code nor the frame.                *)
LEMMA RunKeeps ==
  ASSUME Emitting, phase \in {"ready", "run"}, phase' \in {"run", "halt"},
         UNCHANGED <<fvars, func, bb, inst, output>>
  PROVE  Emitting'
<1>1. /\ phase \in {"ready", "run"} /\ phase' \in {"run", "halt"}
      /\ UNCHANGED <<fvars, func, bb, inst, output>>
  OBVIOUS
<1>2. FrameInReach' <=> FrameInReach
  BY <1>1 DEF FrameInReach, fvars
<1> QED BY <1>1, <1>2 DEF Emitting

LEMMA InstructionsKeep ==
  ASSUME Emitting,
         \/ GenRet \/ GenBr \/ GenPhi \/ GenBinary \/ GenFloatBinary \/ GenIcmp \/ GenFcmp
         \/ GenZext \/ GenSiToFp \/ GenFpToSi \/ GenAlloca \/ GenLoad \/ GenStore \/ GenGep
         \/ GenCall
  PROVE  Emitting' /\ UNCHANGED fvars
<1>1. Emitting'
  BY RetKeeps, BrKeeps, PhiKeeps, BinaryKeeps, FloatBinaryKeeps, IcmpKeeps, FcmpKeeps,
     ZextKeeps, SiToFpKeeps, FpToSiKeeps, AllocaKeeps, LoadKeeps, StoreKeeps, GepKeeps,
     CallKeeps
<1>2. PICK ops, code : Gen(ops, code)
  BY DEF GenRet, GenBr, GenPhi, GenBinary, GenFloatBinary, GenIcmp, GenFcmp, Compare, GenZext,
         GenSiToFp, GenFpToSi, GenAlloca, GenLoad, GenStore, GenGep, GenCall, GenPlain
<1>3. UNCHANGED fvars
  BY <1>2 DEF Gen
<1> QED BY <1>1, <1>3

(* A step of the composition: of the frame, of CodeGen, of the machine.    *)
LEMMA RunningKeeps ==
  ASSUME Emitting,
         \/ Start \/ Comment \/ PassLabel \/ ComputeRegister \/ LoadMemory \/ StoreMemory
         \/ Jump \/ CallFunction \/ ReturnToCaller
  PROVE  Emitting' /\ UNCHANGED fvars
<1>1. CASE Start
  <2>1. phase = "ready" /\ phase' = "run" /\ UNCHANGED <<fvars, func, bb, inst, output>>
    BY <1>1 DEF Start
  <2> QED BY <2>1, RunKeeps
<1>2. CASE \/ Comment \/ PassLabel \/ ComputeRegister \/ LoadMemory \/ StoreMemory \/ Jump
           \/ CallFunction
  <2>1. phase = "run" /\ Unmoved
    BY <1>2 DEF Comment, PassLabel, ComputeRegister, LoadMemory, StoreMemory, Jump,
                CallFunction, Execute
  <2>2. phase' = "run" /\ UNCHANGED <<fvars, func, bb, inst, output>>
    BY <2>1 DEF Unmoved
  <2> QED BY <2>1, <2>2, RunKeeps
<1>3. CASE ReturnToCaller
  <2>1. phase = "run" /\ phase' = "halt" /\ UNCHANGED <<fvars, func, bb, inst, output>>
    BY <1>3 DEF ReturnToCaller, Execute
  <2> QED BY <2>1, RunKeeps
<1> QED BY <1>1, <1>2, <1>3

LEMMA StepKeeps ==
  ASSUME Emitting, IInv, [Next]_vars
  PROVE  Emitting' /\ [FNext]_fvars
<1>1. CASE AllocateFrame
  BY <1>1, FrameKeeps DEF AllocateFrame
<1>2. CASE GenPrologue
  BY <1>2, PrologueKeeps DEF GenPrologue
<1>3. CASE GenLabel
  BY <1>3, LabelKeeps DEF GenLabel
<1>4. CASE GenEpilogue
  <2>1. frame_size \in Nat
    BY DEF IInv, FTypeOK
  <2> QED BY <1>4, <2>1, EpilogueKeeps DEF GenEpilogue
<1>5. CASE \/ GenRet \/ GenBr \/ GenPhi \/ GenBinary \/ GenFloatBinary \/ GenIcmp \/ GenFcmp
           \/ GenZext \/ GenSiToFp \/ GenFpToSi \/ GenAlloca \/ GenLoad \/ GenStore \/ GenGep
           \/ GenCall
  BY <1>5, InstructionsKeep
<1>6. CASE \/ Start \/ Comment \/ PassLabel \/ ComputeRegister \/ LoadMemory \/ StoreMemory
           \/ Jump \/ CallFunction \/ ReturnToCaller
  BY <1>6, RunningKeeps
<1>7. CASE UNCHANGED vars
  <2>1. UNCHANGED <<fvars, func, phase, bb, inst, output>>
    BY <1>7 DEF vars
  <2>2. FrameInReach' <=> FrameInReach
    BY <2>1 DEF FrameInReach, fvars
  <2>3. BB' = BB
    BY <2>1 DEF BB
  <2> QED BY <2>1, <2>2, <2>3 DEF Emitting
<1> QED BY <1>1, <1>2, <1>3, <1>4, <1>5, <1>6, <1>7 DEF Next, Generate

(* The invariant, from the first state on.                                 *)
LEMMA EmittingInitially == Init => Emitting /\ FInit
<1> SUFFICES ASSUME Init PROVE Emitting /\ FInit
  OBVIOUS
<1>1. FInit /\ func \in Functions /\ phase = "frame" /\ bb = 1 /\ inst = 1 /\ output = << >>
  BY DEF Init
<1> QED BY <1>1, NoCode DEF Emitting

LEMMA EmittingAlways == Spec => [](Emitting /\ IInv)
<1>1. Init => Emitting /\ IInv
  BY EmittingInitially, Initially
<1>2. Emitting /\ IInv /\ [Next]_vars => (Emitting /\ IInv)'
  BY StepKeeps, FrameStep
<1> QED BY <1>1, <1>2, PTL DEF Spec

(* Code generation and the run of its code do to the frame only what the   *)
(* allocation alone would: the prologue, the code of the instructions and  *)
(* the machine leave the layout, the offsets and the frame size alone      *)
(* (CodeGen::run).                                                         *)
THEOREM CompilerAllocates == Spec => FSpec
<1>1. Init => FInit
  BY EmittingInitially
<1>2. Emitting /\ IInv /\ [Next]_vars => [FNext]_fvars
  BY StepKeeps
<1> QED BY <1>1, <1>2, EmittingAlways, PTL DEF Spec, FSpec

(* From the first step of CodeGen to the return of the code, the slots of  *)
(* the function are apart, aligned and inside its frame.                   *)
THEOREM CompiledFramesAreSound == Spec => []FrameSound
<1>1. IInv => FrameSound
  BY DEF IInv
<1> QED BY <1>1, EmittingAlways, PTL

(* Every immediate of an addition, a load or a store fits its field,       *)
(* whatever the function, its frame and the width of the field, unless the *)
(* frame has exactly the size whose negation still fits (gen_epilogue adds *)
(* the size itself) or an alloca lies beyond the reach of the addition     *)
(* that takes its address (gen_alloca, which does not ask).                *)
THEOREM ImmediatesInReach == Spec => []((phase # "frame" => FrameInReach) => ImmediatesFit)
<1>1. Emitting => ((phase # "frame" => FrameInReach) => ImmediatesFit)
  <2> SUFFICES ASSUME Emitting, phase # "frame" => FrameInReach PROVE ImmediatesFit
    OBVIOUS
  <2>1. Code(output)
    BY DEF Emitting
  <2>2. \A n \in 1..Len(output) : Fits(output[n])
    BY <2>1, CodeFits
  <2> QED BY <2>2 DEF ImmediatesFit, Fits, Carrying
<1> QED BY <1>1, EmittingAlways, PTL
=============================================================================
