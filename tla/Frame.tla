------------------------------- MODULE Frame -------------------------------
(***************************************************************************)
(* The stack frame of a function (CodeGen::allocate): every argument and   *)
(* every instruction with a result gets a slot below the frame pointer,    *)
(* and an alloca gets in addition the bytes its pointer designates.        *)
(*                                                                         *)
(* A function is, for this purpose, the list of its arguments and then of  *)
(* its instructions, each a record                                         *)
(*   id     the value                                                      *)
(*   size   Type::get_size() of its type, 0 for void                       *)
(*   extra  for an alloca the size of the allocated type, else 0           *)
(***************************************************************************)
EXTENDS Integers, Sequences

CONSTANTS
    Value,        \* the arguments and instructions of all functions
    Layouts       \* the functions: what allocate sees of each

PROLOGUE_OFFSET_BASE == 16      \* $ra and $fp
PROLOGUE_ALIGN == 16

(* Type::get_size of the types a value can have: i1, i32 and float, and a  *)
(* pointer.  What an alloca makes room for is a scalar or an array, made   *)
(* of such elements.                                                       *)
Sizes == {1, 4, 8}

Item == [id : Value, size : Sizes \cup {0}, extra : Nat]

ASSUME LayoutsAssumption ==
    \A l \in Layouts :
        /\ l \in Seq(Item)
        /\ \A m, n \in 1..Len(l) : l[m].id = l[n].id => m = n
        /\ \A n \in 1..Len(l) : l[n].extra # 0 => l[n].size = 8

VARIABLES
    layout,       \* the function; no step changes it
    next,         \* the position of allocate in it
    offset,       \* the bytes used so far
    offset_map,   \* context.offset_map, 0 for a value not in it
    frame_size    \* context.frame_size, 0 before it is set

fvars == <<layout, next, offset, offset_map, frame_size>>

FInit ==
    /\ layout \in Layouts
    /\ next = 1 /\ offset = PROLOGUE_OFFSET_BASE
    /\ offset_map = [v \in Value |-> 0] /\ frame_size = 0

(* The mask ~(alignment - 1) rounds down to a multiple, as the alignments  *)
(* are powers of two.                                                      *)
RoundDown(x, alignment) == (x \div alignment) * alignment

ALIGN(x, alignment) == RoundDown(x + (alignment - 1), alignment)

Allocate(top) ==
    /\ frame_size = 0 /\ next <= Len(layout) /\ layout[next].size # 0
    /\ offset' = top + layout[next].extra
    /\ offset_map' = [offset_map EXCEPT ![layout[next].id] = -top]
    /\ next' = next + 1
    /\ UNCHANGED <<layout, frame_size>>

(* A mutant: the slot is not aligned.                                      *)
AllocatePacked == Allocate(offset + layout[next].size)

AllocateValue == Allocate(ALIGN(offset + layout[next].size, layout[next].size))

AllocateNothing ==
    /\ frame_size = 0 /\ next <= Len(layout) /\ layout[next].size = 0
    /\ next' = next + 1
    /\ UNCHANGED <<layout, offset, offset_map, frame_size>>

FrameAllocated ==
    /\ frame_size = 0 /\ next > Len(layout)
    /\ frame_size' = ALIGN(offset, PROLOGUE_ALIGN)
    /\ UNCHANGED <<layout, next, offset, offset_map>>

FNext == AllocateValue \/ AllocateNothing \/ FrameAllocated

FSpec == FInit /\ [][FNext]_fvars

-----------------------------------------------------------------------------
(* The bytes that belong to a value, relative to the frame pointer: from   *)
(* Low to Slot - 1 what an alloca allocates, from Slot to High the value.  *)
Slot(item) == offset_map[item.id]
LowByte(item) == Slot(item) - item.extra
HighByte(item) == Slot(item) + item.size - 1

HasSlot(n) == n \in 1..Len(layout) /\ n < next /\ layout[n].size # 0

(* No two values, no value and an alloca area, and neither of them and the *)
(* saved registers share a byte; everything lies inside the frame, on the  *)
(* boundary its loads and stores need.                                     *)
SlotsApart ==
    \A m, n \in 1..Len(layout) :
        HasSlot(m) /\ HasSlot(n) /\ m < n => HighByte(layout[n]) < LowByte(layout[m])

SlotsInside ==
    \A n \in 1..Len(layout) : HasSlot(n) =>
        /\ HighByte(layout[n]) < -PROLOGUE_OFFSET_BASE
        /\ -offset <= LowByte(layout[n])
        /\ frame_size # 0 => -frame_size <= LowByte(layout[n])

SlotsAligned ==
    /\ \A n \in 1..Len(layout) : HasSlot(n) => Slot(layout[n]) % layout[n].size = 0
    /\ frame_size % PROLOGUE_ALIGN = 0

FrameSound == SlotsApart /\ SlotsInside /\ SlotsAligned
=============================================================================
