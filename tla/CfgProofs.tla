----------------------------- MODULE CfgProofs -----------------------------
(***************************************************************************)
(* The builder keeps the control flow graph well formed, for every nesting *)
(* of statements and any number of blocks.                                 *)
(*                                                                         *)
(* GoodFunction is what every operation of CFG keeps, whoever calls it;    *)
(* the lemmas of the first part say so, operation by operation.  The       *)
(* second part is about the continuation: which blocks it holds that are   *)
(* still to be filled, and when the insert block is still open.            *)
(***************************************************************************)
EXTENDS CfgBuilder, FlowProofs

Kind == {"op", "br", "ret"}

FunctionType ==
    [next : 1..(MaxBlocks + 1), blocks : Seq(Block), insert : 0..MaxBlocks,
     pre : [Block -> Seq(Block)], succ : [Block -> Seq(Block)],
     code : [Block -> Seq(Kind)]]

Unused(f, b) == f.pre[b] = << >> /\ f.succ[b] = << >> /\ f.code[b] = << >>

(* The edges of block a are those of the branch it ends in, lead to blocks *)
(* of the function other than the entry, and are known there.              *)
Linked(f, a) ==
    /\ \A b \in Block : Occurrences(f.succ[a], b) = Occurrences(f.pre[b], a)
    /\ f.succ[a] # << >> => /\ f.code[a] # << >>
                            /\ f.code[a][Len(f.code[a])] = "br"
                            /\ Members(f.succ[a]) \subseteq Members(f.blocks) \ {1}

EndsOnce(c) == \A i \in 1..Len(c) : c[i] \in {"br", "ret"} => i = Len(c)

GoodFunction(f) ==
    /\ f \in FunctionType
    /\ Members(f.blocks) \subseteq 1..(f.next - 1)
    /\ f.blocks # << >> => f.blocks[1] = 1
    /\ f.insert # 0 => f.insert \in Members(f.blocks)
    /\ \A b \in Block \ Members(f.blocks) : Unused(f, b)
    /\ \A b \in Block : Linked(f, b) /\ EndsOnce(f.code[b])

(* The insert block is there and takes another instruction.                *)
InsertOpen(f) == f.insert \in Members(f.blocks) /\ ~InsertTerminated(f)

-----------------------------------------------------------------------------
LEMMA BoundsTyped == MaxBlocks \in Nat /\ MaxControl \in Nat /\ MaxIndex \in Nat
  BY BoundAssumption

(* There is room for n more blocks, and the entry comes first.             *)
MayCreate(f, n) ==
    /\ n \in 1..3 /\ f.next + n <= MaxBlocks + 1
    /\ f.blocks # << >> \/ f.next = 1

Created(f, g, n) ==
    /\ GoodFunction(g) /\ g.next = f.next + n /\ g.insert = f.insert
    /\ Members(g.blocks) = Members(f.blocks) \cup f.next..(f.next + n - 1)
    /\ g.blocks # << >>
    /\ g.pre = f.pre /\ g.succ = f.succ /\ g.code = f.code

LEMMA CreateKeeps ==
  ASSUME NEW f, GoodFunction(f), NEW n, MayCreate(f, n), NEW g, g = CreateBlocks(f, n)
  PROVE  Created(f, g, n)
<1> DEFINE new == [j \in 1..n |-> f.next + j - 1]
<1> USE BoundsTyped
<1>0. n \in 1..3 /\ f.next + n <= MaxBlocks + 1 /\ (f.blocks # << >> \/ f.next = 1)
  BY DEF MayCreate
<1> USE <1>0
<1>1. f \in FunctionType /\ f.next \in 1..(MaxBlocks + 1) /\ f.blocks \in Seq(Block)
  BY DEF GoodFunction, FunctionType
<1>2. g = [f EXCEPT !.next = f.next + n, !.blocks = f.blocks \o new]
  BY DEF CreateBlocks, Create, NewBlock
<1>3. /\ new \in Seq(Block) /\ Len(new) = n /\ new[1] = f.next
      /\ Members(new) = f.next..(f.next + n - 1)
  <2>1. \A j \in 1..n : f.next + j - 1 \in Block
    BY <1>1 DEF Block
  <2>2. new \in Seq(Block) /\ Len(new) = n /\ \A j \in 1..n : new[j] = f.next + j - 1
    BY <2>1
  <2>3. \A b \in f.next..(f.next + n - 1) : b - f.next + 1 \in 1..n
    BY <1>1
  <2>4. \A b \in f.next..(f.next + n - 1) : new[b - f.next + 1] = b
    <3> HIDE DEF new
    <3> QED BY <2>2, <2>3, <1>1
  <2>5. \A j \in 1..n : new[j] \in f.next..(f.next + n - 1)
    <3> HIDE DEF new
    <3> QED BY <2>2, <1>1
  <2>6. 1 \in 1..n
    OBVIOUS
  <2> HIDE DEF new
  <2>7. new[1] = f.next
    BY <2>2, <2>6, <1>1
  <2>8. Members(new) \subseteq f.next..(f.next + n - 1)
    BY <2>2, <2>5 DEF Members
  <2>9. f.next..(f.next + n - 1) \subseteq Members(new)
    <3>1. \A b \in f.next..(f.next + n - 1) : \E j \in 1..Len(new) : new[j] = b
      BY <2>2, <2>3, <2>4
    <3> QED BY <3>1 DEF Members
  <2> QED BY <2>2, <2>7, <2>8, <2>9
<1>4. f.blocks \o new \in Seq(Block)
      /\ Members(f.blocks \o new) = Members(f.blocks) \cup Members(new)
  <2> HIDE DEF new
  <2> QED BY <1>1, <1>3, ConcatMembers
<1>5. /\ f.blocks \o new # << >>
      /\ (f.blocks \o new)[1] = IF f.blocks = << >> THEN new[1] ELSE f.blocks[1]
  <2> HIDE DEF new
  <2> QED BY <1>1, <1>3
<1> HIDE DEF new
<1>6. /\ g.next = f.next + n /\ g.insert = f.insert /\ g.blocks = f.blocks \o new
      /\ g.pre = f.pre /\ g.succ = f.succ /\ g.code = f.code
      /\ g \in FunctionType
  <2>1. f.next + n \in 1..(MaxBlocks + 1)
    BY <1>1
  <2> QED BY <1>1, <1>2, <1>4, <2>1 DEF FunctionType
<1>7. Members(g.blocks) = Members(f.blocks) \cup f.next..(f.next + n - 1)
  BY <1>3, <1>4, <1>6
<1>8. Members(g.blocks) \subseteq 1..(g.next - 1)
  BY <1>1, <1>6, <1>7 DEF GoodFunction
<1>9. ASSUME NEW b \in Block PROVE Linked(g, b) /\ EndsOnce(g.code[b])
  <2>1. Linked(f, b) /\ EndsOnce(f.code[b])
    BY DEF GoodFunction
  <2> QED BY <2>1, <1>6, <1>7 DEF Linked
<1>10. \A b \in Block \ Members(g.blocks) : Unused(g, b)
  BY <1>6, <1>7 DEF GoodFunction, Unused
<1>11. GoodFunction(g)
  BY <1>3, <1>5, <1>6, <1>7, <1>8, <1>9, <1>10 DEF GoodFunction
<1> QED BY <1>5, <1>6, <1>7, <1>11 DEF Created

LEMMA InsertKeeps ==
  ASSUME NEW f, GoodFunction(f), NEW b \in Members(f.blocks),
         NEW g, g = set_insert_point(f, b)
  PROVE  /\ GoodFunction(g) /\ g.insert = b
         /\ g.next = f.next /\ g.blocks = f.blocks
         /\ g.pre = f.pre /\ g.succ = f.succ /\ g.code = f.code
<1>1. f \in FunctionType /\ f.blocks \in Seq(Block) /\ MaxBlocks \in Nat
  BY BoundsTyped DEF GoodFunction, FunctionType
<1>2. b \in 0..MaxBlocks
  BY <1>1, MembersOfSeq DEF Block
<1>3. /\ g \in FunctionType /\ g.insert = b
      /\ g.next = f.next /\ g.blocks = f.blocks
      /\ g.pre = f.pre /\ g.succ = f.succ /\ g.code = f.code
  BY <1>1, <1>2 DEF set_insert_point, FunctionType
<1> QED BY <1>3 DEF GoodFunction, Linked, Unused

-----------------------------------------------------------------------------
(* An instruction at the end of an open block.                             *)
LEMMA AppendEndsOnce ==
  ASSUME NEW c \in Seq(Kind), EndsOnce(c),
         ~(c # << >> /\ c[Len(c)] \in {"br", "ret"}), NEW kind \in Kind
  PROVE  /\ EndsOnce(Append(c, kind))
         /\ Append(c, kind) \in Seq(Kind) /\ Append(c, kind) # << >>
         /\ Append(c, kind)[Len(Append(c, kind))] = kind
<1>1. /\ Len(c) \in Nat /\ Len(Append(c, kind)) = Len(c) + 1
      /\ \A i \in 1..Len(c) : Append(c, kind)[i] = c[i]
      /\ c # << >> => Len(c) # 0
  OBVIOUS
<1>2. ASSUME NEW i \in 1..(Len(c) + 1), i # Len(c) + 1
      PROVE  Append(c, kind)[i] \notin {"br", "ret"}
  <2>1. i \in 1..Len(c) /\ c # << >>
    BY <1>1, <1>2
  <2> QED BY <1>1, <2>1 DEF EndsOnce
<1>3. Append(c, kind) \in Seq(Kind) /\ Append(c, kind) # << >>
      /\ Append(c, kind)[Len(c) + 1] = kind
  <2>1. Append(c, kind) \in Seq(Kind)
    OBVIOUS
  <2>2. Append(c, kind) # << >>
    OBVIOUS
  <2>3. Append(c, kind)[Len(c) + 1] = kind
    OBVIOUS
  <2> QED BY <2>1, <2>2, <2>3
<1> QED BY <1>1, <1>2, <1>3 DEF EndsOnce

LEMMA AddKeeps ==
  ASSUME NEW f, GoodFunction(f), InsertOpen(f), NEW kind \in Kind,
         NEW g, g = add_instruction(f, kind)
  PROVE  /\ GoodFunction(g) /\ g.insert = f.insert
         /\ g.next = f.next /\ g.blocks = f.blocks
         /\ g.pre = f.pre /\ g.succ = f.succ
         /\ \A b \in Block \ {f.insert} : g.code[b] = f.code[b]
         /\ f.insert \in Block /\ f.succ[f.insert] = << >>
         /\ g.code[f.insert] # << >>
         /\ g.code[f.insert][Len(g.code[f.insert])] = kind
         /\ InsertTerminated(g) <=> kind # "op"
<1> DEFINE b == f.insert
           c == f.code[b]
<1>1. /\ f \in FunctionType /\ f.blocks \in Seq(Block) /\ f.code \in [Block -> Seq(Kind)]
      /\ b \in Block
  BY MembersOfSeq DEF GoodFunction, FunctionType, InsertOpen
<1>2. c \in Seq(Kind) /\ EndsOnce(c) /\ Linked(f, b)
      /\ ~(c # << >> /\ c[Len(c)] \in {"br", "ret"})
  BY <1>1 DEF GoodFunction, InsertOpen, InsertTerminated, is_terminated
<1>3. f.succ[b] = << >>
  BY <1>2 DEF Linked
<1>4. /\ g \in FunctionType /\ g.insert = b
      /\ g.next = f.next /\ g.blocks = f.blocks
      /\ g.pre = f.pre /\ g.succ = f.succ
      /\ \A x \in Block \ {b} : g.code[x] = f.code[x]
      /\ g.code[b] # << >> /\ g.code[b][Len(g.code[b])] = kind
      /\ EndsOnce(g.code[b])
  <2>1. CASE kind = "op" /\ c # << >> /\ c[Len(c)] = "op"
    <3>1. g = f
      BY <2>1 DEF add_instruction
    <3> QED BY <2>1, <3>1, <1>1, <1>2
  <2>2. CASE ~(kind = "op" /\ c # << >> /\ c[Len(c)] = "op")
    <3> DEFINE d == Append(c, kind)
    <3>1. d \in Seq(Kind) /\ d # << >> /\ d[Len(d)] = kind /\ EndsOnce(d)
      <4> HIDE DEF c
      <4> QED BY <1>2, AppendEndsOnce
    <3>2. g = [f EXCEPT !.code[b] = d]
      BY <2>2 DEF add_instruction
    <3> HIDE DEF d
    <3>3. /\ g.insert = b /\ g.next = f.next /\ g.blocks = f.blocks
          /\ g.pre = f.pre /\ g.succ = f.succ /\ g.code = [f.code EXCEPT ![b] = d]
      BY <1>1, <3>2 DEF FunctionType
    <3>4. [f.code EXCEPT ![b] = d] \in [Block -> Seq(Kind)]
      BY <1>1, <3>1
    <3>5. g \in FunctionType
      BY <1>1, <3>2, <3>4 DEF FunctionType
    <3> QED BY <1>1, <3>1, <3>3, <3>5
  <2> QED BY <2>1, <2>2
<1>5. GoodFunction(g)
  <2>1. ASSUME NEW x \in Block PROVE Linked(g, x) /\ EndsOnce(g.code[x])
    <3>1. Linked(f, x) /\ EndsOnce(f.code[x])
      BY DEF GoodFunction
    <3>2. CASE x = b
      BY <3>1, <3>2, <1>3, <1>4 DEF Linked
    <3>3. CASE x # b
      BY <3>1, <3>3, <1>4 DEF Linked
    <3> QED BY <3>2, <3>3
  <2>2. ASSUME NEW x \in Block \ Members(g.blocks) PROVE Unused(g, x)
    <3>1. x # b
      BY <1>4 DEF InsertOpen
    <3> QED BY <3>1, <1>4 DEF GoodFunction, Unused
  <2> QED BY <1>4, <2>1, <2>2 DEF GoodFunction
<1>6. InsertTerminated(g) <=> kind # "op"
  BY <1>4 DEF InsertTerminated, is_terminated, Kind
<1> QED BY <1>1, <1>3, <1>4, <1>5, <1>6

(* A branch from the insert block: the new edges stand in both lists.      *)
LEMMA BranchKeeps ==
  ASSUME NEW f, GoodFunction(f), InsertOpen(f), NEW targets \in Seq(Block),
         Members(targets) \subseteq Members(f.blocks) \ {1},
         NEW g, g = Branch(f, targets, targets)
  PROVE  /\ GoodFunction(g) /\ g.insert = f.insert
         /\ g.next = f.next /\ g.blocks = f.blocks
         /\ \A b \in Block \ {f.insert} : g.code[b] = f.code[b]
         /\ \A b \in Block \ Members(targets) : f.pre[b] = << >> => g.pre[b] = << >>
         /\ InsertTerminated(g)
<1> DEFINE h == add_instruction(f, "br")
           a == f.insert
           from(b) == [n \in 1..Occurrences(targets, b) |-> a]
<1>1. /\ GoodFunction(h) /\ h.insert = a /\ h.next = f.next /\ h.blocks = f.blocks
      /\ h.pre = f.pre /\ h.succ = f.succ
      /\ \A b \in Block \ {a} : h.code[b] = f.code[b]
      /\ a \in Block /\ f.succ[a] = << >> /\ h.code[a] # << >>
      /\ h.code[a][Len(h.code[a])] = "br" /\ InsertTerminated(h)
  <2>1. "br" \in Kind
    BY DEF Kind
  <2> HIDE DEF h
  <2> QED BY <2>1, AddKeeps DEF h
<1>2. g = [h EXCEPT !.pre = [b \in Block |-> h.pre[b] \o from(b)],
                    !.succ[a] = h.succ[a] \o targets]
  BY DEF Branch
<1> HIDE DEF h
<1>3. h \in FunctionType /\ h.pre \in [Block -> Seq(Block)]
      /\ h.succ \in [Block -> Seq(Block)]
  BY <1>1 DEF GoodFunction, FunctionType
<1>4. ASSUME NEW b \in Block
      PROVE  /\ from(b) \in Seq(Block) /\ h.pre[b] \o from(b) \in Seq(Block)
             /\ \A x : Occurrences(h.pre[b] \o from(b), x) =
                    Occurrences(h.pre[b], x)
                      + IF x = a THEN Occurrences(targets, b) ELSE 0
  <2>1. Occurrences(targets, b) \in Nat
    BY OccurrencesFinite
  <2>2. from(b) \in Seq(Block)
        /\ \A x : Occurrences(from(b), x) = IF x = a THEN Occurrences(targets, b) ELSE 0
    <3> DEFINE k == Occurrences(targets, b)
               rep == [n \in 1..k |-> a]
    <3>1. k \in Nat /\ a \in Block
      BY <1>1, <2>1
    <3> HIDE DEF k, a
    <3>2. ASSUME NEW x
          PROVE  rep \in Seq(Block) /\ Occurrences(rep, x) = IF x = a THEN k ELSE 0
      BY <3>1, RepeatOccurrences
    <3>3. from(b) = rep
      BY DEF k
    <3> HIDE DEF rep, from
    <3> QED BY <3>2, <3>3 DEF k
  <2>3. h.pre[b] \in Seq(Block)
    BY <1>3
  <2> HIDE DEF from
  <2>4. h.pre[b] \o from(b) \in Seq(Block)
        /\ \A x : Occurrences(h.pre[b] \o from(b), x) =
                 Occurrences(h.pre[b], x) + Occurrences(from(b), x)
    BY <2>2, <2>3, ConcatOccurrences, ConcatMembers
  <2> QED BY <2>2, <2>4
<1>5. /\ h.succ[a] \o targets \in Seq(Block)
      /\ Members(h.succ[a] \o targets) = Members(targets)
      /\ \A b : Occurrences(h.succ[a] \o targets, b) =
               Occurrences(h.succ[a], b) + Occurrences(targets, b)
  <2>1. h.succ[a] \in Seq(Block) /\ h.succ[a] = << >>
    BY <1>1, <1>3
  <2>2. Members(h.succ[a]) = {}
    BY <2>1, MembersOfEmpty
  <2> DEFINE s == h.succ[a]
  <2> HIDE DEF s, a
  <2>3. ASSUME NEW b
        PROVE  Occurrences(s \o targets, b) = Occurrences(s, b) + Occurrences(targets, b)
    BY <2>1, ConcatOccurrences DEF s
  <2>4. s \o targets \in Seq(Block) /\ Members(s \o targets) = Members(s) \cup Members(targets)
    <3>1. s \in Seq(Block)
      BY <2>1 DEF s
    <3> QED BY <3>1, ConcatMembers
  <2> QED BY <2>2, <2>3, <2>4 DEF s
<1>6. /\ g.insert = a /\ g.next = f.next /\ g.blocks = f.blocks /\ g.code = h.code
      /\ g.pre = [b \in Block |-> h.pre[b] \o from(b)]
      /\ g.succ = [h.succ EXCEPT ![a] = h.succ[a] \o targets]
  <2> HIDE DEF from
  <2> QED BY <1>1, <1>2, <1>3 DEF FunctionType
<1>7. g \in FunctionType
  <2>1. [b \in Block |-> h.pre[b] \o from(b)] \in [Block -> Seq(Block)]
    <3> HIDE DEF from
    <3> QED BY <1>4
  <2>2. [h.succ EXCEPT ![a] = h.succ[a] \o targets] \in [Block -> Seq(Block)]
    BY <1>1, <1>3, <1>5
  <2> HIDE DEF from
  <2> QED BY <1>2, <1>3, <2>1, <2>2 DEF FunctionType
<1>8. ASSUME NEW x \in Block PROVE Linked(g, x) /\ EndsOnce(g.code[x])
  <2>1. Linked(h, x) /\ EndsOnce(h.code[x])
    BY <1>1 DEF GoodFunction
  <2>2. \A b \in Block : /\ Occurrences(h.succ[x], b) = Occurrences(h.pre[b], x)
                         /\ Occurrences(h.succ[x], b) \in Nat
                         /\ Occurrences(targets, b) \in Nat
    BY <2>1, <1>3, OccurrencesFinite DEF Linked
  <2>3. \A b \in Block : g.pre[b] = h.pre[b] \o from(b)
    <3> HIDE DEF from
    <3> QED BY <1>6
  <2> HIDE DEF from
  <2>4. CASE x = a
    <3>1. g.succ[x] = h.succ[a] \o targets
      BY <1>1, <1>3, <1>6, <2>4
    <3>2. ASSUME NEW b \in Block PROVE Occurrences(g.succ[x], b) = Occurrences(g.pre[b], x)
      <4>1. Occurrences(g.succ[x], b) = Occurrences(h.succ[a], b) + Occurrences(targets, b)
        BY <1>5, <3>1
      <4>2. Occurrences(g.pre[b], x) = Occurrences(h.pre[b], a) + Occurrences(targets, b)
        BY <1>4, <2>3, <2>4
      <4> QED BY <4>1, <4>2, <2>2, <2>4
    <3>3. Members(g.succ[x]) \subseteq Members(g.blocks) \ {1}
      BY <1>5, <1>6, <3>1
    <3> QED BY <1>1, <1>6, <2>1, <2>4, <3>2, <3>3 DEF Linked
  <2>5. CASE x # a
    <3>1. g.succ[x] = h.succ[x]
      BY <1>1, <1>3, <1>6, <2>5
    <3>2. ASSUME NEW b \in Block PROVE Occurrences(g.succ[x], b) = Occurrences(g.pre[b], x)
      <4>1. Occurrences(g.pre[b], x) = Occurrences(h.pre[b], x) + 0
        BY <1>4, <2>3, <2>5
      <4>2. Occurrences(h.pre[b], x) \in Nat
        BY <2>2
      <4> QED BY <4>1, <4>2, <2>2, <3>1
    <3> QED BY <1>1, <1>6, <2>1, <3>1, <3>2 DEF Linked
  <2> QED BY <2>4, <2>5
<1>9. ASSUME NEW b \in Block \ Members(targets), h.pre[b] = << >> PROVE g.pre[b] = << >>
  <2>1. Occurrences(targets, b) = 0
    <3>1. Occurrences(targets, b) \in Nat
      BY OccurrencesFinite
    <3>2. ~(Occurrences(targets, b) > 0)
      BY OccursIffMember
    <3> QED BY <3>1, <3>2
  <2>2. from(b) = << >>
    BY <2>1
  <2> HIDE DEF from
  <2> QED BY <1>6, <1>9, <2>2
<1>10. ASSUME NEW b \in Block \ Members(g.blocks) PROVE Unused(g, b)
  <2>1. b # a /\ b \notin Members(targets)
    BY <1>6 DEF InsertOpen
  <2>2. Unused(h, b)
    BY <1>1, <1>6 DEF GoodFunction
  <2>3. g.succ[b] = h.succ[b] /\ g.code[b] = h.code[b]
    BY <1>3, <1>6, <2>1
  <2> QED BY <1>9, <2>1, <2>2, <2>3 DEF Unused
<1>11. GoodFunction(g)
  BY <1>1, <1>6, <1>7, <1>8, <1>10 DEF GoodFunction
<1>12. InsertTerminated(g)
  BY <1>1, <1>6 DEF InsertTerminated, is_terminated
<1> QED BY <1>1, <1>6, <1>9, <1>11, <1>12


(* The insert block ends, with jumps to T at most.                         *)
Jumped(f, g, T) ==
    /\ GoodFunction(g) /\ g.insert = f.insert
    /\ g.next = f.next /\ g.blocks = f.blocks
    /\ \A b \in Block \ {f.insert} : g.code[b] = f.code[b]
    /\ \A b \in Block \ T : f.pre[b] = << >> => g.pre[b] = << >>
    /\ InsertTerminated(g)

LEMMA JumpKeeps ==
  ASSUME NEW f, GoodFunction(f), f.insert \in Members(f.blocks),
         NEW t \in Members(f.blocks) \ {1},
         NEW g, g = JumpUnlessTerminated(f, t)
  PROVE  Jumped(f, g, {t})
<1>1. CASE InsertTerminated(f)
  BY <1>1 DEF JumpUnlessTerminated, Jumped
<1>2. CASE ~InsertTerminated(f)
  <2>1. t \in Block
    BY MembersOfSeq DEF GoodFunction, FunctionType
  <2>2. <<t>> \in Seq(Block) /\ Members(<<t>>) = {t}
    BY <2>1 DEF Members
  <2> DEFINE w == <<t>>
  <2>3. g = Branch(f, w, w) /\ InsertOpen(f)
    BY <1>2 DEF JumpUnlessTerminated, create_br, InsertOpen
  <2>4. w \in Seq(Block) /\ Members(w) = {t}
    BY <2>2
  <2> HIDE DEF w
  <2>5. Members(w) \subseteq Members(f.blocks) \ {1}
    BY <2>4
  <2> QED BY <2>3, <2>4, <2>5, BranchKeeps DEF Jumped
<1> QED BY <1>1, <1>2

LEMMA CondBrKeeps ==
  ASSUME NEW f, GoodFunction(f), InsertOpen(f),
         NEW t \in Members(f.blocks) \ {1}, NEW e \in Members(f.blocks) \ {1},
         NEW g, g = create_cond_br(f, t, e)
  PROVE  Jumped(f, g, {t, e})
<1>1. t \in Block /\ e \in Block
  BY MembersOfSeq DEF GoodFunction, FunctionType
<1>2. <<t, e>> \in Seq(Block) /\ Members(<<t, e>>) = {t, e}
  <2>1. <<t, e>> \in Seq(Block) /\ Len(<<t, e>>) = 2 /\ 1..2 = {1, 2}
    BY <1>1
  <2> QED BY <2>1 DEF Members
<1> DEFINE w == <<t, e>>
<1>3. g = Branch(f, w, w)
  BY DEF create_cond_br
<1>4. w \in Seq(Block) /\ Members(w) = {t, e}
  BY <1>2
<1> HIDE DEF w
<1>5. Members(w) \subseteq Members(f.blocks) \ {1}
  BY <1>4
<1> QED BY <1>3, <1>4, <1>5, BranchKeeps DEF Jumped

(* A block that is erased before anything was put into it.                 *)
LEMMA RemoveKeeps ==
  ASSUME NEW f, GoodFunction(f), NEW b \in Members(f.blocks) \ {1},
         f.pre[b] = << >>, f.code[b] = << >>, b # f.insert,
         NEW g, g = remove(f, b)
  PROVE  /\ GoodFunction(g) /\ g.insert = f.insert /\ g.next = f.next
         /\ Members(g.blocks) = Members(f.blocks) \ {b}
         /\ g.blocks # << >>
         /\ g.pre = f.pre /\ g.succ = f.succ /\ g.code = f.code
<1>1. /\ f \in FunctionType /\ f.blocks \in Seq(Block) /\ b \in Block
      /\ f.pre \in [Block -> Seq(Block)] /\ f.succ \in [Block -> Seq(Block)]
  BY MembersOfSeq DEF GoodFunction, FunctionType
<1>2. f.succ[b] = << >>
  BY <1>1 DEF GoodFunction, Linked
<1>3. Members(f.pre[b]) = {} /\ Members(f.succ[b]) = {}
  BY <1>2, MembersOfEmpty
<1> DEFINE rest == Without(f.blocks, b)
<1>4. rest \in Seq(Block) /\ Members(rest) = Members(f.blocks) \ {b}
  BY <1>1, KeptMembers DEF Without
<1>5. f.blocks # << >> /\ f.blocks[1] = 1
  <2>1. f.blocks # << >>
    BY MembersOfEmpty
  <2> QED BY <2>1 DEF GoodFunction
<1>6. rest # << >> /\ rest[1] = 1
  <2>1. f.blocks[1] \in Members(f.blocks) \ {b}
    BY <1>1, <1>5 DEF Members
  <2> QED BY <1>1, <1>5, <2>1, KeptHead DEF Without
<1> HIDE DEF rest
<1>7. g = [f EXCEPT !.blocks = rest, !.pre = f.pre, !.succ = f.succ]
  <2>1. [s \in Block |-> IF s \in Members(f.succ[b]) THEN Without(f.pre[s], b)
                         ELSE f.pre[s]] = f.pre
    BY <1>1, <1>3
  <2>2. [p \in Block |-> IF p \in Members(f.pre[b]) THEN Without(f.succ[p], b)
                         ELSE f.succ[p]] = f.succ
    BY <1>1, <1>3
  <2> QED BY <2>1, <2>2 DEF remove, rest
<1>8. /\ g \in FunctionType /\ g.insert = f.insert /\ g.next = f.next /\ g.blocks = rest
      /\ g.pre = f.pre /\ g.succ = f.succ /\ g.code = f.code
  BY <1>1, <1>4, <1>7 DEF FunctionType
<1>9. ASSUME NEW a \in Block PROVE Linked(g, a) /\ EndsOnce(g.code[a])
  <2>1. Linked(f, a) /\ EndsOnce(f.code[a]) /\ Linked(f, b)
    BY <1>1 DEF GoodFunction
  <2>2. b \notin Members(f.succ[a])
    <3>1. f.succ[a] \in Seq(Block) /\ f.pre[b] \in Seq(Block)
      BY <1>1
    <3>2. Occurrences(f.succ[a], b) = Occurrences(f.pre[b], a)
      BY <1>1, <2>1 DEF Linked
    <3>3. Occurrences(f.pre[b], a) = 0
      BY OccurrencesOfEmpty
    <3>4. ~(Occurrences(f.succ[a], b) > 0)
      BY <3>2, <3>3
    <3> QED BY <3>1, <3>4, OccursIffMember
  <2> QED BY <2>1, <2>2, <1>4, <1>8 DEF Linked
<1>10. ASSUME NEW a \in Block \ Members(g.blocks) PROVE Unused(g, a)
  <2>1. CASE a = b
    BY <2>1, <1>2, <1>8 DEF Unused
  <2>2. CASE a # b
    BY <2>2, <1>4, <1>8 DEF GoodFunction, Unused
  <2> QED BY <2>1, <2>2
<1>11. GoodFunction(g)
  BY <1>4, <1>6, <1>8, <1>9, <1>10 DEF GoodFunction
<1> QED BY <1>4, <1>6, <1>8, <1>11


-----------------------------------------------------------------------------
(* The continuation.  Only what is left of an expression stands before the *)
(* rest of a return, an if or a while; what stands further back is resumed *)
(* whether the insert block is terminated or not.                          *)
Resumed == {"check", "end", "then", "else", "body"}
AfterExpression == {"ret", "branch", "loop"}

Item ==
    [do : {"function", "compound", "stmt", "list", "check", "ret", "end"}]
      \cup [do : {"expr"}, n : Nat] \cup [do : {"branch"}, else : BOOLEAN]
      \cup [do : {"then"}, else : BOOLEAN, falseBB : Block, endBB : Block]
      \cup [do : {"else"}, endBB : Block]
      \cup [do : {"loop", "body"}, judgeBB : Block, stmtBB : Block, endBB : Block]

Shaped(s) ==
    /\ s \in Seq(Item)
    /\ \A i \in 2..Len(s) :
         \/ s[i].do \in Resumed
         \/ i = 2 /\ s[1].do = "expr" /\ s[2].do \in AfterExpression
    /\ \A i \in 1..Len(s) : s[i].do = "end" => i = Len(s)
    /\ s # << >> => s[Len(s)].do \in {"end", "function"}
    /\ s # << >> /\ s[1].do = "function" => Len(s) = 1

(* The blocks an item still has to fill.                                   *)
Owns(item) ==
    IF item.do = "then" THEN {item.falseBB, item.endBB}
    ELSE IF item.do = "loop" THEN {item.stmtBB, item.endBB}
    ELSE IF item.do \in {"else", "body"} THEN {item.endBB} ELSE {}

(* They are blocks of the function, other than the entry and the insert    *)
(* block, and empty; nothing jumps to one that will be erased.             *)
ItemFits(f, item) ==
    /\ \A b \in Owns(item) :
         b \in Members(f.blocks) \ {1} /\ b # f.insert /\ f.code[b] = << >>
    /\ item.do = "then" => /\ item.falseBB # item.endBB
                           /\ ~item.else => f.pre[item.falseBB] = << >>
    /\ item.do = "loop" => item.stmtBB # item.endBB
    /\ item.do \in {"loop", "body"} => item.judgeBB \in Members(f.blocks) \ {1}

(* No two items wait for the same block, and none for the head of a loop.  *)
Apart(s) ==
    \A i, j \in 1..Len(s) :
        /\ i # j => Owns(s[i]) \cap Owns(s[j]) = {}
        /\ s[i].do \in {"loop", "body"} => s[i].judgeBB \notin Owns(s[j])

Waiting(f, s) == Apart(s) /\ \A i \in 1..Len(s) : ItemFits(f, s[i])

(* Every other block is terminated, the insert block excepted.             *)
Closed(f, s) ==
    \A b \in Members(f.blocks) :
        \/ is_terminated(f, b)
        \/ \E i \in 1..Len(s) : b \in Owns(s[i])
        \/ b = f.insert /\ s # << >>

(* Where the insert block has to be open, it is.                           *)
InsertFits(f, s) ==
    IF s # << >> /\ s[1].do = "function" THEN f = EmptyFunction
    ELSE /\ f.insert \in Members(f.blocks)
         /\ s # << >> /\ s[1].do \notin Resumed => ~InsertTerminated(f)

(* The scopes that the continuation will leave.                            *)
InScope(item) == IF item.do \in {"list", "check", "end"} THEN 1 ELSE 0

ScopeItems(s) == [i \in 1..Len(s) |-> InScope(s[i])]

ScopesLeft(s, d) == d = 1 + Occurrences(ScopeItems(s), 1)

(* The blocks that will still be created, at most.                         *)
Owed(s) ==
    (IF s # << >> /\ s[1].do = "function" THEN 1 ELSE 0)
      + (IF s # << >> /\ s[1].do = "expr" THEN 2 * s[1].n ELSE 0)
      + (IF \E i \in 1..Len(s) : s[i].do = "branch" THEN 3 ELSE 0)

WithinBounds(f, s, c, x) ==
    /\ c \in 0..MaxControl /\ x \in 0..MaxIndex
    /\ f.next + 3 * c + 2 * x + Owed(s) <= MaxBlocks + 1

Inv(f, s, d, c, x) ==
    /\ GoodFunction(f) /\ Shaped(s) /\ Waiting(f, s) /\ Closed(f, s)
    /\ InsertFits(f, s) /\ ScopesLeft(s, d) /\ WithinBounds(f, s, c, x)

BInv == Inv(fn, todo, depth, control, index)

-----------------------------------------------------------------------------
(* What the visitors put on the continuation keeps its shape.              *)
MayReplace(head, items) ==
    /\ Len(items) <= 2
    /\ \A k \in 1..Len(items) : items[k].do \notin {"end", "function"}
    /\ Len(items) # 0 /\ head.do = "expr" => Len(items) = 1 /\ items[1].do = "expr"
    /\ Len(items) = 2 => \/ items[2].do \in Resumed
                         \/ items[1].do = "expr" /\ items[2].do \in AfterExpression

LEMMA ShapeContinues ==
  ASSUME NEW s, Shaped(s), s # << >>, s[1].do \notin {"end", "function"},
         NEW items \in Seq(Item), MayReplace(s[1], items),
         NEW r, r = items \o Tail(s)
  PROVE  /\ Shaped(r) /\ r # << >>
         /\ items = << >> => \/ r[1].do \in Resumed
                             \/ s[1].do = "expr" /\ r[1].do \in AfterExpression
<1> DEFINE n == Len(items)
           m == Len(s)
           l == Len(r)
<1>1. /\ s \in Seq(Item) /\ m \in Nat \ {0} /\ n \in Nat
      /\ r \in Seq(Item) /\ l = n + m - 1
      /\ \A i \in 1..n : i \in 1..l /\ r[i] = items[i]
      /\ \A i \in 1..l : i \notin 1..n =>
             i - n + 1 \in 2..m /\ r[i] = s[i - n + 1]
  <2>1. s \in Seq(Item)
    BY DEF Shaped
  <2> QED BY <2>1, ReplaceHead
<1>0. /\ n <= 2
      /\ \A k \in 1..n : items[k].do \notin {"end", "function"}
      /\ n # 0 /\ s[1].do = "expr" => n = 1 /\ items[1].do = "expr"
      /\ n = 2 => (\/ items[2].do \in Resumed
                   \/ items[1].do = "expr" /\ items[2].do \in AfterExpression)
  BY DEF MayReplace
<1>2. m >= 2
  <2>1. m # 1
    BY DEF Shaped
  <2> HIDE DEF m
  <2> QED BY <1>1, <2>1
<1>3. /\ \A i \in 2..m :
           \/ s[i].do \in Resumed
           \/ i = 2 /\ s[1].do = "expr" /\ s[2].do \in AfterExpression
      /\ \A i \in 1..m : s[i].do = "end" => i = m
      /\ s[m].do \in {"end", "function"}
  BY DEF Shaped
<1> HIDE DEF n, m, l
<1>4. r # << >> /\ l >= 1
  <2>1. l >= 1
    BY <1>1, <1>2
  <2>2. r = << >> => l = 0
    BY DEF l
  <2> QED BY <2>1, <2>2
<1>5. ASSUME NEW i \in 2..l
      PROVE  \/ r[i].do \in Resumed
             \/ i = 2 /\ r[1].do = "expr" /\ r[2].do \in AfterExpression
  <2>1. CASE i \in 1..n
    <3>1. n = 2 /\ i = 2 /\ 1 \in 1..n /\ 2 \in 1..n
      BY <1>0, <1>1, <2>1
    <3> QED BY <1>0, <1>1, <3>1
  <2>2. CASE i \notin 1..n
    <3>1. i \in 1..l
      OBVIOUS
    <3>2. i - n + 1 \in 2..m /\ r[i] = s[i - n + 1]
      BY <1>1, <2>2, <3>1
    <3>3. CASE i - n + 1 = 2 /\ s[1].do = "expr"
      <4>1. n # 0
        BY <1>1, <3>3
      <4>2. n = 1 /\ i = 2 /\ items[1].do = "expr" /\ 1 \in 1..n
        BY <1>0, <1>1, <3>3, <4>1
      <4> QED BY <1>1, <1>3, <3>2, <3>3, <4>2
    <3>4. CASE ~(i - n + 1 = 2 /\ s[1].do = "expr")
      BY <1>3, <3>2, <3>4
    <3> QED BY <3>3, <3>4
  <2> QED BY <2>1, <2>2
<1>6. ASSUME NEW i \in 1..l, r[i].do = "end" PROVE i = l
  <2>1. i \notin 1..n
    BY <1>0, <1>1, <1>6
  <2>2. i - n + 1 \in 2..m /\ r[i] = s[i - n + 1]
    BY <1>1, <2>1
  <2>3. i - n + 1 \in 1..m
    BY <2>2
  <2>4. i - n + 1 = m
    BY <1>3, <1>6, <2>2, <2>3
  <2> QED BY <1>1, <2>4
<1>7. r[l] = s[m] /\ s[m].do = "end"
  <2>1. l \in 1..l /\ l \notin 1..n /\ l - n + 1 = m
    BY <1>1, <1>2
  <2>2. m \in 2..m
    BY <1>1, <1>2
  <2> QED BY <1>1, <1>3, <2>1, <2>2 DEF Resumed, AfterExpression
<1>8. r[1].do # "function"
  <2>1. CASE n = 0
    <3>1. 1 \in 1..l /\ 1 \notin 1..n /\ 1 - n + 1 = 2 /\ 2 \in 2..m
      BY <1>1, <1>2, <1>4, <2>1
    <3> QED BY <1>1, <1>3, <3>1 DEF Resumed, AfterExpression
  <2>2. CASE n # 0
    <3>1. 1 \in 1..n
      BY <1>1, <2>2
    <3> QED BY <1>0, <1>1, <3>1
  <2> QED BY <2>1, <2>2
<1>9. Shaped(r)
  BY <1>1, <1>4, <1>5, <1>6, <1>7, <1>8 DEF Shaped, l
<1>10. ASSUME items = << >>
       PROVE  \/ r[1].do \in Resumed
              \/ s[1].do = "expr" /\ r[1].do \in AfterExpression
  <2>1. n = 0
    BY <1>10 DEF n
  <2>2. 1 \in 1..l /\ 1 \notin 1..n /\ 1 - n + 1 = 2 /\ 2 \in 2..m
    BY <1>1, <1>2, <1>4, <2>1
  <2> QED BY <1>1, <1>3, <2>2
<1> QED BY <1>4, <1>9, <1>10

(* From f to g nothing is done to the blocks that others than the head of  *)
(* the continuation wait for: D are the blocks it owns, T those the step   *)
(* jumps to.                                                               *)
Carries(f, g, D, T) ==
    /\ Members(f.blocks) \ D \subseteq Members(g.blocks)
    /\ \A b \in Members(f.blocks) \ D :
         b # f.insert => g.code[b] = f.code[b] /\ b # g.insert
    /\ \A b \in Members(f.blocks) \ (D \cup T) : f.pre[b] = << >> => g.pre[b] = << >>

LEMMA ItemStillFits ==
  ASSUME NEW f, NEW g, NEW item, ItemFits(f, item), NEW D, NEW T, Carries(f, g, D, T),
         Owns(item) \cap D = {}, Owns(item) \cap T = {},
         item.do \in {"loop", "body"} => item.judgeBB \notin D
  PROVE  ItemFits(g, item)
<1>1. ASSUME NEW b \in Owns(item)
      PROVE  b \in Members(g.blocks) \ {1} /\ b # g.insert /\ g.code[b] = << >>
  BY DEF ItemFits, Carries
<1>2. item.do = "then" => item.falseBB \in Owns(item)
  BY DEF Owns
<1>3. item.do = "then" /\ ~item.else => g.pre[item.falseBB] = << >>
  BY <1>2 DEF ItemFits, Carries
<1>4. item.do \in {"loop", "body"} => item.judgeBB \in Members(g.blocks) \ {1}
  BY DEF ItemFits, Carries
<1> QED BY <1>1, <1>3, <1>4 DEF ItemFits

(* The items a step adds fit, and wait only for blocks of the item they    *)
(* replace and for new ones.                                               *)
Brings(f, g, s, items) ==
    /\ Apart(items)
    /\ \A k \in 1..Len(items) :
         /\ ItemFits(g, items[k])
         /\ \A b \in Owns(items[k]) : b \in Owns(s[1]) \/ b \notin Members(f.blocks)
         /\ items[k].do \in {"loop", "body"} =>
              \A j \in 2..Len(s) : items[k].judgeBB \notin Owns(s[j])

LEMMA WaitingContinues ==
  ASSUME NEW f, NEW g, NEW s \in Seq(Item), s # << >>, NEW items \in Seq(Item),
         Waiting(f, s), NEW T, Carries(f, g, Owns(s[1]), T),
         \A j \in 2..Len(s) : Owns(s[j]) \cap T = {},
         Brings(f, g, s, items), NEW r, r = items \o Tail(s)
  PROVE  Waiting(g, r)
<1> DEFINE n == Len(items)
           m == Len(s)
           l == Len(r)
<1>1. /\ m \in Nat \ {0} /\ n \in Nat /\ l = n + m - 1
      /\ \A i \in 1..n : i \in 1..l /\ r[i] = items[i]
      /\ \A i \in 1..l : i \notin 1..n =>
             i - n + 1 \in 2..m /\ r[i] = s[i - n + 1]
  BY ReplaceHead
<1>2. /\ \A i, j \in 1..m :
           /\ i # j => Owns(s[i]) \cap Owns(s[j]) = {}
           /\ s[i].do \in {"loop", "body"} => s[i].judgeBB \notin Owns(s[j])
      /\ \A i \in 1..m : ItemFits(f, s[i])
      /\ \A j \in 2..m : Owns(s[j]) \cap T = {}
  BY DEF Waiting, Apart
<1>3. /\ \A i, j \in 1..n :
           /\ i # j => Owns(items[i]) \cap Owns(items[j]) = {}
           /\ items[i].do \in {"loop", "body"} => items[i].judgeBB \notin Owns(items[j])
      /\ \A k \in 1..n :
           /\ ItemFits(g, items[k])
           /\ \A b \in Owns(items[k]) : b \in Owns(s[1]) \/ b \notin Members(f.blocks)
           /\ items[k].do \in {"loop", "body"} =>
                \A j \in 2..m : items[k].judgeBB \notin Owns(s[j])
  BY DEF Brings, Apart
<1> HIDE DEF n, m, l
<1>4. 1 \in 1..m /\ \A j \in 2..m : j \in 1..m /\ j # 1
  BY <1>1
<1>5. ASSUME NEW j \in 2..m PROVE ItemFits(g, s[j])
  <2>1. ItemFits(f, s[j]) /\ Owns(s[j]) \cap Owns(s[1]) = {} /\ Owns(s[j]) \cap T = {}
        /\ (s[j].do \in {"loop", "body"} => s[j].judgeBB \notin Owns(s[1]))
    BY <1>2, <1>4
  <2> QED BY <2>1, ItemStillFits
<1>6. ASSUME NEW k \in 1..n, NEW j \in 2..m
      PROVE  /\ Owns(items[k]) \cap Owns(s[j]) = {}
             /\ s[j].do \in {"loop", "body"} => s[j].judgeBB \notin Owns(items[k])
             /\ items[k].do \in {"loop", "body"} => items[k].judgeBB \notin Owns(s[j])
  <2>1. /\ Owns(s[1]) \cap Owns(s[j]) = {}
        /\ Owns(s[j]) \subseteq Members(f.blocks)
        /\ s[j].do \in {"loop", "body"} =>
             s[j].judgeBB \in Members(f.blocks) /\ s[j].judgeBB \notin Owns(s[1])
    BY <1>2, <1>4 DEF ItemFits
  <2> QED BY <2>1, <1>3
<1>7. ASSUME NEW i \in 1..l PROVE ItemFits(g, r[i])
  BY <1>1, <1>3, <1>5
<1>8. ASSUME NEW i \in 1..l, NEW j \in 1..l
      PROVE  /\ i # j => Owns(r[i]) \cap Owns(r[j]) = {}
             /\ r[i].do \in {"loop", "body"} => r[i].judgeBB \notin Owns(r[j])
  <2> DEFINE p == i - n + 1
             q == j - n + 1
  <2>1. CASE i \in 1..n /\ j \in 1..n
    BY <2>1, <1>1, <1>3
  <2>2. CASE i \in 1..n /\ j \notin 1..n
    <3>1. r[i] = items[i] /\ r[j] = s[q] /\ q \in 2..m
      BY <1>1, <2>2
    <3> HIDE DEF q
    <3> QED BY <2>2, <3>1, <1>6
  <2>3. CASE i \notin 1..n /\ j \in 1..n
    <3>1. r[i] = s[p] /\ r[j] = items[j] /\ p \in 2..m
      BY <1>1, <2>3
    <3> HIDE DEF p
    <3> QED BY <2>3, <3>1, <1>6
  <2>4. CASE i \notin 1..n /\ j \notin 1..n
    <3>1. r[i] = s[p] /\ r[j] = s[q] /\ p \in 2..m /\ q \in 2..m
      BY <1>1, <2>4
    <3>2. i # j => p # q
      BY <1>1
    <3> HIDE DEF p, q
    <3> QED BY <3>1, <3>2, <1>2, <1>4
  <2> QED BY <2>1, <2>2, <2>3, <2>4
<1> QED BY <1>7, <1>8 DEF Waiting, Apart, l

(* A block that a step leaves open is the insert block, or one that an     *)
(* item it adds waits for, or one it did not touch.                        *)
Accounted(f, g, s, items) ==
    \A b \in Members(g.blocks) :
        \/ is_terminated(g, b) \/ b = g.insert
        \/ \E k \in 1..Len(items) : b \in Owns(items[k])
        \/ /\ b \in Members(f.blocks) \ Owns(s[1]) /\ b # f.insert
           /\ g.code[b] = f.code[b]

LEMMA ClosedContinues ==
  ASSUME NEW f, NEW g, NEW s \in Seq(Item), s # << >>, NEW items \in Seq(Item),
         Closed(f, s), NEW r, r = items \o Tail(s), r # << >>, Accounted(f, g, s, items)
  PROVE  Closed(g, r)
<1> DEFINE n == Len(items)
           m == Len(s)
           l == Len(r)
<1>1. /\ m \in Nat \ {0} /\ n \in Nat /\ l = n + m - 1
      /\ \A i \in 1..n : i \in 1..l /\ r[i] = items[i]
      /\ \A i \in 1..l : i \notin 1..n =>
             i - n + 1 \in 2..m /\ r[i] = s[i - n + 1]
  BY ReplaceHead
<1>2. ASSUME NEW b \in Members(g.blocks), ~is_terminated(g, b), b # g.insert
      PROVE  \E i \in 1..l : b \in Owns(r[i])
  <2>1. CASE \E k \in 1..n : b \in Owns(items[k])
    BY <2>1, <1>1
  <2>2. CASE ~\E k \in 1..n : b \in Owns(items[k])
    <3>1. /\ b \in Members(f.blocks) \ Owns(s[1]) /\ b # f.insert
          /\ g.code[b] = f.code[b]
      BY <1>2, <2>2 DEF Accounted
    <3>2. ~is_terminated(f, b)
      BY <1>2, <3>1 DEF is_terminated
    <3>3. PICK j \in 1..m : b \in Owns(s[j])
      BY <3>1, <3>2 DEF Closed
    <3>4. j # 1
      BY <3>1, <3>3
    <3> DEFINE i == j + n - 1
    <3> HIDE DEF n, m, l
    <3>5. i \in 1..l /\ i \notin 1..n /\ i - n + 1 = j
      BY <1>1, <3>4
    <3>6. r[i] = s[j]
      BY <1>1, <3>5
    <3> HIDE DEF i
    <3> QED BY <3>3, <3>5, <3>6
  <2> QED BY <2>1, <2>2
<1> QED BY <1>2 DEF Closed

(* The scopes that a list of items leaves.                                 *)
LEMMA ScopeItemsTyped ==
  ASSUME NEW s \in Seq(Item)
  PROVE  /\ ScopeItems(s) \in Seq({0, 1}) /\ Len(ScopeItems(s)) = Len(s)
         /\ \A i \in 1..Len(s) : ScopeItems(s)[i] = InScope(s[i])
<1>1. Len(s) \in Nat
  OBVIOUS
<1>2. \A i \in 1..Len(s) : InScope(s[i]) \in {0, 1}
  BY DEF InScope
<1>3. ScopeItems(s) = [i \in 1..Len(s) |-> InScope(s[i])]
  BY DEF ScopeItems
<1> QED BY <1>1, <1>2, <1>3

LEMMA ScopesConcat ==
  ASSUME NEW s \in Seq(Item), NEW t \in Seq(Item)
  PROVE  Occurrences(ScopeItems(s \o t), 1)
           = Occurrences(ScopeItems(s), 1) + Occurrences(ScopeItems(t), 1)
<1> DEFINE a == ScopeItems(s)
           b == ScopeItems(t)
           c == ScopeItems(s \o t)
<1>1. /\ Len(s) \in Nat /\ Len(t) \in Nat /\ s \o t \in Seq(Item)
      /\ Len(s \o t) = Len(s) + Len(t)
      /\ \A i \in 1..(Len(s) + Len(t)) :
           (s \o t)[i] = IF i <= Len(s) THEN s[i] ELSE t[i - Len(s)]
  OBVIOUS
<1>2. /\ a \in Seq({0, 1}) /\ Len(a) = Len(s) /\ \A i \in 1..Len(s) : a[i] = InScope(s[i])
      /\ b \in Seq({0, 1}) /\ Len(b) = Len(t) /\ \A i \in 1..Len(t) : b[i] = InScope(t[i])
      /\ c \in Seq({0, 1}) /\ Len(c) = Len(s) + Len(t)
      /\ \A i \in 1..(Len(s) + Len(t)) : c[i] = InScope((s \o t)[i])
  BY <1>1, ScopeItemsTyped
<1> HIDE DEF a, b, c
<1>3. /\ a \o b \in Seq({0, 1}) /\ Len(a \o b) = Len(s) + Len(t)
      /\ \A i \in 1..(Len(s) + Len(t)) :
           (a \o b)[i] = IF i <= Len(s) THEN a[i] ELSE b[i - Len(s)]
  <2>1. a \in Seq({0, 1}) /\ b \in Seq({0, 1})
    BY <1>2
  <2>2. /\ a \o b \in Seq({0, 1}) /\ Len(a \o b) = Len(a) + Len(b)
        /\ \A i \in 1..(Len(a) + Len(b)) :
             (a \o b)[i] = IF i <= Len(a) THEN a[i] ELSE b[i - Len(a)]
    BY <2>1, ConcatElements
  <2> QED BY <1>2, <2>2
<1>4. ASSUME NEW i \in 1..(Len(s) + Len(t)) PROVE c[i] = (a \o b)[i]
  <2>1. CASE i <= Len(s)
    <3>1. i \in 1..Len(s)
      BY <1>1, <2>1
    <3>2. c[i] = InScope(s[i]) /\ a[i] = InScope(s[i])
      BY <1>1, <1>2, <2>1, <3>1
    <3> QED BY <1>3, <2>1, <3>2
  <2>2. CASE ~(i <= Len(s))
    <3>1. i - Len(s) \in 1..Len(t)
      BY <1>1, <2>2
    <3>2. c[i] = InScope(t[i - Len(s)]) /\ b[i - Len(s)] = InScope(t[i - Len(s)])
      BY <1>1, <1>2, <2>2, <3>1
    <3> QED BY <1>3, <2>2, <3>2
  <2> QED BY <2>1, <2>2
<1>5. c = a \o b
  <2> DEFINE d == a \o b
  <2>1. d \in Seq({0, 1}) /\ Len(d) = Len(c) /\ \A i \in 1..Len(c) : c[i] = d[i]
    BY <1>2, <1>3, <1>4
  <2> HIDE DEF d
  <2>2. c = d
    BY <1>2, <2>1
  <2> QED BY <2>2 DEF d
<1>6. Occurrences(a \o b, 1) = Occurrences(a, 1) + Occurrences(b, 1)
  BY <1>2, ConcatOccurrences
<1> QED BY <1>5, <1>6 DEF a, b, c

LEMMA ScopesOfOne ==
  ASSUME NEW item \in Item
  PROVE  Occurrences(ScopeItems(<<item>>), 1) = InScope(item)
<1> DEFINE v == InScope(item)
<1>1. ScopeItems(<<item>>) = <<v>>
  <2>1. Len(<<item>>) = 1 /\ <<item>>[1] = item /\ 1 \in 1..1 /\ <<item>> \in Seq(Item)
    OBVIOUS
  <2> DEFINE a == ScopeItems(<<item>>)
  <2>2. a \in Seq({0, 1}) /\ Len(a) = 1 /\ a[1] = v
    BY <2>1, ScopeItemsTyped
  <2> HIDE DEF a, v
  <2>3. a = <<v>>
    BY <2>2
  <2> QED BY <2>3 DEF a
<1>2. Occurrences(<<v>>, 1) = IF v = 1 THEN 1 ELSE 0
  <2> HIDE DEF v
  <2> QED BY SingleOccurrences
<1>3. v \in {0, 1}
  BY DEF InScope
<1>4. Occurrences(<<v>>, 1) = v
  <2> HIDE DEF v
  <2> QED BY <1>2, <1>3
<1> QED BY <1>1, <1>4

LEMMA ScopesOfNone == Occurrences(ScopeItems(<< >>), 1) = 0
<1>1. ScopeItems(<< >>) = << >>
  BY DEF ScopeItems
<1> QED BY <1>1, OccurrencesOfEmpty

LEMMA ScopesContinue ==
  ASSUME NEW s \in Seq(Item), s # << >>, NEW items \in Seq(Item),
         NEW r, r = items \o Tail(s), NEW d, ScopesLeft(s, d)
  PROVE  /\ d \in Nat
         /\ ScopesLeft(r, d + Occurrences(ScopeItems(items), 1)
                             - InScope(s[1]))
<1> DEFINE h == <<s[1]>>
           t == Tail(s)
           H == Occurrences(ScopeItems(h), 1)
           T == Occurrences(ScopeItems(t), 1)
           N == Occurrences(ScopeItems(items), 1)
<1>1. /\ s[1] \in Item /\ t \in Seq(Item) /\ h \in Seq(Item) /\ s = h \o t
  OBVIOUS
<1>2. Occurrences(ScopeItems(s), 1) = H + T
  <2> HIDE DEF h, t
  <2> QED BY <1>1, ScopesConcat
<1>3. H = InScope(s[1])
  BY <1>1, ScopesOfOne
<1>4. Occurrences(ScopeItems(r), 1) = N + T
  <2> HIDE DEF h, t
  <2>1. r = items \o t
    BY DEF t
  <2> QED BY <1>1, <2>1, ScopesConcat
<1>5. H \in Nat /\ T \in Nat /\ N \in Nat
  <2> HIDE DEF h, t
  <2>1. ASSUME NEW q \in Seq(Item) PROVE Occurrences(ScopeItems(q), 1) \in Nat
    <3>1. ScopeItems(q) \in Seq({0, 1})
      BY ScopeItemsTyped
    <3> QED BY <3>1, OccurrencesFinite
  <2> QED BY <1>1, <2>1
<1> DEFINE i == InScope(s[1])
           e == d + N - i
<1>6. d = 1 + (H + T)
  BY <1>2 DEF ScopesLeft
<1>7. d \in Nat /\ e = 1 + (N + T)
  <2> HIDE DEF H, T, N
  <2>1. H = i
    BY <1>3
  <2> HIDE DEF i, h, t
  <2>2. d \in Nat
    BY <1>5, <1>6
  <2>3. d + N - i = 1 + (N + T)
    BY <1>5, <1>6, <2>1
  <2> QED BY <2>2, <2>3
<1> HIDE DEF H, T, N
<1> HIDE DEF e
<1>8. ScopesLeft(r, e)
  BY <1>4, <1>7 DEF ScopesLeft
<1> QED BY <1>7, <1>8 DEF e, N, i

-----------------------------------------------------------------------------
(* The three ways in which a visitor goes on: nothing, one item or two     *)
(* items take the place of the head.                                       *)
LEMMA PlainItems ==
  ASSUME NEW what \in {"function", "compound", "stmt", "list", "check", "ret", "end"}
  PROVE  [do |-> what] \in Item
  BY DEF Item

LEMMA ItemFields ==
  ASSUME NEW item \in Item
  PROVE  /\ item.do = "expr" => item.n \in Nat
         /\ item.do \in {"branch", "then"} => item.else \in BOOLEAN
         /\ item.do = "then" => item.falseBB \in Block
         /\ item.do \in {"then", "else", "loop", "body"} => item.endBB \in Block
         /\ item.do \in {"loop", "body"} => item.judgeBB \in Block /\ item.stmtBB \in Block
  BY DEF Item

LEMMA OwedIs ==
  ASSUME NEW s, Shaped(s), s # << >>
  PROVE  /\ Owed(s) \in Nat
         /\ s[1].do \notin {"function", "expr", "branch"} => Owed(s) = 0
         /\ s[1].do = "branch" => Owed(s) = 3
         /\ s[1].do = "function" => Owed(s) = 1
         /\ s[1].do = "expr" =>
              Owed(s) = 2 * s[1].n + IF Len(s) >= 2 /\ s[2].do = "branch" THEN 3 ELSE 0
<1> DEFINE m == Len(s)
           E == \E i \in 1..m : s[i].do = "branch"
<1>1. s \in Seq(Item) /\ m \in Nat /\ m >= 1 /\ s[1] \in Item
  BY DEF Shaped
<1>2. \A i \in 2..m :
           \/ s[i].do \in Resumed
           \/ i = 2 /\ s[1].do = "expr" /\ s[2].do \in AfterExpression
  BY DEF Shaped
<1> HIDE DEF m
<1>3. s[1].do # "expr" => (E <=> s[1].do = "branch")
  <2>1. ASSUME s[1].do # "expr", NEW i \in 1..m, s[i].do = "branch" PROVE s[1].do = "branch"
    <3>1. CASE i = 1
      BY <2>1, <3>1
    <3>2. CASE i # 1
      <4>1. i \in 2..m
        BY <1>1, <3>2
      <4> QED BY <4>1, <1>2, <2>1 DEF Resumed
    <3> QED BY <3>1, <3>2
  <2>2. 1 \in 1..m
    BY <1>1
  <2> QED BY <2>1, <2>2
<1>4. s[1].do = "expr" => (E <=> m >= 2 /\ s[2].do = "branch")
  <2>1. ASSUME s[1].do = "expr", NEW i \in 1..m, s[i].do = "branch"
        PROVE  m >= 2 /\ s[2].do = "branch"
    <3>1. i # 1
      BY <2>1
    <3>2. i \in 2..m /\ m >= 2
      BY <1>1, <3>1
    <3> QED BY <3>2, <1>2, <2>1 DEF Resumed
  <2>2. m >= 2 => 2 \in 1..m
    BY <1>1
  <2> QED BY <2>1, <2>2
<1>5. Owed(s) = (IF s[1].do = "function" THEN 1 ELSE 0)
                  + (IF s[1].do = "expr" THEN 2 * s[1].n ELSE 0)
                  + (IF E THEN 3 ELSE 0)
  BY DEF Owed, m
<1> HIDE DEF E
<1>6. s[1].do = "expr" => 2 * s[1].n \in Nat
  BY <1>1, ItemFields
<1>7. CASE s[1].do = "expr"
  BY <1>4, <1>5, <1>6, <1>7 DEF m
<1>8. CASE s[1].do # "expr"
  BY <1>3, <1>5, <1>8
<1> QED BY <1>7, <1>8

LEMMA Pops ==
  ASSUME NEW s, Shaped(s), s # << >>, s[1].do \notin {"end", "function"},
         NEW r, r = << >> \o Tail(s)
  PROVE  /\ Shaped(r) /\ r # << >>
         /\ \/ r[1].do \in Resumed
            \/ s[1].do = "expr" /\ r[1].do \in AfterExpression
         /\ s[1].do # "expr" => Owed(r) = 0
         /\ s[1].do = "expr" => Owed(s) = 2 * s[1].n + Owed(r)
         /\ \A d : ScopesLeft(s, d) => ScopesLeft(r, d - InScope(s[1]))
<1> DEFINE e == << >>
           m == Len(s)
<1>1. e \in Seq(Item) /\ Len(e) = 0 /\ e = << >> /\ MayReplace(s[1], e)
  BY DEF MayReplace
<1>2. s \in Seq(Item)
  BY DEF Shaped
<1>3. Occurrences(ScopeItems(e), 1) = 0
  BY ScopesOfNone
<1>4. r = e \o Tail(s)
  OBVIOUS
<1> HIDE DEF e
<1>5. /\ Shaped(r) /\ r # << >>
      /\ r[1].do \in Resumed \/ (s[1].do = "expr" /\ r[1].do \in AfterExpression)
  BY <1>1, <1>4, ShapeContinues
<1>6. ASSUME NEW d, ScopesLeft(s, d) PROVE ScopesLeft(r, d - InScope(s[1]))
  <2>1. d \in Nat /\ ScopesLeft(r, d + Occurrences(ScopeItems(e), 1) - InScope(s[1]))
    BY <1>1, <1>2, <1>4, <1>6, ScopesContinue
  <2>2. ScopesLeft(r, d + 0 - InScope(s[1]))
    BY <1>3, <2>1
  <2>3. InScope(s[1]) \in Int
    BY DEF InScope
  <2>4. d + 0 - InScope(s[1]) = d - InScope(s[1])
    BY <2>1, <2>3
  <2> QED BY <2>2, <2>4
<1>7. m >= 2 /\ r[1] = s[2]
  <2>1. /\ m \in Nat /\ Len(r) = 0 + m - 1
        /\ \A i \in 1..Len(r) : i \notin 1..0 => r[i] = s[i - 0 + 1]
    BY <1>1, <1>2, <1>4, ReplaceHead
  <2>2. r \in Seq(Item)
    BY <1>5 DEF Shaped
  <2>3. Len(r) \in Nat /\ Len(r) # 0
    BY <1>5, <2>2
  <2> DEFINE l == Len(r)
  <2> HIDE DEF l, m
  <2>4. l = m - 1 /\ l \in Nat /\ l # 0 /\ m \in Nat
    BY <2>1, <2>3 DEF l
  <2>5. m >= 2 /\ 1 \in 1..l /\ 1 \notin 1..0 /\ 1 - 0 + 1 = 2
    BY <2>4
  <2> QED BY <2>1, <2>5 DEF l
<1>8. r[1].do = "branch" => Owed(r) = 3
  BY <1>5, OwedIs
<1>9. r[1].do # "branch" => Owed(r) = 0
  BY <1>5, OwedIs DEF Resumed, AfterExpression
<1>10. s[1].do # "expr" => Owed(r) = 0
  BY <1>5, <1>9 DEF Resumed
<1>11. s[1].do = "expr" => Owed(s) = 2 * s[1].n + Owed(r)
  <2>1. s[1].do = "expr" =>
          Owed(s) = 2 * s[1].n + IF Len(s) >= 2 /\ s[2].do = "branch" THEN 3 ELSE 0
    BY OwedIs
  <2> QED BY <2>1, <1>7, <1>8, <1>9
<1> QED BY <1>5, <1>6, <1>10, <1>11

ItemOwes(item) ==
    IF item.do = "expr" THEN 2 * item.n ELSE IF item.do = "branch" THEN 3 ELSE 0

Single(e, a) == Len(e) = 1 /\ e[1] = a

Pair(e, a, b) == Len(e) = 2 /\ e[1] = a /\ e[2] = b

(* From s to r the scopes to leave change by those of the new items, less  *)
(* that of the head of s.                                                  *)
ScopesGo(s, r, in) == \A d : ScopesLeft(s, d) => ScopesLeft(r, d + in - InScope(s[1]))

PairScopes(a, b) == InScope(a) + InScope(b)

PairOwes(a, b) == ItemOwes(a) + ItemOwes(b)

Pushed(s, r, a, scopes, blocks) ==
    /\ Shaped(r) /\ r # << >> /\ r[1] = a /\ Owed(r) = blocks
    /\ ScopesGo(s, r, scopes)

PushOwes(s, a) ==
    IF s[1].do = "expr" THEN Owed(s) - 2 * s[1].n + 2 * a.n ELSE ItemOwes(a)

LEMMA Pushes ==
  ASSUME NEW s, Shaped(s), s # << >>, s[1].do \notin {"end", "function"},
         NEW a \in Item, a.do \notin {"end", "function", "branch"}, s[1].do = "expr" => a.do = "expr",
         NEW e \in Seq(Item), Single(e, a), NEW r, r = e \o Tail(s)
  PROVE  Pushed(s, r, a, InScope(a), PushOwes(s, a))
<1> DEFINE m == Len(s)
           l == Len(r)
<1>1. e \in Seq(Item) /\ Len(e) = 1 /\ e[1] = a /\ MayReplace(s[1], e)
  BY DEF MayReplace, Single
<1>2. s \in Seq(Item)
  BY DEF Shaped
<1>3. Occurrences(ScopeItems(e), 1) = InScope(a)
  <2>1. e = <<a>>
    BY DEF Single
  <2> QED BY <2>1, ScopesOfOne
<1>4. r = e \o Tail(s)
  OBVIOUS
<1>5. Shaped(r) /\ r # << >>
  BY <1>1, <1>4, ShapeContinues
<1>6. ASSUME NEW d, ScopesLeft(s, d) PROVE ScopesLeft(r, d + InScope(a) - InScope(s[1]))
  BY <1>1, <1>2, <1>3, <1>4, <1>6, ScopesContinue
<1>7. /\ m \in Nat /\ l = 1 + m - 1
      /\ \A i \in 1..1 : i \in 1..l /\ r[i] = e[i]
      /\ \A i \in 1..l : i \notin 1..1 => r[i] = s[i - 1 + 1]
  <2> DEFINE n == Len(e)
  <2>1. /\ m \in Nat /\ l = n + m - 1
        /\ \A i \in 1..n : i \in 1..l /\ r[i] = e[i]
        /\ \A i \in 1..l : i \notin 1..n => r[i] = s[i - n + 1]
    BY <1>2, ReplaceHead
  <2>2. n = 1
    BY DEF Single
  <2> HIDE DEF n, m, l
  <2> QED BY <2>1, <2>2
<1> HIDE DEF m, l
<1>8. r[1] = a /\ l = m /\ (m >= 2 => r[2] = s[2])
  <2>1. 1 \in 1..1 /\ l = m /\ (m >= 2 => 2 \in 1..l /\ 2 \notin 1..1 /\ 2 - 1 + 1 = 2)
    BY <1>7
  <2> QED BY <1>1, <1>7, <2>1
<1>9. a.do \notin {"expr", "branch"} => Owed(r) = 0
  BY <1>5, <1>8, OwedIs
<1>10. a.do = "expr" =>
          Owed(r) = 2 * a.n + IF m >= 2 /\ s[2].do = "branch" THEN 3 ELSE 0
  <2>1. a.do = "expr" =>
          Owed(r) = 2 * r[1].n + IF l >= 2 /\ r[2].do = "branch" THEN 3 ELSE 0
    BY <1>5, <1>8, OwedIs DEF l
  <2> QED BY <2>1, <1>8
<1>11. a.do = "expr" /\ s[1].do # "expr" => Owed(r) = 2 * a.n
  <2>1. m >= 2 /\ s[1].do # "expr" => s[2].do \in Resumed
    <3>1. m >= 2 => 2 \in 2..m
      BY <1>7
    <3> QED BY <3>1 DEF Shaped, m
  <2>2. a.do = "expr" => 2 * a.n \in Nat
    BY ItemFields
  <2> QED BY <1>10, <2>1, <2>2 DEF Resumed
<1>12. s[1].do = "expr" => Owed(r) - 2 * a.n = Owed(s) - 2 * s[1].n
  <2>1. s[1].do = "expr" =>
          Owed(s) = 2 * s[1].n + IF m >= 2 /\ s[2].do = "branch" THEN 3 ELSE 0
    BY OwedIs DEF m
  <2>2. s[1].do = "expr" => s[1].n \in Nat /\ a.n \in Nat
    <3>1. s[1] \in Item
      BY <1>2
    <3> QED BY <3>1, ItemFields
  <2> QED BY <1>10, <2>1, <2>2
<1>14. ScopesGo(s, r, InScope(a))
  BY <1>6 DEF ScopesGo
<1>13. a.do # "branch" /\ s[1].do # "expr" => Owed(r) = ItemOwes(a)
  BY <1>9, <1>11 DEF ItemOwes
<1>15. Owed(r) = PushOwes(s, a)
  <2>1. s[1].do = "expr" => s[1].n \in Nat /\ a.n \in Nat
    <3>1. s[1] \in Item
      BY <1>2
    <3> QED BY <3>1, ItemFields
  <2>2. Owed(s) \in Nat /\ Owed(r) \in Nat
    BY <1>5, OwedIs
  <2>3. CASE s[1].do = "expr"
    BY <2>1, <2>2, <2>3, <1>12 DEF PushOwes
  <2>4. CASE s[1].do # "expr"
    BY <2>4, <1>13 DEF PushOwes
  <2> QED BY <2>3, <2>4
<1> QED BY <1>5, <1>8, <1>14, <1>15 DEF Pushed

Follows(a, b) == b.do \in Resumed \/ (a.do = "expr" /\ b.do \in AfterExpression)

LEMMA PushesTwo ==
  ASSUME NEW s, Shaped(s), s # << >>, s[1].do \notin {"end", "function", "expr"},
         NEW a \in Item, a.do \notin {"end", "function", "branch"},
         NEW b \in Item, b.do # "end",
         Follows(a, b),
         NEW e \in Seq(Item), Pair(e, a, b), NEW r, r = e \o Tail(s)
  PROVE  Pushed(s, r, a, PairScopes(a, b), PairOwes(a, b))
<1> DEFINE m == Len(s)
           l == Len(r)
<1>1. e \in Seq(Item) /\ Len(e) = 2 /\ e[1] = a /\ e[2] = b /\ MayReplace(s[1], e)
  <2>1. 1..2 = {1, 2}
    OBVIOUS
  <2>2. b.do # "function"
    BY DEF Resumed, AfterExpression, Follows
  <2> QED BY <2>1, <2>2 DEF MayReplace, Follows, Pair
<1>2. s \in Seq(Item)
  BY DEF Shaped
<1>3. Occurrences(ScopeItems(e), 1) = InScope(a) + InScope(b)
  <2>1. <<a>> \in Seq(Item) /\ <<b>> \in Seq(Item) /\ e = <<a>> \o <<b>>
    <3>1. e = <<a, b>>
      BY DEF Pair
    <3> QED BY <3>1
  <2>2. Occurrences(ScopeItems(<<a>> \o <<b>>), 1)
          = Occurrences(ScopeItems(<<a>>), 1) + Occurrences(ScopeItems(<<b>>), 1)
    BY <2>1, ScopesConcat
  <2> QED BY <2>1, <2>2, ScopesOfOne
<1>4. r = e \o Tail(s)
  OBVIOUS
<1>5. Shaped(r) /\ r # << >>
  BY <1>1, <1>4, ShapeContinues
<1>6. ASSUME NEW d, ScopesLeft(s, d)
      PROVE  ScopesLeft(r, d + (InScope(a) + InScope(b)) - InScope(s[1]))
  BY <1>1, <1>2, <1>3, <1>4, <1>6, ScopesContinue
<1>7. /\ m \in Nat /\ m >= 1 /\ l = 2 + m - 1
      /\ \A i \in 1..2 : i \in 1..l /\ r[i] = e[i]
  <2> DEFINE n == Len(e)
  <2>1. /\ m \in Nat \ {0} /\ l = n + m - 1
        /\ \A i \in 1..n : i \in 1..l /\ r[i] = e[i]
    BY <1>2, ReplaceHead
  <2>2. n = 2
    BY DEF Pair
  <2> HIDE DEF n, m, l
  <2>3. \A i \in 1..2 : i \in 1..l /\ r[i] = e[i]
    BY <2>1, <2>2
  <2>4. m \in Nat /\ m >= 1 /\ l = 2 + m - 1
    BY <2>1, <2>2
  <2> QED BY <2>3, <2>4
<1> HIDE DEF m, l
<1>8. r[1] = a /\ r[2] = b /\ l >= 2
  <2>1. 1 \in 1..2 /\ 2 \in 1..2 /\ l >= 2
    BY <1>7
  <2> QED BY <1>1, <1>7, <2>1
<1>9. a.do \notin {"expr", "branch"} => Owed(r) = 0
  BY <1>5, <1>8, OwedIs
<1>10. a.do = "expr" => Owed(r) = 2 * a.n + IF b.do = "branch" THEN 3 ELSE 0
  <2>1. a.do = "expr" =>
          Owed(r) = 2 * r[1].n + IF l >= 2 /\ r[2].do = "branch" THEN 3 ELSE 0
    BY <1>5, <1>8, OwedIs DEF l
  <2> QED BY <2>1, <1>8
<1>11. a.do # "branch" => Owed(r) = ItemOwes(a) + ItemOwes(b)
  <2>1. a.do = "expr" => 2 * a.n \in Nat
    BY ItemFields
  <2>2. b.do # "expr" /\ (b.do = "branch" => a.do = "expr")
    BY DEF Follows, Resumed, AfterExpression
  <2>3. ItemOwes(b) = IF b.do = "branch" THEN 3 ELSE 0
    BY <2>2 DEF ItemOwes
  <2>4. CASE a.do = "expr"
    BY <2>3, <2>4, <1>10 DEF ItemOwes
  <2>5. CASE a.do # "expr"
    BY <2>2, <2>3, <2>5, <1>9 DEF ItemOwes
  <2> QED BY <2>4, <2>5
<1>12. ScopesGo(s, r, PairScopes(a, b))
  BY <1>6 DEF ScopesGo, PairScopes
<1> QED BY <1>5, <1>8, <1>11, <1>12 DEF PairOwes, Pushed

-----------------------------------------------------------------------------
(* The steps that add to the insert block at most, and put on the          *)
(* continuation only items that own no block.                              *)
Extended(f, g) ==
    /\ GoodFunction(g) /\ g.next = f.next /\ g.blocks = f.blocks
    /\ g.insert = f.insert /\ g.pre = f.pre /\ g.succ = f.succ
    /\ \A b \in Block \ {f.insert} : g.code[b] = f.code[b]

Owner == {"then", "else", "loop", "body"}

LEMMA OwnsNothing ==
  ASSUME NEW item, item.do \notin Owner
  PROVE  Owns(item) = {} /\ item.do # "then" /\ item.do \notin {"loop", "body"}
  BY DEF Owns, Owner

LEMMA BlocksTyped ==
  ASSUME NEW f, GoodFunction(f)
  PROVE  /\ Members(f.blocks) \subseteq Block
         /\ f.next \in 1..(MaxBlocks + 1)
         /\ \A b \in Members(f.blocks) : b < f.next
<1>1. f.blocks \in Seq(Block) /\ f.next \in 1..(MaxBlocks + 1)
      /\ Members(f.blocks) \subseteq 1..(f.next - 1)
  BY DEF GoodFunction, FunctionType
<1> QED BY <1>1, MembersOfSeq, BoundsTyped

LEMMA QuietStep ==
  ASSUME NEW f, NEW g, NEW s, s # << >>, GoodFunction(f), Shaped(s), Waiting(f, s),
         Closed(f, s), Extended(f, g), s[1].do \notin Owner,
         NEW items \in Seq(Item), \A k \in 1..Len(items) : items[k].do \notin Owner,
         NEW r, r = items \o Tail(s), r # << >>
  PROVE  Waiting(g, r) /\ Closed(g, r)
<1>1. s \in Seq(Item)
  BY DEF Shaped
<1>2. Owns(s[1]) = {}
  BY OwnsNothing
<1>3. Carries(f, g, Owns(s[1]), {})
  BY <1>2, BlocksTyped DEF Carries, Extended
<1>4. Brings(f, g, s, items)
  <2>1. \A k \in 1..Len(items) :
           /\ Owns(items[k]) = {} /\ items[k].do # "then"
           /\ items[k].do \notin {"loop", "body"}
    BY OwnsNothing
  <2> QED BY <2>1 DEF Brings, Apart, ItemFits
<1>5. Waiting(g, r)
  <2>1. \A j \in 2..Len(s) : Owns(s[j]) \cap {} = {}
    OBVIOUS
  <2> QED BY <1>1, <1>3, <1>4, <2>1, WaitingContinues
<1>6. Closed(g, r)
  <2>1. ASSUME NEW b \in Members(g.blocks)
        PROVE  \/ is_terminated(g, b) \/ b = g.insert
               \/ \E k \in 1..Len(items) : b \in Owns(items[k])
               \/ /\ b \in Members(f.blocks) \ Owns(s[1]) /\ b # f.insert
                  /\ g.code[b] = f.code[b]
    BY <1>2, BlocksTyped DEF Extended
  <2>2. Accounted(f, g, s, items)
    BY <2>1 DEF Accounted
  <2> QED BY <1>1, <2>2, ClosedContinues
<1> QED BY <1>5, <1>6

(* What a step spends of the two bounds pays for the blocks it owes.       *)
Spends(c, x, c2, x2, blocks) ==
    /\ c2 \in 0..MaxControl /\ x2 \in 0..MaxIndex
    /\ 3 * c2 + 2 * x2 + blocks <= 3 * c + 2 * x

LEMMA BoundsAfter ==
  ASSUME NEW f, NEW g, NEW s, NEW r, NEW c, NEW x, NEW c2, NEW x2,
         GoodFunction(f), g.next = f.next, WithinBounds(f, s, c, x), Owed(s) = 0,
         Spends(c, x, c2, x2, Owed(r)), Owed(r) \in Nat
  PROVE  WithinBounds(g, r, c2, x2)
<1> DEFINE n == f.next
           o == Owed(r)
<1>1. n \in Nat /\ o \in Nat /\ MaxBlocks \in Nat /\ c2 \in 0..MaxControl /\ x2 \in 0..MaxIndex
  BY BlocksTyped, BoundsTyped DEF Spends
<1>2. c \in Nat /\ x \in Nat /\ n + 3 * c + 2 * x + 0 <= MaxBlocks + 1
  BY DEF WithinBounds
<1>3. 3 * c2 + 2 * x2 + o <= 3 * c + 2 * x
  BY DEF Spends
<1> HIDE DEF n, o
<1>4. n + 3 * c2 + 2 * x2 + o <= MaxBlocks + 1
  BY <1>1, <1>2, <1>3
<1> QED BY <1>1, <1>4 DEF WithinBounds, n, o

(* A visit ends.                                                           *)
LEMMA QuietPop ==
  ASSUME NEW f, NEW g, NEW s, s # << >>, NEW d, NEW c, NEW x, Inv(f, s, d, c, x),
         s[1].do \in {"list", "check", "stmt", "ret", "expr"}, Extended(f, g),
         s[1].do = "expr" => s[1].n = 0 /\ ~InsertTerminated(g),
         NEW r, r = << >> \o Tail(s)
  PROVE  Inv(g, r, d - InScope(s[1]), c, x)
<1>1. /\ GoodFunction(f) /\ Shaped(s) /\ Waiting(f, s) /\ Closed(f, s)
      /\ InsertFits(f, s) /\ ScopesLeft(s, d) /\ WithinBounds(f, s, c, x)
  BY DEF Inv
<1>2. s[1].do \notin {"end", "function"} /\ s[1].do \notin Owner /\ s[1].do # "branch"
  BY DEF Owner
<1>3. /\ Shaped(r) /\ r # << >>
      /\ r[1].do \in Resumed \/ (s[1].do = "expr" /\ r[1].do \in AfterExpression)
      /\ s[1].do # "expr" => Owed(r) = 0
      /\ s[1].do = "expr" => Owed(s) = 2 * s[1].n + Owed(r)
      /\ ScopesLeft(r, d - InScope(s[1]))
  BY <1>1, <1>2, Pops
<1>4. Waiting(g, r) /\ Closed(g, r)
  <2> DEFINE e == << >>
  <2>1. e \in Seq(Item) /\ r = e \o Tail(s) /\ \A k \in 1..Len(e) : e[k].do \notin Owner
    OBVIOUS
  <2> HIDE DEF e
  <2> QED BY <1>1, <1>2, <1>3, <2>1, QuietStep
<1>5. InsertFits(g, r)
  <2>1. g.insert \in Members(g.blocks)
    BY <1>1, <1>2 DEF InsertFits, Extended
  <2>2. r[1].do # "function"
    BY <1>3 DEF Resumed, AfterExpression
  <2> QED BY <1>3, <2>1, <2>2 DEF InsertFits
<1>6. Owed(r) = Owed(s)
  <2>1. CASE s[1].do = "expr"
    <3>1. Owed(r) \in Nat
      BY <1>3, OwedIs
    <3> QED BY <1>3, <2>1, <3>1
  <2>2. CASE s[1].do # "expr"
    BY <1>1, <1>2, <1>3, <2>2, OwedIs
  <2> QED BY <2>1, <2>2
<1>7. WithinBounds(g, r, c, x)
  BY <1>1, <1>6 DEF WithinBounds, Extended
<1> QED BY <1>3, <1>4, <1>5, <1>7 DEF Inv, Extended

(* A visit goes on with one item.                                          *)
LEMMA QuietPush ==
  ASSUME NEW f, NEW g, NEW s, s # << >>, NEW d, NEW c, NEW x, Inv(f, s, d, c, x),
         s[1].do \in {"compound", "check", "stmt"}, Extended(f, g), ~InsertTerminated(g),
         NEW a \in Item, a.do \in {"list", "compound", "expr"},
         NEW c2, NEW x2, Spends(c, x, c2, x2, ItemOwes(a)),
         NEW e \in Seq(Item), Single(e, a), NEW r, r = e \o Tail(s)
  PROVE  Inv(g, r, d + InScope(a) - InScope(s[1]), c2, x2)
<1>1. /\ GoodFunction(f) /\ Shaped(s) /\ Waiting(f, s) /\ Closed(f, s)
      /\ InsertFits(f, s) /\ ScopesLeft(s, d) /\ WithinBounds(f, s, c, x)
  BY DEF Inv
<1>2. /\ s[1].do \notin {"end", "function"} /\ s[1].do \notin Owner
      /\ s[1].do \notin {"branch", "expr"}
      /\ a.do \notin {"end", "function", "branch"} /\ a.do \notin Owner
  BY DEF Owner
<1>3. /\ Shaped(r) /\ r # << >> /\ r[1] = a /\ Owed(r) = ItemOwes(a)
      /\ ScopesLeft(r, d + InScope(a) - InScope(s[1]))
  <2>1. s[1].do = "expr" => a.do = "expr"
    BY <1>2
  <2>2. Pushed(s, r, a, InScope(a), PushOwes(s, a))
    BY <1>1, <1>2, <2>1, Pushes
  <2> QED BY <1>1, <1>2, <2>2 DEF ScopesGo, Pushed, PushOwes
<1>4. Waiting(g, r) /\ Closed(g, r)
  <2>1. \A k \in 1..Len(e) : e[k].do \notin Owner
    BY <1>2 DEF Single
  <2> QED BY <1>1, <1>2, <1>3, <2>1, QuietStep
<1>5. InsertFits(g, r)
  <2>1. g.insert \in Members(g.blocks)
    BY <1>1, <1>2 DEF InsertFits, Extended
  <2> QED BY <1>2, <1>3, <2>1 DEF InsertFits
<1>6. WithinBounds(g, r, c2, x2)
  <2>1. Owed(s) = 0
    BY <1>1, <1>2, OwedIs
  <2>2. Owed(r) = ItemOwes(a) /\ Owed(r) \in Nat
    BY <1>3, OwedIs
  <2>3. g.next = f.next
    BY DEF Extended
  <2> QED BY <1>1, <2>1, <2>2, <2>3, BoundsAfter
<1> QED BY <1>3, <1>4, <1>5, <1>6 DEF Inv, Extended

(* A visit goes on with two items.                                         *)
LEMMA QuietPushTwo ==
  ASSUME NEW f, NEW s, s # << >>, NEW d, NEW c, NEW x, Inv(f, s, d, c, x),
         s[1].do \in {"list", "stmt"},
         NEW a \in Item, NEW b \in Item, a.do \in {"stmt", "expr"},
         b.do \in {"check", "ret", "branch"}, Follows(a, b),
         NEW c2, NEW x2, Spends(c, x, c2, x2, PairOwes(a, b)),
         NEW e \in Seq(Item), Pair(e, a, b), NEW r, r = e \o Tail(s)
  PROVE  Inv(f, r, d + PairScopes(a, b) - InScope(s[1]), c2, x2)
<1>1. /\ GoodFunction(f) /\ Shaped(s) /\ Waiting(f, s) /\ Closed(f, s)
      /\ InsertFits(f, s) /\ ScopesLeft(s, d) /\ WithinBounds(f, s, c, x)
  BY DEF Inv
<1>2. /\ s[1].do \notin {"end", "function", "expr"} /\ s[1].do \notin Owner
      /\ s[1].do # "branch"
      /\ a.do \notin {"end", "function", "branch"} /\ a.do \notin Owner
      /\ b.do # "end" /\ b.do \notin Owner
  BY DEF Owner
<1>3. /\ Shaped(r) /\ r # << >> /\ r[1] = a /\ Owed(r) = PairOwes(a, b)
      /\ ScopesLeft(r, d + PairScopes(a, b) - InScope(s[1]))
  <2>1. Pushed(s, r, a, PairScopes(a, b), PairOwes(a, b))
    BY <1>1, <1>2, PushesTwo
  <2> QED BY <1>1, <2>1 DEF ScopesGo, Pushed
<1>4. Waiting(f, r) /\ Closed(f, r)
  <2>1. \A k \in 1..Len(e) : e[k].do \notin Owner
    <3>1. 1..2 = {1, 2}
      OBVIOUS
    <3> QED BY <3>1, <1>2 DEF Pair
  <2>2. Extended(f, f)
    BY <1>1 DEF Extended
  <2> QED BY <1>1, <1>2, <1>3, <2>1, <2>2, QuietStep
<1>5. InsertFits(f, r)
  <2>1. s[1].do \notin Resumed
    BY DEF Resumed
  <2> QED BY <1>1, <1>2, <1>3, <2>1 DEF InsertFits
<1>6. WithinBounds(f, r, c2, x2)
  <2>1. Owed(s) = 0
    BY <1>1, <1>2, OwedIs
  <2>2. Owed(r) = PairOwes(a, b) /\ Owed(r) \in Nat
    BY <1>3, OwedIs
  <2> QED BY <1>1, <2>1, <2>2, BoundsAfter
<1> QED BY <1>1, <1>3, <1>4, <1>5, <1>6 DEF Inv

-----------------------------------------------------------------------------
(* From f to g block a has got edges to T, behind what each block had, and *)
(* nothing else has changed in the graph.                                  *)
Links(f, g, a, T) ==
    /\ \A u \in Block : \A v : Step(g, u, v) <=> Step(f, u, v) \/ (u = a /\ v \in T)
    /\ \A v \in Block : v \in T => g.pre[v] # << >>
    /\ \A v \in Block : f.pre[v] # << >> => g.pre[v] # << >> /\ g.pre[v][1] = f.pre[v][1]
    /\ \A v \in Block : f.pre[v] = << >> /\ g.pre[v] # << >> => v \in T /\ g.pre[v][1] = a

LEMMA BranchLinks ==
  ASSUME NEW f, GoodFunction(f), InsertOpen(f), NEW targets \in Seq(Block),
         NEW g, g = Branch(f, targets, targets)
  PROVE  Links(f, g, f.insert, Members(targets))
<1> DEFINE h == add_instruction(f, "br")
           a == f.insert
           from(b) == [n \in 1..Occurrences(targets, b) |-> a]
<1>1. /\ GoodFunction(h) /\ h.pre = f.pre /\ h.succ = f.succ
      /\ a \in Block /\ f.succ[a] = << >>
  <2>1. "br" \in Kind
    BY DEF Kind
  <2> HIDE DEF h
  <2> QED BY <2>1, AddKeeps DEF h
<1>2. g = [h EXCEPT !.pre = [b \in Block |-> h.pre[b] \o from(b)],
                    !.succ[a] = h.succ[a] \o targets]
  BY DEF Branch
<1> HIDE DEF h
<1>3. h \in FunctionType /\ h.pre \in [Block -> Seq(Block)]
      /\ h.succ \in [Block -> Seq(Block)]
  BY <1>1 DEF GoodFunction, FunctionType
<1>4. /\ g.pre = [b \in Block |-> h.pre[b] \o from(b)]
      /\ g.succ = [h.succ EXCEPT ![a] = h.succ[a] \o targets]
  <2> HIDE DEF from
  <2> QED BY <1>1, <1>2, <1>3 DEF FunctionType
<1>5. Members(f.succ[a] \o targets) = Members(targets) /\ Members(f.succ[a]) = {}
  <2> DEFINE s == f.succ[a]
  <2>1. s \in Seq(Block) /\ Members(s) = {}
    BY <1>1, <1>3, MembersOfEmpty
  <2> HIDE DEF s, a
  <2>2. Members(s \o targets) = Members(s) \cup Members(targets)
    <3>1. s \in Seq(Block)
      BY <2>1
    <3> QED BY <3>1, ConcatMembers
  <2> QED BY <2>1, <2>2 DEF s
<1>6. ASSUME NEW u \in Block, NEW v
      PROVE  Step(g, u, v) <=> Step(f, u, v) \/ (u = a /\ v \in Members(targets))
  <2>1. CASE u = a
    BY <1>1, <1>3, <1>4, <1>5, <2>1 DEF Step
  <2>2. CASE u # a
    <3>1. g.succ[u] = f.succ[u]
      BY <1>1, <1>3, <1>4, <2>2
    <3> QED BY <2>2, <3>1 DEF Step
  <2> QED BY <2>1, <2>2
<1>7. ASSUME NEW v \in Block
      PROVE  /\ v \in Members(targets) => g.pre[v] # << >>
             /\ f.pre[v] # << >> => g.pre[v] # << >> /\ g.pre[v][1] = f.pre[v][1]
             /\ f.pre[v] = << >> /\ g.pre[v] # << >> =>
                  v \in Members(targets) /\ g.pre[v][1] = a
  <2> DEFINE k == Occurrences(targets, v)
             s == f.pre[v]
             t == [n \in 1..k |-> a]
  <2>1. k \in Nat /\ (v \in Members(targets) <=> k > 0)
    BY OccurrencesFinite, OccursIffMember
  <2>2. s \in Seq(Block) /\ g.pre[v] = s \o t
    BY <1>1, <1>3, <1>4
  <2> HIDE DEF k, s, a
  <2>3. t \in Seq(Block) /\ Len(t) = k /\ (k > 0 => t[1] = a)
    BY <1>1, <2>1 DEF a
  <2> HIDE DEF t
  <2>4. /\ Len(s) \in Nat /\ s \o t \in Seq(Block) /\ Len(s \o t) = Len(s) + k
        /\ \A i \in 1..(Len(s) + k) : (s \o t)[i] = IF i <= Len(s) THEN s[i] ELSE t[i - Len(s)]
    BY <2>1, <2>2, <2>3, ConcatElements
  <2>5. s # << >> <=> Len(s) > 0
    BY <2>2, <2>4
  <2>6. s \o t # << >> <=> Len(s) + k > 0
    BY <2>1, <2>4
  <2>7. s # << >> => (s \o t)[1] = s[1]
    <3>1. s # << >> => 1 \in 1..(Len(s) + k) /\ 1 <= Len(s)
      BY <2>1, <2>4, <2>5
    <3> QED BY <2>4, <3>1
  <2>8. s = << >> /\ k > 0 => (s \o t)[1] = a
    <3>1. s = << >> /\ k > 0 => 1 \in 1..(Len(s) + k) /\ ~(1 <= Len(s)) /\ 1 - Len(s) = 1
      BY <2>1, <2>4, <2>5
    <3> QED BY <2>3, <2>4, <3>1
  <2>9. /\ k > 0 => s \o t # << >>
        /\ s # << >> => s \o t # << >>
        /\ s = << >> /\ s \o t # << >> => k > 0
    BY <2>1, <2>4, <2>5, <2>6
  <2> DEFINE st == s \o t
  <2> HIDE DEF st
  <2> QED BY <2>1, <2>2, <2>7, <2>8, <2>9 DEF s, st
<1> QED BY <1>6, <1>7 DEF Links

SameGraph(f, g) == g.pre = f.pre /\ g.succ = f.succ

LEMMA LinksBetween ==
  ASSUME NEW f, NEW g, NEW a, NEW T, NEW f1, NEW g1, SameGraph(f, f1), SameGraph(g1, g),
         Links(f1, g1, a, T)
  PROVE  Links(f, g, a, T)
BY DEF SameGraph, Links, Step

LEMMA NoLinks ==
  ASSUME NEW f, NEW g, SameGraph(f, g), NEW a
  PROVE  Links(f, g, a, {})
BY DEF SameGraph, Links, Step

MayLink(f, g, a, t) ==
    \E T : /\ T \subseteq {t} /\ Links(f, g, a, T)
           /\ ~InsertTerminated(f) => T = {t}

LEMMA JumpLinks ==
  ASSUME NEW f, GoodFunction(f), f.insert \in Members(f.blocks), NEW t \in Block,
         NEW g, g = JumpUnlessTerminated(f, t)
  PROVE  MayLink(f, g, f.insert, t)
<1>1. CASE InsertTerminated(f)
  <2>1. g = f
    BY <1>1 DEF JumpUnlessTerminated
  <2>2. Links(f, g, f.insert, {})
    BY <2>1, NoLinks DEF SameGraph
  <2> QED BY <1>1, <2>2 DEF MayLink
<1>2. CASE ~InsertTerminated(f)
  <2> DEFINE w == <<t>>
  <2>1. g = Branch(f, w, w) /\ InsertOpen(f)
    BY <1>2 DEF JumpUnlessTerminated, create_br, InsertOpen
  <2>2. w \in Seq(Block) /\ Len(w) = 1 /\ w[1] = t /\ 1..1 = {1}
    OBVIOUS
  <2>3. Members(w) = {t}
    <3> HIDE DEF w
    <3> QED BY <2>2 DEF Members
  <2> HIDE DEF w
  <2>4. Links(f, g, f.insert, Members(w))
    BY <2>1, <2>2, BranchLinks
  <2> QED BY <2>3, <2>4 DEF MayLink
<1> QED BY <1>1, <1>2

LEMMA CondBrLinks ==
  ASSUME NEW f, GoodFunction(f), InsertOpen(f), NEW t \in Block, NEW e \in Block,
         NEW g, g = create_cond_br(f, t, e)
  PROVE  Links(f, g, f.insert, {t, e})
<1> DEFINE w == <<t, e>>
<1>1. g = Branch(f, w, w)
  BY DEF create_cond_br
<1>2. w \in Seq(Block) /\ Len(w) = 2 /\ w[1] = t /\ w[2] = e /\ 1..2 = {1, 2}
  OBVIOUS
<1> HIDE DEF w
<1>3. Members(w) = {t, e}
  BY <1>2 DEF Members
<1>4. Links(f, g, f.insert, Members(w))
  BY <1>1, <1>2, BranchLinks
<1> QED BY <1>3, <1>4

-----------------------------------------------------------------------------
(* The steps that end the insert block and go on in another one.  n blocks *)
(* are new, T are the targets of the jumps, and only blocks of D may be    *)
(* erased.                                                                 *)
Grown(f, g, n, D, T) ==
    /\ GoodFunction(g) /\ g.next = f.next + n
    /\ Members(f.blocks) \ D \subseteq Members(g.blocks)
    /\ Members(g.blocks) \subseteq Members(f.blocks) \cup f.next..(f.next + n - 1)
    /\ \A b \in Members(f.blocks) \ {f.insert} : g.code[b] = f.code[b]
    /\ \A b \in Block \ T : f.pre[b] = << >> => g.pre[b] = << >>
    /\ is_terminated(g, f.insert)
    /\ g.insert \in Members(g.blocks)

LEMMA FreshBlocks ==
  ASSUME NEW f, GoodFunction(f), f.insert \in Members(f.blocks),
         NEW n \in 1..3, f.next + n <= MaxBlocks + 1
  PROVE  /\ f.next \in Nat /\ f.blocks # << >>
         /\ \A b \in f.next..(f.next + n - 1) :
              /\ b \in Block /\ b \notin Members(f.blocks) /\ b # 1 /\ b # f.insert
              /\ f.pre[b] = << >> /\ f.code[b] = << >>
<1> USE BoundsTyped
<1>1. /\ f.next \in 1..(MaxBlocks + 1) /\ f.blocks \in Seq(Block)
      /\ Members(f.blocks) \subseteq 1..(f.next - 1)
  BY DEF GoodFunction, FunctionType
<1>2. f.blocks # << >>
  BY MembersOfEmpty
<1>3. 1 \in Members(f.blocks)
  <2>1. f.blocks[1] = 1
    BY <1>2 DEF GoodFunction
  <2>2. 1 \in 1..Len(f.blocks)
    BY <1>1, <1>2
  <2> QED BY <2>1, <2>2 DEF Members
<1>4. ASSUME NEW b \in f.next..(f.next + n - 1)
      PROVE  b \in Block /\ b \notin Members(f.blocks) /\ b # 1 /\ b # f.insert
  <2>1. b \in Nat /\ b >= f.next /\ b <= MaxBlocks /\ f.next > 1
    BY <1>1, <1>3
  <2> QED BY <2>1, <1>1 DEF Block
<1> QED BY <1>1, <1>2, <1>4 DEF GoodFunction, Unused

LEMMA StaysOpen ==
  ASSUME NEW f, GoodFunction(f), NEW b \in Members(f.blocks), f.code[b] = << >>,
         NEW g, g = set_insert_point(f, b)
  PROVE  InsertOpen(g)
<1>1. g.insert = b /\ g.blocks = f.blocks /\ g.code = f.code
  BY InsertKeeps
<1> QED BY <1>1 DEF InsertOpen, InsertTerminated, is_terminated

(* The split of a block at an array access.                                *)
Split(f, g, b1, b2) ==
    /\ Grown(f, g, 2, {}, {b1, b2}) /\ g.insert = b1 /\ ~InsertTerminated(g)
    /\ is_terminated(g, b2) /\ f.next..(f.next + 2 - 1) = {b1, b2}
    /\ b1 \notin Members(f.blocks) /\ b2 \notin Members(f.blocks) /\ b1 # b2
    /\ Members(g.blocks) = Members(f.blocks) \cup {b1, b2}
    /\ Links(f, g, f.insert, {b2, b1})

LEMMA SplitKeeps ==
  ASSUME NEW f, GoodFunction(f), InsertOpen(f), f.next + 2 <= MaxBlocks + 1,
         NEW g, g = SplitForIndex(f)
  PROVE  \E b1, b2 \in Block : Split(f, g, b1, b2)
<1> DEFINE cond == NewBlock(f, 1)
           exc == NewBlock(f, 2)
           f1 == CreateBlocks(f, 2)
           f2 == add_instruction(f1, "op")
           f3 == create_cond_br(f2, exc, cond)
           f4 == set_insert_point(f3, exc)
           f5 == add_instruction(f4, "op")
           f6 == create_ret(f5)
           f7 == set_insert_point(f6, cond)
<1>0. g = add_instruction(f7, "op") /\ f6 = add_instruction(f5, "ret")
  BY DEF SplitForIndex, create_ret
<1>1. /\ f.next \in Nat /\ f.blocks # << >> /\ f.insert \in Members(f.blocks)
      /\ \A b \in f.next..(f.next + 2 - 1) :
              /\ b \in Block /\ b \notin Members(f.blocks) /\ b # 1 /\ b # f.insert
              /\ f.pre[b] = << >> /\ f.code[b] = << >>
  <2>1. 2 \in 1..3 /\ f.insert \in Members(f.blocks)
    BY DEF InsertOpen
  <2> QED BY <2>1, FreshBlocks
<1>2. /\ cond = f.next /\ exc = f.next + 1 /\ f.next..(f.next + 2 - 1) = {cond, exc}
      /\ cond # exc
  BY <1>1 DEF NewBlock
<1>3. /\ cond \in Block \ Members(f.blocks) /\ cond # 1 /\ cond # f.insert
      /\ exc \in Block \ Members(f.blocks) /\ exc # 1 /\ exc # f.insert
      /\ f.code[cond] = << >> /\ f.code[exc] = << >>
  BY <1>1, <1>2
<1>4. /\ GoodFunction(f1) /\ f1.next = f.next + 2 /\ f1.insert = f.insert
      /\ Members(f1.blocks) = Members(f.blocks) \cup {cond, exc}
      /\ f1.pre = f.pre /\ f1.succ = f.succ /\ f1.code = f.code
  <2> DEFINE n == 2
  <2>1. f1 = CreateBlocks(f, n) /\ f.next..(f.next + n - 1) = {cond, exc}
    BY <1>2
  <2>0. MayCreate(f, n)
    BY <1>1 DEF MayCreate
  <2>2. n = 2
    OBVIOUS
  <2> HIDE DEF f1, cond, exc, n
  <2>3. Created(f, f1, n)
    BY <1>1, <2>0, <2>1, CreateKeeps
  <2> QED BY <2>1, <2>2, <2>3 DEF Created
<1>5. InsertOpen(f1)
  BY <1>4 DEF InsertOpen, InsertTerminated, is_terminated
<1>6. "op" \in Kind /\ "ret" \in Kind /\ "br" \in Kind
  BY DEF Kind
<1> HIDE DEF cond, exc, f1
<1>7. /\ GoodFunction(f2) /\ f2.insert = f.insert /\ f2.next = f1.next
      /\ f2.blocks = f1.blocks /\ f2.pre = f.pre /\ f2.succ = f.succ
      /\ \A b \in Block \ {f.insert} : f2.code[b] = f.code[b]
      /\ f.insert \in Block
      /\ ~InsertTerminated(f2)
  <2> HIDE DEF f2
  <2> QED BY <1>4, <1>5, <1>6, AddKeeps DEF f2
<1>8. InsertOpen(f2)
  BY <1>1, <1>4, <1>7 DEF InsertOpen
<1> HIDE DEF f2
<1>9. /\ GoodFunction(f3) /\ f3.insert = f.insert /\ f3.next = f1.next
      /\ f3.blocks = f1.blocks
      /\ \A b \in Block \ {f.insert} : f3.code[b] = f.code[b]
      /\ \A b \in Block \ {exc, cond} : f.pre[b] = << >> => f3.pre[b] = << >>
      /\ InsertTerminated(f3) /\ Links(f2, f3, f.insert, {exc, cond})
  <2>1. exc \in Members(f2.blocks) \ {1} /\ cond \in Members(f2.blocks) \ {1}
    BY <1>3, <1>4, <1>7
  <2> HIDE DEF f3
  <2>2. f3 = create_cond_br(f2, exc, cond)
    BY DEF f3
  <2>3. Jumped(f2, f3, {exc, cond})
    BY <1>7, <1>8, <2>1, <2>2, CondBrKeeps
  <2>4. Links(f2, f3, f.insert, {exc, cond})
    BY <1>3, <1>7, <1>8, <2>2, CondBrLinks
  <2> QED BY <1>7, <2>3, <2>4 DEF Jumped
<1>10. is_terminated(f3, f.insert)
  BY <1>9 DEF InsertTerminated
<1> HIDE DEF f3
<1>11. /\ GoodFunction(f4) /\ f4.insert = exc /\ f4.next = f1.next
       /\ f4.blocks = f1.blocks /\ f4.pre = f3.pre /\ f4.succ = f3.succ /\ f4.code = f3.code
       /\ InsertOpen(f4)
  <2>1. exc \in Members(f3.blocks) /\ f3.code[exc] = << >>
    BY <1>3, <1>4, <1>9
  <2> HIDE DEF f4
  <2>2. f4 = set_insert_point(f3, exc)
    BY DEF f4
  <2> QED BY <1>9, <2>1, <2>2, InsertKeeps, StaysOpen
<1> HIDE DEF f4
<1>12. /\ GoodFunction(f5) /\ f5.insert = exc /\ f5.next = f1.next
       /\ f5.blocks = f1.blocks /\ f5.pre = f3.pre /\ f5.succ = f3.succ
       /\ \A b \in Block \ {exc} : f5.code[b] = f3.code[b]
       /\ ~InsertTerminated(f5)
  <2> HIDE DEF f5
  <2> QED BY <1>6, <1>11, AddKeeps DEF f5
<1>13. InsertOpen(f5)
  BY <1>4, <1>12 DEF InsertOpen
<1> HIDE DEF f5
<1>14. /\ GoodFunction(f6) /\ f6.insert = exc /\ f6.next = f1.next
       /\ f6.blocks = f1.blocks /\ f6.pre = f3.pre /\ f6.succ = f3.succ
       /\ \A b \in Block \ {exc} : f6.code[b] = f3.code[b]
       /\ InsertTerminated(f6)
  <2>1. f6 = add_instruction(f5, "ret") /\ "ret" # "op"
    BY <1>0
  <2> HIDE DEF f6
  <2> QED BY <1>6, <1>12, <1>13, <2>1, AddKeeps
<1> HIDE DEF f6
<1>15. /\ GoodFunction(f7) /\ f7.insert = cond /\ f7.next = f1.next
       /\ f7.blocks = f1.blocks /\ f7.pre = f3.pre /\ f7.succ = f3.succ /\ f7.code = f6.code
       /\ InsertOpen(f7)
  <2>1. cond \in Members(f6.blocks) /\ f6.code[cond] = << >>
    BY <1>2, <1>3, <1>4, <1>9, <1>14
  <2> HIDE DEF f7
  <2>2. f7 = set_insert_point(f6, cond)
    BY DEF f7
  <2> QED BY <1>14, <2>1, <2>2, InsertKeeps, StaysOpen
<1> HIDE DEF f7
<1>16. /\ GoodFunction(g) /\ g.insert = cond /\ g.next = f1.next
       /\ g.blocks = f1.blocks /\ g.pre = f3.pre /\ g.succ = f3.succ
       /\ \A b \in Block \ {cond} : g.code[b] = f6.code[b]
       /\ ~InsertTerminated(g)
  BY <1>0, <1>6, <1>15, AddKeeps
<1>17. \A b \in Block \ {cond, exc} : g.code[b] = f3.code[b]
  BY <1>14, <1>16
<1>18. is_terminated(g, exc)
  <2>1. g.code[exc] = f6.code[exc]
    BY <1>2, <1>3, <1>16
  <2> QED BY <2>1, <1>14 DEF InsertTerminated, is_terminated
<1>19. is_terminated(g, f.insert)
  <2>1. g.code[f.insert] = f3.code[f.insert]
    BY <1>3, <1>7, <1>17
  <2> QED BY <2>1, <1>10 DEF is_terminated
<1>20. \A b \in Members(f.blocks) \ {f.insert} : g.code[b] = f.code[b]
  BY <1>3, <1>9, <1>17, BlocksTyped
<1>21. Grown(f, g, 2, {}, {cond, exc})
  BY <1>2, <1>4, <1>9, <1>16, <1>19, <1>20 DEF Grown
<1>22. Split(f, g, cond, exc)
  <2>1. Links(f, g, f.insert, {exc, cond})
    <3>1. SameGraph(f, f2) /\ SameGraph(f3, g)
      BY <1>7, <1>16 DEF SameGraph
    <3> QED BY <1>9, <3>1, LinksBetween
  <2> QED BY <1>2, <1>3, <1>4, <1>16, <1>18, <1>21, <2>1 DEF Split
<1> QED BY <1>3, <1>22

(* The blocks of an if and of a while.                                     *)
LEMMA CreateThree ==
  ASSUME NEW f, GoodFunction(f), f.insert \in Members(f.blocks),
         f.next + 3 <= MaxBlocks + 1, NEW g, g = CreateBlocks(f, 3),
         NEW b1, b1 = NewBlock(f, 1), NEW b2, b2 = NewBlock(f, 2), NEW b3, b3 = NewBlock(f, 3)
  PROVE  /\ GoodFunction(g) /\ g.next = f.next + 3 /\ g.insert = f.insert
         /\ Members(g.blocks) = Members(f.blocks) \cup {b1, b2, b3}
         /\ f.next..(f.next + 3 - 1) = {b1, b2, b3}
         /\ g.pre = f.pre /\ g.succ = f.succ /\ g.code = f.code
         /\ b1 # b2 /\ b1 # b3 /\ b2 # b3
         /\ \A b \in {b1, b2, b3} :
              /\ b \in Block /\ b \notin Members(f.blocks) /\ b # 1 /\ b # f.insert
              /\ f.pre[b] = << >> /\ f.code[b] = << >>
<1> DEFINE n == 3
<1>1. n \in 1..3 /\ f.next + n <= MaxBlocks + 1 /\ n = 3
  OBVIOUS
<1>2. g = CreateBlocks(f, n)
  OBVIOUS
<1> HIDE DEF n
<1>3. /\ f.next \in Nat /\ f.blocks # << >>
      /\ \A b \in f.next..(f.next + n - 1) :
           /\ b \in Block /\ b \notin Members(f.blocks) /\ b # 1 /\ b # f.insert
           /\ f.pre[b] = << >> /\ f.code[b] = << >>
  BY <1>1, FreshBlocks
<1>4. MayCreate(f, n)
  BY <1>1, <1>3 DEF MayCreate
<1>5. Created(f, g, n)
  BY <1>2, <1>4, CreateKeeps
<1>6. /\ b1 = f.next /\ b2 = f.next + 1 /\ b3 = f.next + 2
      /\ f.next..(f.next + 3 - 1) = {b1, b2, b3}
  BY <1>3 DEF NewBlock
<1>7. f.next..(f.next + n - 1) = {b1, b2, b3}
  BY <1>1, <1>6
<1>8. \A b \in {b1, b2, b3} :
        /\ b \in Block /\ b \notin Members(f.blocks) /\ b # 1 /\ b # f.insert
        /\ f.pre[b] = << >> /\ f.code[b] = << >>
  <2> HIDE DEF n
  <2> QED BY <1>3, <1>7
<1>9. b1 # b2 /\ b1 # b3 /\ b2 # b3
  BY <1>3, <1>6
<1> QED BY <1>1, <1>5, <1>6, <1>7, <1>8, <1>9 DEF Created

Fresh(f, g, b) == /\ b \in Block /\ b \notin Members(f.blocks) /\ b # 1 /\ b # g.insert
                  /\ b \in Members(g.blocks) /\ g.code[b] = << >>

Forked(f, g, b1, b2, b3, t) ==
    /\ Grown(f, g, 3, {}, {b1, t}) /\ g.insert = b1 /\ ~InsertTerminated(g)
    /\ b1 \notin Members(f.blocks) /\ f.next..(f.next + 3 - 1) = {b1, b2, b3}
    /\ b2 # b3 /\ Fresh(f, g, b2) /\ Fresh(f, g, b3)
    /\ t = b3 => g.pre[b2] = << >>
    /\ b1 # b2 /\ b1 # b3 /\ Members(g.blocks) = Members(f.blocks) \cup {b1, b2, b3}
    /\ Links(f, g, f.insert, {b1, t})

LEMMA IfKeeps ==
  ASSUME NEW f, GoodFunction(f), InsertOpen(f), f.next + 3 <= MaxBlocks + 1,
         NEW b1, b1 = NewBlock(f, 1), NEW b2, b2 = NewBlock(f, 2), NEW b3, b3 = NewBlock(f, 3),
         NEW t \in {b2, b3}, NEW f2, f2 = add_instruction(CreateBlocks(f, 3), "op"),
         NEW g, g = set_insert_point(create_cond_br(f2, b1, t), b1)
  PROVE  Forked(f, g, b1, b2, b3, t)
<1> DEFINE f1 == CreateBlocks(f, 3)
           f3 == create_cond_br(f2, b1, t)
<1>1. /\ GoodFunction(f1) /\ f1.next = f.next + 3 /\ f1.insert = f.insert
      /\ Members(f1.blocks) = Members(f.blocks) \cup {b1, b2, b3}
      /\ f.next..(f.next + 3 - 1) = {b1, b2, b3}
      /\ f1.pre = f.pre /\ f1.succ = f.succ /\ f1.code = f.code
      /\ b1 # b2 /\ b1 # b3 /\ b2 # b3
      /\ \A b \in {b1, b2, b3} :
           /\ b \in Block /\ b \notin Members(f.blocks) /\ b # 1 /\ b # f.insert
           /\ f.pre[b] = << >> /\ f.code[b] = << >>
  <2>1. f.insert \in Members(f.blocks)
    BY DEF InsertOpen
  <2> QED BY <2>1, CreateThree
<1>2. InsertOpen(f1)
  BY <1>1 DEF InsertOpen, InsertTerminated, is_terminated
<1>3. "op" \in Kind
  BY DEF Kind
<1>4. f2 = add_instruction(f1, "op")
  OBVIOUS
<1> HIDE DEF f1
<1>5. /\ GoodFunction(f2) /\ f2.insert = f.insert /\ f2.next = f1.next
      /\ f2.blocks = f1.blocks /\ f2.pre = f.pre /\ f2.succ = f.succ /\ f.insert \in Block
      /\ \A b \in Block \ {f.insert} : f2.code[b] = f.code[b]
      /\ ~InsertTerminated(f2)
  BY <1>1, <1>2, <1>3, <1>4, AddKeeps
<1>6. InsertOpen(f2)
  BY <1>1, <1>2, <1>5 DEF InsertOpen
<1>7. Jumped(f2, f3, {b1, t})
  <2>1. b1 \in Members(f2.blocks) \ {1} /\ t \in Members(f2.blocks) \ {1}
    BY <1>1, <1>5
  <2>2. f3 = create_cond_br(f2, b1, t)
    OBVIOUS
  <2> HIDE DEF f3
  <2> QED BY <1>5, <1>6, <2>1, <2>2, CondBrKeeps
<1>15. Links(f2, f3, f.insert, {b1, t})
  <2>1. b1 \in Block /\ t \in Block /\ f3 = create_cond_br(f2, b1, t)
    BY <1>1
  <2> HIDE DEF f3
  <2> QED BY <1>5, <1>6, <2>1, CondBrLinks
<1>8. g = set_insert_point(f3, b1)
  OBVIOUS
<1> HIDE DEF f3
<1>9. /\ GoodFunction(f3) /\ f3.insert = f.insert /\ f3.next = f.next + 3
      /\ f3.blocks = f1.blocks
      /\ \A b \in Block \ {f.insert} : f3.code[b] = f.code[b]
      /\ \A b \in Block \ {b1, t} : f.pre[b] = << >> => f3.pre[b] = << >>
      /\ is_terminated(f3, f.insert)
  BY <1>1, <1>5, <1>7 DEF Jumped, InsertTerminated
<1>10. b1 \in Members(f3.blocks) /\ f3.code[b1] = << >>
  BY <1>1, <1>9
<1>11. /\ GoodFunction(g) /\ g.insert = b1 /\ g.next = f.next + 3 /\ g.blocks = f1.blocks
       /\ g.pre = f3.pre /\ g.succ = f3.succ /\ g.code = f3.code /\ InsertOpen(g)
  BY <1>8, <1>9, <1>10, InsertKeeps, StaysOpen
<1>12. Grown(f, g, 3, {}, {b1, t})
  <2>1. \A b \in Members(f.blocks) \ {f.insert} : g.code[b] = f.code[b]
    BY <1>9, <1>11, BlocksTyped
  <2>2. is_terminated(g, f.insert)
    BY <1>9, <1>11 DEF is_terminated
  <2>3. \A b \in Block \ {b1, t} : f.pre[b] = << >> => g.pre[b] = << >>
    BY <1>9, <1>11
  <2>4. g.insert \in Members(g.blocks)
    BY <1>11 DEF InsertOpen
  <2> QED BY <1>1, <1>11, <2>1, <2>2, <2>3, <2>4 DEF Grown
<1>13. Fresh(f, g, b2) /\ Fresh(f, g, b3)
  BY <1>1, <1>9, <1>11 DEF Fresh
<1>14. t = b3 => g.pre[b2] = << >>
  BY <1>1, <1>9, <1>11
<1>16. Links(f, g, f.insert, {b1, t})
  <2>1. SameGraph(f, f2) /\ SameGraph(f3, g)
    BY <1>5, <1>11 DEF SameGraph
  <2> QED BY <1>15, <2>1, LinksBetween
<1> QED BY <1>1, <1>11, <1>12, <1>13, <1>14, <1>16 DEF InsertOpen, Forked

Looped(f, g, b1, b2, b3) ==
    /\ Grown(f, g, 3, {}, {b1}) /\ g.insert = b1 /\ ~InsertTerminated(g)
    /\ b1 \notin Members(f.blocks) /\ f.next..(f.next + 3 - 1) = {b1, b2, b3}
    /\ b1 # 1 /\ b1 \in Block
    /\ b1 # b2 /\ b1 # b3 /\ b2 # b3 /\ Fresh(f, g, b2) /\ Fresh(f, g, b3)
    /\ Members(g.blocks) = Members(f.blocks) \cup {b1, b2, b3}
    /\ ~InsertTerminated(f) => Links(f, g, f.insert, {b1})

LEMMA WhileKeeps ==
  ASSUME NEW f, GoodFunction(f), f.insert \in Members(f.blocks), f.next + 3 <= MaxBlocks + 1,
         NEW b1, b1 = NewBlock(f, 1), NEW b2, b2 = NewBlock(f, 2), NEW b3, b3 = NewBlock(f, 3),
         NEW g, g = set_insert_point(JumpUnlessTerminated(CreateBlocks(f, 3), b1), b1)
  PROVE  Looped(f, g, b1, b2, b3)
<1> DEFINE f1 == CreateBlocks(f, 3)
           f3 == JumpUnlessTerminated(f1, b1)
<1>1. /\ GoodFunction(f1) /\ f1.next = f.next + 3 /\ f1.insert = f.insert
      /\ Members(f1.blocks) = Members(f.blocks) \cup {b1, b2, b3}
      /\ f.next..(f.next + 3 - 1) = {b1, b2, b3}
      /\ f1.pre = f.pre /\ f1.succ = f.succ /\ f1.code = f.code
      /\ b1 # b2 /\ b1 # b3 /\ b2 # b3
      /\ \A b \in {b1, b2, b3} :
           /\ b \in Block /\ b \notin Members(f.blocks) /\ b # 1 /\ b # f.insert
           /\ f.pre[b] = << >> /\ f.code[b] = << >>
  BY CreateThree
<1>2. g = set_insert_point(f3, b1)
  OBVIOUS
<1>9. MayLink(f1, f3, f.insert, b1)
  <2>1. b1 \in Block /\ f1.insert \in Members(f1.blocks) /\ f3 = JumpUnlessTerminated(f1, b1)
    BY <1>1
  <2> HIDE DEF f1, f3
  <2>2. MayLink(f1, f3, f1.insert, b1)
    BY <1>1, <2>1, JumpLinks
  <2> QED BY <1>1, <2>2
<1>10. InsertTerminated(f1) <=> InsertTerminated(f)
  BY <1>1 DEF InsertTerminated, is_terminated
<1> HIDE DEF f1
<1>3. Jumped(f1, f3, {b1})
  <2>1. b1 \in Members(f1.blocks) \ {1} /\ f1.insert \in Members(f1.blocks)
    BY <1>1
  <2>2. f3 = JumpUnlessTerminated(f1, b1)
    OBVIOUS
  <2> HIDE DEF f3
  <2> QED BY <1>1, <2>1, <2>2, JumpKeeps
<1> HIDE DEF f3
<1>4. /\ GoodFunction(f3) /\ f3.insert = f.insert /\ f3.next = f.next + 3
      /\ f3.blocks = f1.blocks
      /\ \A b \in Block \ {f.insert} : f3.code[b] = f.code[b]
      /\ \A b \in Block \ {b1} : f.pre[b] = << >> => f3.pre[b] = << >>
      /\ is_terminated(f3, f.insert)
  BY <1>1, <1>3 DEF Jumped, InsertTerminated
<1>5. b1 \in Members(f3.blocks) /\ f3.code[b1] = << >>
  BY <1>1, <1>4
<1>6. /\ GoodFunction(g) /\ g.insert = b1 /\ g.next = f.next + 3 /\ g.blocks = f1.blocks
      /\ g.pre = f3.pre /\ g.succ = f3.succ /\ g.code = f3.code /\ InsertOpen(g)
  BY <1>2, <1>4, <1>5, InsertKeeps, StaysOpen
<1>7. Grown(f, g, 3, {}, {b1})
  <2>1. \A b \in Members(f.blocks) \ {f.insert} : g.code[b] = f.code[b]
    BY <1>4, <1>6, BlocksTyped
  <2>2. is_terminated(g, f.insert)
    BY <1>4, <1>6 DEF is_terminated
  <2>3. \A b \in Block \ {b1} : f.pre[b] = << >> => g.pre[b] = << >>
    BY <1>4, <1>6
  <2>4. g.insert \in Members(g.blocks)
    BY <1>6 DEF InsertOpen
  <2> QED BY <1>1, <1>6, <2>1, <2>2, <2>3, <2>4 DEF Grown
<1>8. Fresh(f, g, b2) /\ Fresh(f, g, b3)
  BY <1>1, <1>4, <1>6 DEF Fresh
<1>11. ASSUME ~InsertTerminated(f) PROVE Links(f, g, f.insert, {b1})
  <2>1. Links(f1, f3, f.insert, {b1})
    BY <1>9, <1>10, <1>11 DEF MayLink
  <2>2. SameGraph(f, f1) /\ SameGraph(f3, g)
    BY <1>1, <1>6 DEF SameGraph
  <2> QED BY <2>1, <2>2, LinksBetween
<1> QED BY <1>1, <1>6, <1>7, <1>8, <1>11 DEF InsertOpen, Looped

(* The insert block ends, in a jump to t, and another one is gone on in.   *)
Went(f, g, D, T, b) ==
    /\ Grown(f, g, 0, D, T) /\ g.insert = b
    /\ Members(f.blocks) \subseteq Members(g.blocks)
    /\ f.code[b] = << >> => ~InsertTerminated(g)

LEMMA GoesOn ==
  ASSUME NEW f, NEW h, NEW T, Jumped(f, h, T), GoodFunction(f),
         f.insert \in Members(f.blocks), NEW b \in Members(f.blocks), b # f.insert,
         NEW D, NEW g, g = set_insert_point(h, b)
  PROVE  Went(f, g, D, T, b)
<1>1. /\ GoodFunction(h) /\ h.insert = f.insert /\ h.next = f.next /\ h.blocks = f.blocks
      /\ \A a \in Block \ {f.insert} : h.code[a] = f.code[a]
      /\ \A a \in Block \ T : f.pre[a] = << >> => h.pre[a] = << >>
      /\ is_terminated(h, f.insert)
  BY DEF Jumped, InsertTerminated
<1>2. /\ GoodFunction(g) /\ g.insert = b /\ g.next = f.next /\ g.blocks = f.blocks
      /\ g.pre = h.pre /\ g.code = h.code
  BY <1>1, InsertKeeps
<1>3. f.next \in Nat /\ Members(f.blocks) \subseteq Block
  BY BlocksTyped, BoundsTyped
<1>4. g.next = f.next + 0
  BY <1>2, <1>3
<1>5. \A a \in Members(f.blocks) \ {f.insert} : g.code[a] = f.code[a]
  BY <1>1, <1>2, <1>3
<1>6. is_terminated(g, f.insert)
  BY <1>1, <1>2 DEF is_terminated
<1>7. Grown(f, g, 0, D, T)
  BY <1>1, <1>2, <1>4, <1>5, <1>6 DEF Grown
<1>8. f.code[b] = << >> => ~InsertTerminated(g)
  BY <1>2, <1>5 DEF InsertTerminated, is_terminated
<1> QED BY <1>2, <1>7, <1>8 DEF Went

(* Where such a step may jump: to new blocks, to those the head of the     *)
(* continuation waits for, and to the head of its own loop.                *)
MayTarget(f, s, T) ==
    \A b \in T : \/ b \notin Members(f.blocks) \/ b \in Owns(s[1])
                 \/ s[1].do \in {"loop", "body"} /\ b = s[1].judgeBB

LEMMA TargetsFree ==
  ASSUME NEW f, NEW s \in Seq(Item), s # << >>, Waiting(f, s), NEW T, MayTarget(f, s, T)
  PROVE  \A j \in 2..Len(s) : Owns(s[j]) \cap T = {}
<1>1. ASSUME NEW j \in 2..Len(s), NEW b \in T PROVE b \notin Owns(s[j])
  <2>1. 1 \in 1..Len(s) /\ j \in 1..Len(s) /\ j # 1
    OBVIOUS
  <2>2. /\ Owns(s[1]) \cap Owns(s[j]) = {}
        /\ s[1].do \in {"loop", "body"} => s[1].judgeBB \notin Owns(s[j])
        /\ Owns(s[j]) \subseteq Members(f.blocks)
    BY <2>1 DEF Waiting, Apart, ItemFits
  <2> QED BY <2>2 DEF MayTarget
<1> QED BY <1>1

Ready(g, r) == r[1].do # "function" /\ (r[1].do \notin Resumed => ~InsertTerminated(g))

(* The new blocks and those of the head are used, ended or waited for.     *)
Placed(f, g, s, items) ==
    \A b \in Members(g.blocks) : b \in Owns(s[1]) \/ b \notin Members(f.blocks) =>
        \/ is_terminated(g, b) \/ b = g.insert
        \/ \E k \in 1..Len(items) : b \in Owns(items[k])

(* n new blocks and what is still owed are paid for.                       *)
Pays(f, s, c, x, n, c2, x2, owed) ==
    /\ c2 \in 0..MaxControl /\ x2 \in 0..MaxIndex
    /\ n + 3 * c2 + 2 * x2 + owed <= 3 * c + 2 * x + Owed(s)

(* It goes on in a new block, or in one that the head waited for.          *)
MovesTo(f, g, s) == g.insert \in Owns(s[1]) \/ g.insert \notin Members(f.blocks)

LEMMA GrownStep ==
  ASSUME NEW f, NEW g, NEW s, s # << >>, NEW d, NEW c, NEW x, Inv(f, s, d, c, x),
         NEW n \in Nat, NEW T, Grown(f, g, n, Owns(s[1]), T), MayTarget(f, s, T),
         MovesTo(f, g, s),
         NEW items \in Seq(Item), NEW r, r = items \o Tail(s), Shaped(r), r # << >>,
         Brings(f, g, s, items), Placed(f, g, s, items), Ready(g, r),
         NEW d2, ScopesLeft(r, d2),
         NEW c2, NEW x2, Pays(f, s, c, x, n, c2, x2, Owed(r))
  PROVE  Inv(g, r, d2, c2, x2)
<1>1. /\ GoodFunction(f) /\ Shaped(s) /\ Waiting(f, s) /\ Closed(f, s)
      /\ InsertFits(f, s) /\ ScopesLeft(s, d) /\ WithinBounds(f, s, c, x)
      /\ s \in Seq(Item)
  BY DEF Inv, Shaped
<1>2. /\ GoodFunction(g) /\ g.next = f.next + n
      /\ Members(f.blocks) \ Owns(s[1]) \subseteq Members(g.blocks)
      /\ \A b \in Members(f.blocks) \ {f.insert} : g.code[b] = f.code[b]
      /\ \A b \in Block \ T : f.pre[b] = << >> => g.pre[b] = << >>
      /\ is_terminated(g, f.insert) /\ g.insert \in Members(g.blocks)
  BY DEF Grown
<1>3. Carries(f, g, Owns(s[1]), T)
  BY <1>1, <1>2, BlocksTyped DEF Carries, MovesTo
<1>4. Waiting(g, r)
  <2>1. \A j \in 2..Len(s) : Owns(s[j]) \cap T = {}
    BY <1>1, TargetsFree
  <2> QED BY <1>1, <1>3, <2>1, WaitingContinues
<1>5. Closed(g, r)
  <2>1. Accounted(f, g, s, items)
    <3>1. ASSUME NEW b \in Members(g.blocks)
          PROVE  \/ is_terminated(g, b) \/ b = g.insert
                 \/ \E k \in 1..Len(items) : b \in Owns(items[k])
                 \/ /\ b \in Members(f.blocks) \ Owns(s[1]) /\ b # f.insert
                    /\ g.code[b] = f.code[b]
      <4>1. CASE b \in Owns(s[1]) \/ b \notin Members(f.blocks)
        BY <4>1 DEF Placed
      <4>2. CASE b = f.insert
        BY <4>2, <1>2
      <4>3. CASE b \in Members(f.blocks) \ Owns(s[1]) /\ b # f.insert
        BY <4>3, <1>2
      <4> QED BY <4>1, <4>2, <4>3
    <3> QED BY <3>1 DEF Accounted
  <2> QED BY <1>1, <2>1, ClosedContinues
<1>6. InsertFits(g, r)
  BY <1>2 DEF InsertFits, Ready
<1>7. WithinBounds(g, r, c2, x2)
  <2> DEFINE m == f.next
             o == Owed(r)
             p == Owed(s)
  <2>1. m \in Nat /\ o \in Nat /\ p \in Nat /\ MaxBlocks \in Nat
    <3>1. Owed(r) \in Nat
      BY OwedIs
    <3>2. Owed(s) \in Nat
      BY <1>1, OwedIs
    <3>3. f.next \in Nat /\ MaxBlocks \in Nat
      BY <1>1, BlocksTyped, BoundsTyped
    <3> QED BY <3>1, <3>2, <3>3
  <2>2. /\ c \in Nat /\ x \in Nat /\ c2 \in Nat /\ x2 \in Nat
        /\ c2 \in 0..MaxControl /\ x2 \in 0..MaxIndex
    BY <1>1, BoundsTyped DEF WithinBounds, Pays
  <2>3. /\ m + 3 * c + 2 * x + p <= MaxBlocks + 1
        /\ n + 3 * c2 + 2 * x2 + o <= 3 * c + 2 * x + p
    BY <1>1 DEF WithinBounds, Pays
  <2> HIDE DEF m, o, p
  <2>4. (m + n) + 3 * c2 + 2 * x2 + o <= MaxBlocks + 1
    BY <2>1, <2>2, <2>3
  <2>5. g.next = m + n
    BY <1>2 DEF m
  <2> QED BY <2>2, <2>4, <2>5 DEF WithinBounds, o
<1> QED BY <1>2, <1>4, <1>5, <1>6, <1>7 DEF Inv

(* The rest of an if or a while ends.                                      *)
LEMMA GrownPop ==
  ASSUME NEW f, NEW g, NEW s, s # << >>, NEW d, NEW c, NEW x, Inv(f, s, d, c, x),
         s[1].do \in {"then", "else", "body"}, g.insert \in Owns(s[1]),
         NEW T, Grown(f, g, 0, Owns(s[1]), T), MayTarget(f, s, T),
         \A b \in Owns(s[1]) : b = g.insert \/ b \notin Members(g.blocks),
         NEW r, r = << >> \o Tail(s)
  PROVE  Inv(g, r, d, c, x)
<1>1. /\ GoodFunction(f) /\ Shaped(s) /\ ScopesLeft(s, d) /\ WithinBounds(f, s, c, x)
      /\ s \in Seq(Item)
  BY DEF Inv, Shaped
<1>2. /\ Shaped(r) /\ r # << >> /\ r[1].do \in Resumed /\ Owed(r) = 0
      /\ ScopesLeft(r, d - InScope(s[1]))
  BY <1>1, Pops
<1>3. InScope(s[1]) = 0 /\ Owed(s) = 0
  BY <1>1, OwedIs DEF InScope
<1>4. ScopesLeft(r, d)
  <2>1. d - InScope(s[1]) = d
    <3>1. Occurrences(ScopeItems(s), 1) \in Nat
      BY <1>1, OccurrencesFinite, ScopeItemsTyped
    <3> QED BY <1>1, <1>3, <3>1 DEF ScopesLeft
  <2> QED BY <1>2, <2>1
<1> DEFINE e == << >>
<1>5. e \in Seq(Item) /\ Len(e) = 0 /\ r = e \o Tail(s)
  OBVIOUS
<1> HIDE DEF e
<1>6. Brings(f, g, s, e)
  BY <1>5 DEF Brings, Apart
<1>7. Placed(f, g, s, e)
  <2>1. \A b \in Members(g.blocks) : b \in Members(f.blocks)
    <3>1. f.next \in Nat /\ Members(g.blocks) \subseteq
             Members(f.blocks) \cup f.next..(f.next + 0 - 1)
      BY <1>1, BlocksTyped, BoundsTyped DEF Grown
    <3> QED BY <3>1
  <2> QED BY <2>1 DEF Placed
<1>8. Ready(g, r)
  BY <1>2 DEF Ready, Resumed
<1>9. Pays(f, s, c, x, 0, c, x, Owed(r))
  BY <1>1, <1>2, <1>3, BoundsTyped DEF Pays, WithinBounds
<1>10. 0 \in Nat /\ MovesTo(f, g, s)
  BY DEF MovesTo
<1> QED BY <1>2, <1>4, <1>5, <1>6, <1>7, <1>8, <1>9, <1>10, GrownStep

(* An if or a while goes on with a statement or an expression, and then    *)
(* with an item that waits for blocks.                                     *)
NewOwner(f, g, s, a) ==
    /\ ItemFits(g, a)
    /\ \A b \in Owns(a) : b \in Owns(s[1]) \/ b \notin Members(f.blocks)
    /\ a.do \in {"loop", "body"} =>
         /\ a.judgeBB \notin Owns(a)
         /\ \/ a.judgeBB \notin Members(f.blocks)
            \/ s[1].do = "loop" /\ a.judgeBB = s[1].judgeBB

Covered(f, g, s, a) ==
    \A b \in Members(g.blocks) :
        b \in Owns(s[1]) \/ b \notin Members(f.blocks) => b = g.insert \/ b \in Owns(a)

LEMMA GrownPushTwo ==
  ASSUME NEW f, NEW g, NEW s, s # << >>, NEW d, NEW c, NEW x, Inv(f, s, d, c, x),
         s[1].do \in {"stmt", "branch", "then", "loop"},
         NEW a \in Item, a.do \in {"stmt", "expr"},
         NEW b \in Item, b.do \in Owner, Follows(a, b),
         NEW e \in Seq(Item), Pair(e, a, b), NEW r, r = e \o Tail(s),
         NEW n \in Nat, NEW T, Grown(f, g, n, Owns(s[1]), T), MayTarget(f, s, T),
         MovesTo(f, g, s),
         NewOwner(f, g, s, b), ~InsertTerminated(g),
         Covered(f, g, s, b),
         NEW c2, NEW x2, Pays(f, s, c, x, n, c2, x2, PairOwes(a, b))
  PROVE  Inv(g, r, d, c2, x2)
<1>1. /\ GoodFunction(f) /\ Shaped(s) /\ ScopesLeft(s, d) /\ WithinBounds(f, s, c, x)
      /\ s \in Seq(Item) /\ Waiting(f, s)
  BY DEF Inv, Shaped
<1>2. Pushed(s, r, a, PairScopes(a, b), PairOwes(a, b))
  BY <1>1, PushesTwo DEF Owner
<1>3. /\ Shaped(r) /\ r # << >> /\ r[1] = a /\ Owed(r) = PairOwes(a, b)
      /\ ScopesLeft(r, d + PairScopes(a, b) - InScope(s[1]))
  BY <1>1, <1>2 DEF Pushed, ScopesGo
<1>4. ScopesLeft(r, d)
  <2>1. InScope(s[1]) = 0 /\ InScope(a) = 0 /\ InScope(b) = 0
    BY DEF InScope, Owner
  <2>2. d + PairScopes(a, b) - InScope(s[1]) = d
    <3>1. Occurrences(ScopeItems(s), 1) \in Nat
      BY <1>1, OccurrencesFinite, ScopeItemsTyped
    <3> QED BY <1>1, <2>1, <3>1 DEF ScopesLeft, PairScopes
  <2> QED BY <1>3, <2>2
<1>5. Owns(a) = {} /\ a.do # "then" /\ a.do \notin {"loop", "body"}
  BY OwnsNothing DEF Owner
<1>6. 1..Len(e) = {1, 2} /\ e[1] = a /\ e[2] = b
  BY DEF Pair
<1>7. Brings(f, g, s, e)
  <2>1. ASSUME NEW j \in 2..Len(s), b.do \in {"loop", "body"}
        PROVE  b.judgeBB \notin Owns(s[j])
    <3>1. 1 \in 1..Len(s) /\ j \in 1..Len(s)
      BY <1>1
    <3>2. /\ Owns(s[j]) \subseteq Members(f.blocks)
          /\ s[1].do \in {"loop", "body"} => s[1].judgeBB \notin Owns(s[j])
      BY <1>1, <3>1 DEF Waiting, Apart, ItemFits
    <3> QED BY <2>1, <3>2 DEF NewOwner
  <2>2. Apart(e)
    BY <1>5, <1>6 DEF Apart, NewOwner
  <2>3. ItemFits(g, a)
    BY <1>5 DEF ItemFits
  <2>4. /\ ItemFits(g, b)
        /\ \A y \in Owns(b) : y \in Owns(s[1]) \/ y \notin Members(f.blocks)
    BY DEF NewOwner
  <2> QED BY <1>5, <1>6, <2>1, <2>2, <2>3, <2>4 DEF Brings
<1>8. Placed(f, g, s, e)
  BY <1>6 DEF Placed, Covered
<1>9. Ready(g, r)
  BY <1>3 DEF Ready
<1>10. Pays(f, s, c, x, n, c2, x2, Owed(r))
  BY <1>3
<1> QED BY <1>3, <1>4, <1>7, <1>8, <1>9, <1>10, GrownStep

-----------------------------------------------------------------------------
(* The handlers that create blocks or go on in another one.                *)
LEMMA OneItem ==
  ASSUME NEW a \in Item
  PROVE  <<a>> \in Seq(Item) /\ Single(<<a>>, a)
  BY DEF Single

LEMMA OwesNothing ==
  ASSUME NEW item, item.do # "expr", item.do # "branch"
  PROVE  ItemOwes(item) = 0
  BY DEF ItemOwes

LEMMA TwoItems ==
  ASSUME NEW a \in Item, NEW b \in Item
  PROVE  <<a>> \o <<b>> \in Seq(Item) /\ Pair(<<a>> \o <<b>>, a, b)
<1> DEFINE p == <<a>>
           q == <<b>>
<1>1. p \in Seq(Item) /\ Len(p) = 1 /\ p[1] = a /\ q \in Seq(Item) /\ Len(q) = 1 /\ q[1] = b
  OBVIOUS
<1> HIDE DEF p, q
<1>2. /\ p \o q \in Seq(Item) /\ Len(p \o q) = Len(p) + Len(q)
      /\ \A i \in 1..(Len(p) + Len(q)) :
           (p \o q)[i] = IF i <= Len(p) THEN p[i] ELSE q[i - Len(p)]
  BY <1>1, ConcatElements
<1>3. Pair(p \o q, a, b)
  BY <1>1, <1>2 DEF Pair
<1> QED BY <1>2, <1>3 DEF p, q

LEMMA IndexedStep ==
  ASSUME NEW f, NEW s, s # << >>, NEW d, NEW c, NEW x, Inv(f, s, d, c, x),
         s[1].do = "expr", NEW k \in Nat \ {0}, s[1].n = k,
         NEW g, g = SplitForIndex(f), NEW r, r = Expr(k - 1) \o Tail(s)
  PROVE  Inv(g, r, d, c, x)
<1>1. /\ GoodFunction(f) /\ Shaped(s) /\ ScopesLeft(s, d) /\ WithinBounds(f, s, c, x)
      /\ InsertFits(f, s) /\ s \in Seq(Item) /\ s[1] \in Item
  BY DEF Inv, Shaped
<1> DEFINE a == [do |-> "expr", n |-> k - 1]
           e == <<a>>
<1>2. k \in Nat /\ k > 0
  OBVIOUS
<1>3. a \in Item /\ a.do = "expr" /\ a.n = k - 1
  <2>1. k - 1 \in Nat
    BY <1>2
  <2> QED BY <2>1 DEF Item
<1>4. e \in Seq(Item) /\ Single(e, a)
  <2> HIDE DEF a
  <2> QED BY <1>3, OneItem
<1>5. r = e \o Tail(s)
  BY DEF Expr
<1> HIDE DEF e, a
<1>6. Pushed(s, r, a, InScope(a), PushOwes(s, a))
  BY <1>1, <1>3, <1>4, <1>5, Pushes
<1> DEFINE o == Owed(s)
<1>7. /\ o \in Nat /\ o >= 2 * k
  <2>1. o = 2 * k + IF Len(s) >= 2 /\ s[2].do = "branch" THEN 3 ELSE 0
    BY <1>1, OwedIs
  <2> HIDE DEF o
  <2> QED BY <1>2, <2>1
<1>8. Owed(r) = o - 2 * k + 2 * (k - 1)
  BY <1>3, <1>6 DEF Pushed, PushOwes
<1>9. /\ c \in 0..MaxControl /\ x \in 0..MaxIndex
      /\ f.next + 3 * c + 2 * x + o <= MaxBlocks + 1 /\ f.next \in Nat
      /\ MaxBlocks \in Nat /\ c \in Nat /\ x \in Nat
  BY <1>1, BlocksTyped, BoundsTyped DEF WithinBounds
<1>10. f.next + 2 <= MaxBlocks + 1
  <2> HIDE DEF o
  <2> QED BY <1>2, <1>7, <1>9
<1>11. InsertOpen(f)
  BY <1>1 DEF InsertFits, InsertOpen, Resumed
<1>12. PICK b1 \in Block, b2 \in Block : Split(f, g, b1, b2)
  BY <1>1, <1>10, <1>11, SplitKeeps
<1>13. Owns(s[1]) = {} /\ Owns(a) = {} /\ a.do # "then" /\ a.do \notin {"loop", "body"}
  BY <1>3, OwnsNothing DEF Owner
<1> DEFINE T == {b1, b2}
           n == 2
           q == Owed(r)
<1>14. /\ b1 \notin Members(f.blocks) /\ b2 \notin Members(f.blocks)
       /\ g.insert = b1 /\ ~InsertTerminated(g) /\ is_terminated(g, b2)
       /\ \A b \in Members(g.blocks) : b \notin Members(f.blocks) => b \in {b1, b2}
  BY <1>12 DEF Split, Grown
<1>15. Grown(f, g, n, Owns(s[1]), T) /\ n \in Nat
  BY <1>12, <1>13 DEF Split
<1>16. MayTarget(f, s, T)
  BY <1>14 DEF MayTarget
<1>17. MovesTo(f, g, s)
  BY <1>14 DEF MovesTo
<1>18. Brings(f, g, s, e)
  BY <1>3, <1>4, <1>13 DEF Brings, Apart, ItemFits, Single
<1>19. Placed(f, g, s, e)
  BY <1>13, <1>14 DEF Placed
<1>20. Shaped(r) /\ r # << >> /\ r[1] = a
  BY <1>6 DEF Pushed
<1>21. Ready(g, r)
  BY <1>3, <1>14, <1>20 DEF Ready
<1>22. ScopesLeft(r, d)
  <2>1. InScope(s[1]) = 0 /\ InScope(a) = 0
    BY <1>3 DEF InScope
  <2>2. ScopesLeft(r, d + InScope(a) - InScope(s[1]))
    BY <1>1, <1>6 DEF Pushed, ScopesGo
  <2>3. d + InScope(a) - InScope(s[1]) = d
    <3>1. Occurrences(ScopeItems(s), 1) \in Nat
      BY <1>1, OccurrencesFinite, ScopeItemsTyped
    <3> QED BY <1>1, <2>1, <3>1 DEF ScopesLeft
  <2> QED BY <2>2, <2>3
<1>23. Pays(f, s, c, x, n, c, x, q)
  <2>1. n + 3 * c + 2 * x + q <= 3 * c + 2 * x + o
    <3>1. q = o - 2 * k + 2 * (k - 1) /\ n = 2
      BY <1>8
    <3> HIDE DEF o, n, q
    <3> QED BY <3>1, <1>2, <1>7, <1>9
  <2> QED BY <2>1, <1>9 DEF Pays
<1> HIDE DEF T, n
<1> QED BY <1>4, <1>5, <1>15, <1>16, <1>17, <1>18, <1>19, <1>20, <1>21, <1>22, <1>23, GrownStep

LEMMA BranchIfStep ==
  ASSUME NEW f, NEW s, s # << >>, NEW d, NEW c, NEW x, Inv(f, s, d, c, x),
         s[1].do = "branch",
         NEW b1, b1 = NewBlock(f, 1), NEW b2, b2 = NewBlock(f, 2), NEW b3, b3 = NewBlock(f, 3),
         NEW t \in {b2, b3}, ~s[1].else => t = b3,
         NEW h, h = add_instruction(CreateBlocks(f, 3), "op"),
         NEW g, g = set_insert_point(create_cond_br(h, b1, t), b1),
         NEW b, b = [do |-> "then", else |-> s[1].else, falseBB |-> b2, endBB |-> b3],
         NEW r, r = (Do("stmt") \o <<b>>) \o Tail(s)
  PROVE  Inv(g, r, d, c, x)
<1>1. /\ GoodFunction(f) /\ Shaped(s) /\ WithinBounds(f, s, c, x)
      /\ InsertFits(f, s) /\ s \in Seq(Item) /\ s[1] \in Item
  BY DEF Inv, Shaped
<1>2. InsertOpen(f)
  BY <1>1 DEF InsertFits, InsertOpen, Resumed
<1> DEFINE m == f.next
           o == Owed(s)
<1>3. /\ c \in 0..MaxControl /\ x \in 0..MaxIndex /\ c \in Nat /\ x \in Nat
      /\ m + 3 * c + 2 * x + o <= MaxBlocks + 1 /\ m \in Nat /\ o = 3
      /\ MaxBlocks \in Nat
  BY <1>1, OwedIs, BlocksTyped, BoundsTyped DEF WithinBounds
<1>4. f.next + 3 <= MaxBlocks + 1
  <2>1. m + 3 <= MaxBlocks + 1
    <3> HIDE DEF m, o
    <3> QED BY <1>3
  <2> QED BY <2>1
<1>5. Forked(f, g, b1, b2, b3, t)
  BY <1>1, <1>2, <1>4, IfKeeps
<1>6. /\ Grown(f, g, 3, {}, {b1, t}) /\ g.insert = b1 /\ ~InsertTerminated(g)
      /\ b1 \notin Members(f.blocks) /\ f.next..(f.next + 3 - 1) = {b1, b2, b3}
      /\ b2 # b3 /\ Fresh(f, g, b2) /\ Fresh(f, g, b3)
      /\ t = b3 => g.pre[b2] = << >>
  BY <1>5 DEF Forked
<1>7. b \in Item /\ b.do = "then" /\ b.else = s[1].else /\ b.falseBB = b2 /\ b.endBB = b3
  <2>1. s[1].else \in BOOLEAN
    BY <1>1, ItemFields
  <2>2. b2 \in Block /\ b3 \in Block
    BY <1>6 DEF Fresh
  <2> QED BY <2>1, <2>2 DEF Item
<1> DEFINE a == [do |-> "stmt"]
           e == <<a>> \o <<b>>
           n == 3
           T == {b1, t}
<1>8. a \in Item /\ a.do = "stmt"
  BY PlainItems
<1>9. r = e \o Tail(s)
  BY DEF Do
<1> HIDE DEF a
<1>10. e \in Seq(Item) /\ Pair(e, a, b)
  BY <1>7, <1>8, TwoItems
<1> HIDE DEF e
<1>11. Owns(s[1]) = {} /\ Owns(b) = {b2, b3}
  BY <1>7, OwnsNothing DEF Owns, Owner
<1>12. Grown(f, g, n, Owns(s[1]), T) /\ n \in Nat
  BY <1>6, <1>11
<1>13. MayTarget(f, s, T)
  BY <1>6 DEF MayTarget, Fresh
<1>14. NewOwner(f, g, s, b)
  <2>1. ItemFits(g, b)
    <3>1. ~b.else => t = b3
      BY <1>7
    <3> QED BY <1>6, <1>7, <1>11, <3>1 DEF ItemFits, Fresh
  <2> QED BY <2>1, <1>6, <1>7, <1>11 DEF NewOwner, Fresh
<1>15. Covered(f, g, s, b)
  <2>1. Members(g.blocks) \subseteq Members(f.blocks) \cup f.next..(f.next + 3 - 1)
    BY <1>6 DEF Grown
  <2>2. Members(g.blocks) \subseteq Members(f.blocks) \cup {b1, b2, b3}
    BY <2>1, <1>6
  <2>3. g.insert = b1
    BY <1>6
  <2> QED BY <2>2, <2>3, <1>11 DEF Covered
<1>16. Follows(a, b) /\ b.do \in Owner /\ a.do \in {"stmt", "expr"}
  BY <1>7, <1>8 DEF Follows, Resumed, Owner
<1>17. Pays(f, s, c, x, n, c, x, PairOwes(a, b))
  <2>1. PairOwes(a, b) = 0
    <3>1. ItemOwes(a) = 0
      BY <1>8 DEF ItemOwes
    <3>2. ItemOwes(b) = 0
      <4>1. PICK k : k = b.do
        OBVIOUS
      <4>2. k # "expr" /\ k # "branch"
        BY <1>7, <4>1
      <4> QED BY <4>1, <4>2, OwesNothing
    <3> QED BY <3>1, <3>2 DEF PairOwes
  <2> QED BY <2>1, <1>3 DEF Pays
<1>18. MovesTo(f, g, s)
  BY <1>6 DEF MovesTo
<1> HIDE DEF n, T, e
<1>19. PICK p : p = b
  OBVIOUS
<1>20. /\ p \in Item /\ p.do \in Owner /\ Follows(a, p) /\ Pair(e, a, p) /\ NewOwner(f, g, s, p)
       /\ Covered(f, g, s, p) /\ Pays(f, s, c, x, n, c, x, PairOwes(a, p))
  BY <1>7, <1>10, <1>14, <1>15, <1>16, <1>17, <1>19
<1>21. a \in Item /\ a.do \in {"stmt", "expr"} /\ s[1].do \in {"stmt", "branch", "then", "loop"}
  BY <1>8
<1> QED BY <1>6, <1>9, <1>10, <1>12, <1>13, <1>18, <1>20, <1>21, GrownPushTwo

LEMMA IterationStep ==
  ASSUME NEW f, NEW s, s # << >>, NEW d, NEW c, NEW x, Inv(f, s, d, c, x),
         s[1].do = "stmt", NEW k \in Nat, NEW c2, NEW x2, c = c2 + 1, x = x2 + k,
         c2 \in 0..MaxControl, x2 \in 0..MaxIndex,
         NEW b1, b1 = NewBlock(f, 1), NEW b2, b2 = NewBlock(f, 2), NEW b3, b3 = NewBlock(f, 3),
         NEW g, g = set_insert_point(JumpUnlessTerminated(CreateBlocks(f, 3), b1), b1),
         NEW b, b = [do |-> "loop", judgeBB |-> b1, stmtBB |-> b2, endBB |-> b3],
         NEW r, r = (Expr(k) \o <<b>>) \o Tail(s)
  PROVE  Inv(g, r, d, c2, x2)
<1>1. /\ GoodFunction(f) /\ Shaped(s) /\ WithinBounds(f, s, c, x)
      /\ InsertFits(f, s) /\ s \in Seq(Item)
  BY DEF Inv, Shaped
<1>2. f.insert \in Members(f.blocks)
  BY <1>1 DEF InsertFits
<1> DEFINE m == f.next
           o == Owed(s)
<1>3. /\ m + 3 * c + 2 * x + o <= MaxBlocks + 1 /\ m \in Nat /\ o = 0
      /\ MaxBlocks \in Nat /\ c2 \in Nat /\ x2 \in Nat
  <2>1. m + 3 * c + 2 * x + o <= MaxBlocks + 1
    BY <1>1 DEF WithinBounds
  <2>2. o = 0
    BY <1>1, OwedIs
  <2>3. m \in Nat
    BY <1>1, BlocksTyped, BoundsTyped
  <2>4. MaxBlocks \in Nat /\ c2 \in Nat /\ x2 \in Nat
    BY BoundsTyped
  <2> QED BY <2>1, <2>2, <2>3, <2>4
<1>4. f.next + 3 <= MaxBlocks + 1
  <2>1. m + 3 <= MaxBlocks + 1
    <3> HIDE DEF m, o
    <3> QED BY <1>3
  <2> QED BY <2>1
<1>5. Looped(f, g, b1, b2, b3)
  BY <1>1, <1>2, <1>4, WhileKeeps
<1>6. /\ Grown(f, g, 3, {}, {b1}) /\ g.insert = b1 /\ ~InsertTerminated(g)
      /\ b1 \notin Members(f.blocks) /\ f.next..(f.next + 3 - 1) = {b1, b2, b3}
      /\ b1 # 1 /\ b1 \in Block
      /\ b1 # b2 /\ b1 # b3 /\ b2 # b3 /\ Fresh(f, g, b2) /\ Fresh(f, g, b3)
  BY <1>5 DEF Looped
<1>7. b \in Item /\ b.do = "loop" /\ b.judgeBB = b1 /\ b.stmtBB = b2 /\ b.endBB = b3
  <2>1. b2 \in Block /\ b3 \in Block
    BY <1>6 DEF Fresh
  <2> QED BY <2>1, <1>6 DEF Item
<1> DEFINE a == [do |-> "expr", n |-> k]
           e == <<a>> \o <<b>>
           n == 3
           T == {b1}
<1>8. a \in Item /\ a.do = "expr" /\ a.n = k
  BY DEF Item
<1>9. r = e \o Tail(s)
  BY DEF Expr
<1> HIDE DEF a
<1>10. e \in Seq(Item) /\ Pair(e, a, b)
  BY <1>7, <1>8, TwoItems
<1> HIDE DEF e
<1>11. Owns(s[1]) = {} /\ Owns(b) = {b2, b3}
  BY <1>7, OwnsNothing DEF Owns, Owner
<1>12. Grown(f, g, n, Owns(s[1]), T) /\ n \in Nat
  BY <1>6, <1>11
<1>13. MayTarget(f, s, T)
  BY <1>6 DEF MayTarget
<1>14. NewOwner(f, g, s, b)
  <2>1. ItemFits(g, b)
    <3>1. b1 \in Members(g.blocks) \ {1}
      BY <1>6 DEF Grown
    <3> QED BY <1>6, <1>7, <1>11, <3>1 DEF ItemFits, Fresh
  <2> QED BY <2>1, <1>6, <1>7, <1>11 DEF NewOwner, Fresh
<1>15. Covered(f, g, s, b)
  <2>1. Members(g.blocks) \subseteq Members(f.blocks) \cup {b1, b2, b3}
    BY <1>6 DEF Grown
  <2> QED BY <2>1, <1>6, <1>11 DEF Covered
<1>16. Follows(a, b) /\ b.do \in Owner /\ a.do \in {"stmt", "expr"}
  BY <1>7, <1>8 DEF Follows, AfterExpression, Owner
<1>17. Pays(f, s, c, x, n, c2, x2, PairOwes(a, b))
  <2>1. PairOwes(a, b) = 2 * k
    <3>1. ItemOwes(a) = 2 * k /\ ItemOwes(b) = 0
      BY <1>7, <1>8 DEF ItemOwes
    <3> QED BY <3>1 DEF PairOwes
  <2>2. n + 3 * c2 + 2 * x2 + 2 * k <= 3 * c + 2 * x + o
    <3>1. n = 3
      OBVIOUS
    <3> HIDE DEF n, o
    <3> QED BY <3>1, <1>3
  <2> QED BY <2>1, <2>2 DEF Pays
<1>18. MovesTo(f, g, s)
  BY <1>6 DEF MovesTo
<1> HIDE DEF n, T
<1> QED BY <1>6, <1>7, <1>8, <1>9, <1>10, <1>12, <1>13, <1>14, <1>15, <1>16, <1>17, <1>18,
           GrownPushTwo

(* What the head of the continuation waits for.                            *)
LEMMA HeadFits ==
  ASSUME NEW f, NEW s, s # << >>, NEW d, NEW c, NEW x, Inv(f, s, d, c, x),
         s[1].do \in Owner
  PROVE  /\ GoodFunction(f) /\ Shaped(s) /\ s[1] \in Item
         /\ f.insert \in Members(f.blocks)
         /\ s[1].do \notin Resumed => InsertOpen(f)
         /\ \A b \in Owns(s[1]) :
              b \in Members(f.blocks) \ {1} /\ b # f.insert /\ f.code[b] = << >>
         /\ s[1].do = "then" => /\ s[1].falseBB # s[1].endBB
                                /\ ~s[1].else => f.pre[s[1].falseBB] = << >>
         /\ s[1].do = "loop" => s[1].stmtBB # s[1].endBB
         /\ s[1].do \in {"loop", "body"} =>
              s[1].judgeBB \in Members(f.blocks) \ {1} /\ s[1].judgeBB \notin Owns(s[1])
<1>1. /\ GoodFunction(f) /\ Shaped(s) /\ Waiting(f, s) /\ InsertFits(f, s)
      /\ s \in Seq(Item)
  BY DEF Inv, Shaped
<1>2. 1 \in 1..Len(s)
  BY <1>1
<1>3. ItemFits(f, s[1]) /\ (s[1].do \in {"loop", "body"} => s[1].judgeBB \notin Owns(s[1]))
  BY <1>1, <1>2 DEF Waiting, Apart
<1>4. f.insert \in Members(f.blocks) /\ (s[1].do \notin Resumed => InsertOpen(f))
  BY <1>1 DEF InsertFits, InsertOpen, Owner
<1> QED BY <1>1, <1>3, <1>4 DEF ItemFits

LEMMA BranchLoopStep ==
  ASSUME NEW f, NEW s, s # << >>, NEW d, NEW c, NEW x, Inv(f, s, d, c, x),
         s[1].do = "loop",
         NEW h, h = create_cond_br(add_instruction(f, "op"), s[1].stmtBB, s[1].endBB),
         NEW g, g = set_insert_point(h, s[1].stmtBB),
         NEW b, b = [s[1] EXCEPT !.do = "body"],
         NEW r, r = (Do("stmt") \o <<b>>) \o Tail(s)
  PROVE  Inv(g, r, d, c, x)
<1> DEFINE i == s[1].stmtBB
           j == s[1].endBB
<1>1. /\ GoodFunction(f) /\ Shaped(s) /\ s[1] \in Item /\ InsertOpen(f)
      /\ f.insert \in Members(f.blocks)
      /\ \A y \in Owns(s[1]) :
           y \in Members(f.blocks) \ {1} /\ y # f.insert /\ f.code[y] = << >>
      /\ i # j
      /\ s[1].judgeBB \in Members(f.blocks) \ {1} /\ s[1].judgeBB \notin Owns(s[1])
  BY HeadFits DEF Owner, Resumed
<1>2. Owns(s[1]) = {i, j}
  BY DEF Owns
<1>3. WithinBounds(f, s, c, x) /\ Owed(s) = 0
  BY <1>1, OwedIs DEF Inv
<1>4. /\ b \in Item /\ b.do = "body" /\ b.judgeBB = s[1].judgeBB /\ b.endBB = j
  BY <1>1 DEF Item
<1>5. i \in Block /\ j \in Block
  BY <1>1, <1>2, BlocksTyped
<1> DEFINE f2 == add_instruction(f, "op")
<1>6. /\ GoodFunction(f2) /\ f2.insert = f.insert /\ f2.next = f.next
      /\ f2.blocks = f.blocks /\ f2.pre = f.pre
      /\ \A y \in Block \ {f.insert} : f2.code[y] = f.code[y]
      /\ ~InsertTerminated(f2)
  <2>1. "op" \in Kind
    BY DEF Kind
  <2>2. f2 = add_instruction(f, "op")
    OBVIOUS
  <2> HIDE DEF f2
  <2> QED BY <1>1, <2>1, <2>2, AddKeeps
<1>7. InsertOpen(f2)
  BY <1>1, <1>6 DEF InsertOpen
<1>8. h = create_cond_br(f2, i, j) /\ g = set_insert_point(h, i)
  OBVIOUS
<1> HIDE DEF f2, i, j
<1>9. Jumped(f2, h, {i, j})
  <2>1. i \in Members(f2.blocks) \ {1} /\ j \in Members(f2.blocks) \ {1}
    BY <1>1, <1>2, <1>6
  <2> QED BY <1>6, <1>7, <1>8, <2>1, CondBrKeeps
<1> DEFINE T == {i, j}
           D == Owns(s[1])
<1>10. Jumped(f, h, T)
  BY <1>6, <1>9 DEF Jumped
<1>11. /\ Grown(f, g, 0, D, T) /\ g.insert = i
       /\ Members(f.blocks) \subseteq Members(g.blocks)
       /\ f.code[i] = << >> => ~InsertTerminated(g)
  <2>1. i \in Members(f.blocks) /\ i # f.insert
    BY <1>1, <1>2
  <2> HIDE DEF D, T
  <2>2. Went(f, g, D, T, i)
    BY <1>1, <1>8, <1>10, <2>1, GoesOn
  <2> QED BY <2>2 DEF Went
<1>12. ~InsertTerminated(g)
  BY <1>1, <1>2, <1>11
<1>13. MayTarget(f, s, T) /\ MovesTo(f, g, s)
  BY <1>2, <1>11 DEF MayTarget, MovesTo
<1>14. Owns(b) = {j}
  BY <1>4 DEF Owns
<1>15. NewOwner(f, g, s, b)
  <2>1. j \in Members(g.blocks) \ {1} /\ j # g.insert /\ g.code[j] = << >>
    BY <1>1, <1>2, <1>11 DEF Grown
  <2>2. s[1].judgeBB \in Members(g.blocks) \ {1}
    BY <1>1, <1>11 DEF Grown
  <2> QED BY <1>1, <1>2, <1>4, <1>14, <2>1, <2>2 DEF NewOwner, ItemFits
<1>16. Covered(f, g, s, b)
  <2>1. Members(g.blocks) \subseteq Members(f.blocks)
    <3>1. f.next \in Nat /\ Members(g.blocks) \subseteq
             Members(f.blocks) \cup f.next..(f.next + 0 - 1)
      BY <1>1, <1>11, BlocksTyped, BoundsTyped DEF Grown
    <3> QED BY <3>1
  <2> QED BY <2>1, <1>2, <1>11, <1>14 DEF Covered
<1> DEFINE a == [do |-> "stmt"]
           e == <<a>> \o <<b>>
<1>17. a \in Item /\ a.do = "stmt"
  BY PlainItems
<1>18. r = e \o Tail(s)
  BY DEF Do
<1> HIDE DEF a
<1>19. e \in Seq(Item) /\ Pair(e, a, b)
  BY <1>4, <1>17, TwoItems
<1> HIDE DEF e
<1>20. Follows(a, b) /\ b.do \in Owner /\ a.do \in {"stmt", "expr"}
  BY <1>4, <1>17 DEF Follows, Resumed, Owner
<1>21. Pays(f, s, c, x, 0, c, x, PairOwes(a, b))
  <2>1. PairOwes(a, b) = 0
    BY <1>4, <1>17 DEF PairOwes, ItemOwes
  <2> QED BY <2>1, <1>3, BoundsTyped DEF Pays, WithinBounds
<1>22. 0 \in Nat
  OBVIOUS
<1> HIDE DEF T
<1> QED BY <1>4, <1>11, <1>12, <1>13, <1>15, <1>16, <1>17, <1>18, <1>19, <1>20, <1>21, <1>22,
           GrownPushTwo

LEMMA ThenElseStep ==
  ASSUME NEW f, NEW s, s # << >>, NEW d, NEW c, NEW x, Inv(f, s, d, c, x),
         s[1].do = "then", s[1].else,
         NEW h, h = JumpUnlessTerminated(f, s[1].endBB),
         NEW g, g = set_insert_point(h, s[1].falseBB),
         NEW b, b = [do |-> "else", endBB |-> s[1].endBB],
         NEW r, r = (Do("stmt") \o <<b>>) \o Tail(s)
  PROVE  Inv(g, r, d, c, x)
<1> DEFINE i == s[1].falseBB
           j == s[1].endBB
<1>1. /\ GoodFunction(f) /\ Shaped(s) /\ s[1] \in Item
      /\ f.insert \in Members(f.blocks)
      /\ \A y \in Owns(s[1]) :
           y \in Members(f.blocks) \ {1} /\ y # f.insert /\ f.code[y] = << >>
      /\ i # j
  BY HeadFits DEF Owner
<1>2. Owns(s[1]) = {i, j}
  BY DEF Owns
<1>3. WithinBounds(f, s, c, x) /\ Owed(s) = 0
  BY <1>1, OwedIs DEF Inv
<1>4. i \in Block /\ j \in Block
  BY <1>1, <1>2, BlocksTyped
<1>5. b \in Item /\ b.do = "else" /\ b.endBB = j
  BY <1>4 DEF Item
<1>6. h = JumpUnlessTerminated(f, j) /\ g = set_insert_point(h, i)
  OBVIOUS
<1> HIDE DEF i, j
<1> DEFINE T == {j}
           D == Owns(s[1])
<1>7. Jumped(f, h, T)
  BY <1>1, <1>2, <1>6, JumpKeeps
<1>8. Went(f, g, D, T, i)
  <2>1. i \in Members(f.blocks) /\ i # f.insert
    BY <1>1, <1>2
  <2> HIDE DEF D, T
  <2> QED BY <1>1, <1>6, <1>7, <2>1, GoesOn
<1>9. /\ Grown(f, g, 0, D, T) /\ g.insert = i
      /\ Members(f.blocks) \subseteq Members(g.blocks) /\ ~InsertTerminated(g)
  BY <1>1, <1>2, <1>8 DEF Went
<1>10. MayTarget(f, s, T) /\ MovesTo(f, g, s)
  BY <1>2, <1>9 DEF MayTarget, MovesTo
<1>11. Owns(b) = {j}
  BY <1>5 DEF Owns
<1>12. NewOwner(f, g, s, b)
  <2>1. j \in Members(g.blocks) \ {1} /\ j # g.insert /\ g.code[j] = << >>
    BY <1>1, <1>2, <1>9 DEF Grown
  <2> QED BY <1>1, <1>2, <1>5, <1>11, <2>1 DEF NewOwner, ItemFits
<1>13. Covered(f, g, s, b)
  <2>1. Members(g.blocks) \subseteq Members(f.blocks)
    <3>1. f.next \in Nat /\ Members(g.blocks) \subseteq
             Members(f.blocks) \cup f.next..(f.next + 0 - 1)
      BY <1>1, <1>9, BlocksTyped, BoundsTyped DEF Grown
    <3> QED BY <3>1
  <2> QED BY <2>1, <1>2, <1>9, <1>11 DEF Covered
<1> DEFINE a == [do |-> "stmt"]
           e == <<a>> \o <<b>>
<1>14. a \in Item /\ a.do = "stmt"
  BY PlainItems
<1>15. r = e \o Tail(s)
  BY DEF Do
<1> HIDE DEF a
<1>16. e \in Seq(Item) /\ Pair(e, a, b)
  BY <1>5, <1>14, TwoItems
<1> HIDE DEF e
<1>17. Follows(a, b) /\ b.do \in Owner /\ a.do \in {"stmt", "expr"}
  BY <1>5, <1>14 DEF Follows, Resumed, Owner
<1>18. Pays(f, s, c, x, 0, c, x, PairOwes(a, b))
  <2>1. PairOwes(a, b) = 0
    BY <1>5, <1>14 DEF PairOwes, ItemOwes
  <2> QED BY <2>1, <1>3, BoundsTyped DEF Pays, WithinBounds
<1>19. 0 \in Nat
  OBVIOUS
<1> HIDE DEF T
<1> QED BY <1>5, <1>9, <1>10, <1>12, <1>13, <1>14, <1>15, <1>16, <1>17, <1>18, <1>19,
           GrownPushTwo

(* The end block of an else, of a while.                                   *)
LEMMA GoOnAtEnd ==
  ASSUME NEW f, NEW s, s # << >>, NEW d, NEW c, NEW x, Inv(f, s, d, c, x),
         s[1].do \in {"else", "body"},
         NEW t, t = IF s[1].do = "else" THEN s[1].endBB ELSE s[1].judgeBB,
         NEW h, h = JumpUnlessTerminated(f, t),
         NEW g, g = set_insert_point(h, s[1].endBB), NEW r, r = << >> \o Tail(s)
  PROVE  Inv(g, r, d, c, x)
<1> DEFINE j == s[1].endBB
           D == Owns(s[1])
           T == {t}
<1>1. /\ GoodFunction(f) /\ Shaped(s) /\ s[1] \in Item
      /\ f.insert \in Members(f.blocks)
      /\ \A y \in Owns(s[1]) :
           y \in Members(f.blocks) \ {1} /\ y # f.insert /\ f.code[y] = << >>
      /\ s[1].do \in {"loop", "body"} => s[1].judgeBB \in Members(f.blocks) \ {1}
  BY HeadFits DEF Owner
<1>2. Owns(s[1]) = {j}
  BY DEF Owns
<1>3. t \in Members(f.blocks) \ {1}
  BY <1>1, <1>2
<1>4. g = set_insert_point(h, j)
  OBVIOUS
<1>5. MayTarget(f, s, T)
  BY <1>2 DEF MayTarget
<1> HIDE DEF j
<1>6. Jumped(f, h, T)
  BY <1>1, <1>3, JumpKeeps
<1>7. Went(f, g, D, T, j)
  <2>1. j \in Members(f.blocks) /\ j # f.insert
    BY <1>1, <1>2
  <2> HIDE DEF D, T
  <2> QED BY <1>1, <1>4, <1>6, <2>1, GoesOn
<1>8. Grown(f, g, 0, D, T) /\ g.insert = j
  BY <1>7 DEF Went
<1>9. \A b \in Owns(s[1]) : b = g.insert \/ b \notin Members(g.blocks)
  BY <1>2, <1>8
<1>10. g.insert \in Owns(s[1]) /\ s[1].do \in {"then", "else", "body"}
  BY <1>2, <1>8
<1> HIDE DEF T
<1> QED BY <1>5, <1>8, <1>9, <1>10, GrownPop

(* An if without an else: the block of the else is erased.                 *)
LEMMA ThenStep ==
  ASSUME NEW f, NEW s, s # << >>, NEW d, NEW c, NEW x, Inv(f, s, d, c, x),
         s[1].do = "then", ~s[1].else,
         NEW h, h = JumpUnlessTerminated(f, s[1].endBB),
         NEW g, g = set_insert_point(remove(h, s[1].falseBB), s[1].endBB),
         NEW r, r = << >> \o Tail(s)
  PROVE  Inv(g, r, d, c, x)
<1> DEFINE i == s[1].falseBB
           j == s[1].endBB
           D == Owns(s[1])
           T == {j}
           h2 == remove(h, i)
<1>1. /\ GoodFunction(f) /\ Shaped(s) /\ s[1] \in Item
      /\ f.insert \in Members(f.blocks)
      /\ \A y \in Owns(s[1]) :
           y \in Members(f.blocks) \ {1} /\ y # f.insert /\ f.code[y] = << >>
      /\ i # j /\ f.pre[i] = << >>
  BY HeadFits DEF Owner
<1>2. Owns(s[1]) = {i, j}
  BY DEF Owns
<1>3. i \in Block /\ j \in Block
  BY <1>1, <1>2, BlocksTyped
<1>4. h = JumpUnlessTerminated(f, j) /\ h2 = remove(h, i) /\ g = set_insert_point(h2, j)
  OBVIOUS
<1> HIDE DEF i, j, h2
<1>5. Jumped(f, h, T)
  BY <1>1, <1>2, <1>4, JumpKeeps
<1>6. /\ GoodFunction(h) /\ h.insert = f.insert /\ h.next = f.next /\ h.blocks = f.blocks
      /\ \A y \in Block \ {f.insert} : h.code[y] = f.code[y]
      /\ \A y \in Block \ T : f.pre[y] = << >> => h.pre[y] = << >>
      /\ is_terminated(h, f.insert)
  BY <1>5 DEF Jumped, InsertTerminated
<1>7. /\ GoodFunction(h2) /\ h2.insert = f.insert /\ h2.next = f.next
      /\ Members(h2.blocks) = Members(f.blocks) \ {i}
      /\ h2.pre = h.pre /\ h2.code = h.code
  <2>1. i \in Members(h.blocks) \ {1} /\ i # h.insert /\ h.code[i] = << >> /\ h.pre[i] = << >>
    BY <1>1, <1>2, <1>3, <1>6
  <2> QED BY <1>4, <1>6, <2>1, RemoveKeeps
<1>8. /\ GoodFunction(g) /\ g.insert = j /\ g.next = f.next
      /\ Members(g.blocks) = Members(f.blocks) \ {i}
      /\ g.pre = h.pre /\ g.code = h.code
  <2>1. j \in Members(h2.blocks)
    BY <1>1, <1>2, <1>7
  <2> QED BY <1>4, <1>7, <2>1, InsertKeeps
<1>9. Grown(f, g, 0, D, T)
  <2>1. f.next \in Nat /\ g.next = f.next + 0
    BY <1>1, <1>8, BlocksTyped, BoundsTyped
  <2>2. \A y \in Members(f.blocks) \ {f.insert} : g.code[y] = f.code[y]
    BY <1>1, <1>6, <1>8, BlocksTyped
  <2>3. is_terminated(g, f.insert)
    BY <1>6, <1>8 DEF is_terminated
  <2>4. j \in Members(g.blocks)
    BY <1>1, <1>2, <1>8
  <2>5. /\ Members(f.blocks) \ D \subseteq Members(g.blocks)
        /\ Members(g.blocks) \subseteq Members(f.blocks) \cup f.next..(f.next + 0 - 1)
    BY <1>2, <1>8
  <2>6. \A y \in Block \ T : f.pre[y] = << >> => g.pre[y] = << >>
    BY <1>6, <1>8
  <2> QED BY <1>8, <2>1, <2>2, <2>3, <2>4, <2>5, <2>6 DEF Grown
<1>10. \A b \in Owns(s[1]) : b = g.insert \/ b \notin Members(g.blocks)
  BY <1>2, <1>8
<1>11. g.insert \in Owns(s[1]) /\ s[1].do \in {"then", "else", "body"}
  BY <1>2, <1>8
<1>12. MayTarget(f, s, T)
  BY <1>2 DEF MayTarget
<1> HIDE DEF T
<1> QED BY <1>9, <1>10, <1>11, <1>12, GrownPop

-----------------------------------------------------------------------------
(* The first step, the last one, and the start.                            *)
LEMMA AloneItem ==
  ASSUME NEW s, Shaped(s), s # << >>, s[1].do \in {"function", "end"}
  PROVE  Len(s) = 1 /\ s \in Seq(Item) /\ Tail(s) = << >> /\ s = <<s[1]>>
<1>1. s \in Seq(Item) /\ Len(s) \in Nat /\ Len(s) # 0
  BY DEF Shaped
<1>2. Len(s) = 1
  <2>1. 1 \in 1..Len(s)
    BY <1>1
  <2> QED BY <2>1 DEF Shaped
<1> DEFINE t == Tail(s)
           v == <<s[1]>>
<1>3. t \in Seq(Item) /\ Len(t) = 0
  BY <1>1, <1>2
<1>4. v \in Seq(Item) /\ Len(v) = 1 /\ v[1] = s[1]
  <2>1. s[1] \in Item
    BY <1>1, <1>2
  <2> QED BY <2>1
<1> HIDE DEF t, v
<1>5. t = << >>
  BY <1>3
<1>6. s = v
  <2>1. Len(v) = Len(s) /\ \A i \in 1..Len(s) : s[i] = v[i]
    BY <1>2, <1>4
  <2> QED BY <1>1, <1>4, <2>1
<1> QED BY <1>1, <1>2, <1>5, <1>6 DEF t, v

LEMMA FunctionStep ==
  ASSUME NEW f, NEW s, s # << >>, NEW d, NEW c, NEW x, Inv(f, s, d, c, x),
         s[1].do = "function",
         NEW g, g = add_instruction(
                        set_insert_point(CreateBlocks(f, 1), NewBlock(f, 1)), "op"),
         NEW r, r = (Do("compound") \o Do("end")) \o Tail(s)
  PROVE  Inv(g, r, d + 1, c, x)
<1>1. /\ GoodFunction(f) /\ Shaped(s) /\ ScopesLeft(s, d) /\ WithinBounds(f, s, c, x)
      /\ f = EmptyFunction
  BY DEF Inv, InsertFits
<1>2. Len(s) = 1 /\ s \in Seq(Item) /\ Tail(s) = << >> /\ s = <<s[1]>>
  BY <1>1, AloneItem
<1>3. f.next = 1 /\ f.blocks = << >> /\ \A b \in Block : f.code[b] = << >>
  BY <1>1 DEF EmptyFunction
<1> DEFINE o == Owed(s)
<1>4. /\ c \in 0..MaxControl /\ x \in 0..MaxIndex /\ c \in Nat /\ x \in Nat
      /\ 1 + 3 * c + 2 * x + o <= MaxBlocks + 1 /\ o = 1 /\ MaxBlocks \in Nat
  BY <1>1, <1>3, OwedIs, BoundsTyped DEF WithinBounds
<1>5. MaxBlocks >= 1
  <2> HIDE DEF o
  <2> QED BY <1>4
<1> DEFINE n == 1
           f1 == CreateBlocks(f, n)
           f2 == set_insert_point(f1, 1)
<1>6. NewBlock(f, 1) = 1 /\ n = 1
  BY <1>3 DEF NewBlock
<1>7. MayCreate(f, n)
  BY <1>3, <1>4, <1>5 DEF MayCreate
<1>8. g = add_instruction(f2, "op") /\ f1 = CreateBlocks(f, n) /\ f2 = set_insert_point(f1, 1)
  BY <1>6
<1> HIDE DEF n, f1, f2
<1>9. Created(f, f1, n)
  BY <1>1, <1>7, <1>8, CreateKeeps
<1>10. /\ GoodFunction(f1) /\ f1.next = 2 /\ Members(f1.blocks) = {1} /\ f1.code = f.code
  <2>1. Members(f.blocks) = {}
    BY <1>3, MembersOfEmpty
  <2>2. Members(f1.blocks) = f.next..(f.next + n - 1) /\ f1.next = f.next + n
        /\ GoodFunction(f1) /\ f1.code = f.code
    BY <1>9, <2>1 DEF Created
  <2>3. f.next..(f.next + n - 1) = 1..1
    BY <1>3, <1>6
  <2>4. 1..1 = {1}
    OBVIOUS
  <2> QED BY <2>2, <2>3, <2>4, <1>3, <1>6
<1>11. 1 \in Block
  BY <1>4, <1>5 DEF Block
<1>12. GoodFunction(f2) /\ InsertOpen(f2) /\ f2.insert = 1 /\ f2.next = 2 /\ f2.blocks = f1.blocks
  <2> DEFINE b == 1
  <2>1. b \in Members(f1.blocks) /\ f1.code[b] = << >>
    BY <1>3, <1>10, <1>11
  <2>2. f2 = set_insert_point(f1, b)
    BY <1>8
  <2>3. b = 1
    OBVIOUS
  <2> HIDE DEF b
  <2>4. GoodFunction(f2) /\ f2.insert = b /\ f2.next = f1.next /\ f2.blocks = f1.blocks
    BY <1>10, <2>1, <2>2, InsertKeeps
  <2>5. InsertOpen(f2)
    BY <1>10, <2>1, <2>2, StaysOpen
  <2> QED BY <1>10, <2>3, <2>4, <2>5
<1>13. /\ GoodFunction(g) /\ g.insert = 1 /\ g.next = 2 /\ Members(g.blocks) = {1}
       /\ ~InsertTerminated(g)
  <2>1. "op" \in Kind
    BY DEF Kind
  <2> QED BY <1>8, <1>10, <1>12, <2>1, AddKeeps
<1> DEFINE a == [do |-> "compound"]
           b == [do |-> "end"]
<1>14. a \in Item /\ b \in Item /\ a.do = "compound" /\ b.do = "end"
  BY PlainItems
<1> DEFINE e == <<a>> \o <<b>>
<1>15. r = e \o << >>
  BY <1>2 DEF Do
<1> HIDE DEF a, b
<1>16. r \in Seq(Item) /\ Pair(r, a, b) /\ r = <<a>> \o <<b>>
  <2>1. e \in Seq(Item) /\ Pair(e, a, b)
    BY <1>14, TwoItems
  <2>2. r = e \o << >>
    BY <1>15
  <2> HIDE DEF e
  <2>3. r = e
    BY <2>1, <2>2
  <2> QED BY <2>1, <2>3 DEF e
<1> HIDE DEF e
<1>17. Len(r) = 2 /\ r[1] = a /\ r[2] = b
  BY <1>16 DEF Pair
<1>18. Shaped(r) /\ r # << >>
  <2> DEFINE m == Len(r)
  <2>1. m = 2 /\ r[1].do = "compound" /\ r[2].do = "end" /\ r \in Seq(Item) /\ r # << >>
    BY <1>14, <1>16, <1>17
  <2> HIDE DEF m
  <2>2. \A i \in 2..m : r[i].do \in Resumed
    <3>1. \A i \in 2..m : i = 2
      BY <2>1
    <3> QED BY <2>1, <3>1 DEF Resumed
  <2>3. \A i \in 1..m : r[i].do = "end" => i = m
    <3>1. \A i \in 1..m : i = 1 \/ i = m
      BY <2>1
    <3> QED BY <2>1, <3>1
  <2>4. r[m].do = "end"
    BY <2>1
  <2> QED BY <2>1, <2>2, <2>3, <2>4 DEF Shaped, m
<1>19. \A i \in 1..Len(r) : Owns(r[i]) = {} /\ r[i].do \notin {"then", "loop", "body"}
  <2>1. 1..2 = {1, 2}
    OBVIOUS
  <2> QED BY <2>1, <1>14, <1>17 DEF Owns
<1>20. Waiting(g, r)
  BY <1>19 DEF Waiting, Apart, ItemFits
<1>21. Closed(g, r)
  BY <1>13, <1>18 DEF Closed
<1>22. InsertFits(g, r)
  BY <1>13, <1>14, <1>17 DEF InsertFits
<1>23. ScopesLeft(r, d + 1)
  <2>1. r = <<a>> \o <<b>> /\ <<a>> \in Seq(Item) /\ <<b>> \in Seq(Item)
    <3>1. <<a>> \in Seq(Item) /\ <<b>> \in Seq(Item)
      BY <1>14, OneItem
    <3>2. r = <<a>> \o <<b>>
      BY <1>16
    <3> QED BY <3>1, <3>2
  <2>2. Occurrences(ScopeItems(r), 1)
          = Occurrences(ScopeItems(<<a>>), 1) + Occurrences(ScopeItems(<<b>>), 1)
    BY <2>1, ScopesConcat
  <2>3. /\ Occurrences(ScopeItems(<<a>>), 1) = 0
        /\ Occurrences(ScopeItems(<<b>>), 1) = 1
    <3>1. InScope(a) = 0 /\ InScope(b) = 1
      BY <1>14 DEF InScope
    <3> QED BY <3>1, <1>14, ScopesOfOne
  <2>4. Occurrences(ScopeItems(s), 1) = 0
    <3>1. s[1] \in Item /\ InScope(s[1]) = 0
      BY <1>2 DEF InScope
    <3> QED BY <1>2, <3>1, ScopesOfOne
  <2> QED BY <1>1, <2>2, <2>3, <2>4 DEF ScopesLeft
<1>24. WithinBounds(g, r, c, x)
  <2>1. Owed(r) = 0
    BY <1>14, <1>17, <1>18, OwedIs
  <2>2. 2 + 3 * c + 2 * x + 0 <= MaxBlocks + 1
    <3> HIDE DEF o
    <3> QED BY <1>4
  <2> QED BY <1>4, <1>13, <2>1, <2>2 DEF WithinBounds
<1> QED BY <1>13, <1>18, <1>20, <1>21, <1>22, <1>23, <1>24 DEF Inv

LEMMA EndStep ==
  ASSUME NEW f, NEW s, s # << >>, NEW d, NEW c, NEW x, Inv(f, s, d, c, x),
         s[1].do = "end",
         NEW g, g = IF InsertTerminated(f) THEN f ELSE create_ret(f),
         NEW r, r = << >> \o Tail(s)
  PROVE  Inv(g, r, d - 1, 0, 0)
<1>1. /\ GoodFunction(f) /\ Shaped(s) /\ Closed(f, s) /\ ScopesLeft(s, d)
      /\ WithinBounds(f, s, c, x) /\ f.insert \in Members(f.blocks)
  BY DEF Inv, InsertFits
<1>2. Len(s) = 1 /\ s \in Seq(Item) /\ Tail(s) = << >> /\ s = <<s[1]>>
  BY <1>1, AloneItem
<1>3. r = << >>
  BY <1>2
<1>4. /\ GoodFunction(g) /\ g.insert = f.insert /\ g.blocks = f.blocks /\ g.next = f.next
      /\ \A b \in Block \ {f.insert} : g.code[b] = f.code[b]
      /\ InsertTerminated(g)
  <2>1. CASE InsertTerminated(f)
    BY <1>1, <2>1
  <2>2. CASE ~InsertTerminated(f)
    <3>1. InsertOpen(f) /\ "ret" \in Kind /\ g = add_instruction(f, "ret") /\ "ret" # "op"
      BY <1>1, <2>2 DEF InsertOpen, Kind, create_ret
    <3> QED BY <1>1, <3>1, AddKeeps
  <2> QED BY <2>1, <2>2
<1>5. Closed(g, r)
  <2>1. ASSUME NEW b \in Members(g.blocks) PROVE is_terminated(g, b)
    <3>1. Owns(s[1]) = {} /\ 1..Len(s) = {1}
      BY <1>2 DEF Owns
    <3>2. is_terminated(f, b) \/ b = f.insert
      BY <1>1, <1>4, <3>1 DEF Closed
    <3>3. CASE b = f.insert
      BY <3>3, <1>4 DEF InsertTerminated
    <3>4. CASE b # f.insert
      <4>1. g.code[b] = f.code[b]
        BY <1>1, <1>4, <3>4, BlocksTyped
      <4> QED BY <3>2, <3>4, <4>1 DEF is_terminated
    <3> QED BY <3>3, <3>4
  <2> QED BY <2>1 DEF Closed
<1>6. Shaped(r) /\ Waiting(g, r) /\ Len(r) = 0
  <2>1. r \in Seq(Item) /\ Len(r) = 0
    <3> DEFINE e == << >>
    <3>1. e \in Seq(Item) /\ Len(e) = 0 /\ r = e
      BY <1>3
    <3> HIDE DEF e
    <3> QED BY <3>1
  <2>2. 1..0 = {} /\ 2..0 = {}
    OBVIOUS
  <2> QED BY <1>3, <2>1, <2>2 DEF Shaped, Waiting, Apart
<1>7. InsertFits(g, r)
  BY <1>1, <1>3, <1>4 DEF InsertFits
<1>8. ScopesLeft(r, d - 1)
  <2>1. Occurrences(ScopeItems(s), 1) = 1
    <3>1. s[1] \in Item /\ InScope(s[1]) = 1
      BY <1>2 DEF InScope
    <3> QED BY <1>2, <3>1, ScopesOfOne
  <2>2. Occurrences(ScopeItems(r), 1) = 0
    BY <1>3, ScopesOfNone
  <2> QED BY <1>1, <2>1, <2>2 DEF ScopesLeft
<1>9. WithinBounds(g, r, 0, 0)
  <2>1. Owed(r) = 0
    <3>1. ~\E i \in 1..Len(r) : r[i].do = "branch"
      BY <1>6
    <3> QED BY <1>3, <3>1 DEF Owed
  <2>2. g.next \in 1..(MaxBlocks + 1)
    BY <1>4, BlocksTyped
  <2> QED BY <2>1, <2>2, BoundsTyped DEF WithinBounds
<1> QED BY <1>4, <1>5, <1>6, <1>7, <1>8, <1>9 DEF Inv

LEMMA StartsWell == Inv(EmptyFunction, Do("function"), 1, MaxControl, MaxIndex)
<1> DEFINE f == EmptyFunction
           a == [do |-> "function"]
           s == <<a>>
<1>0. MaxBlocks \in Nat /\ MaxControl \in Nat /\ MaxIndex \in Nat
  BY BoundsTyped
<1>1. /\ f.next = 1 /\ f.blocks = << >> /\ f.insert = 0
      /\ f.pre = [b \in Block |-> << >>] /\ f.succ = [b \in Block |-> << >>]
      /\ f.code = [b \in Block |-> << >>]
  BY DEF EmptyFunction
<1>2. f \in FunctionType
  <2>1. << >> \in Seq(Block) /\ << >> \in Seq(Kind) /\ 1 \in 1..(MaxBlocks + 1)
        /\ 0 \in 0..MaxBlocks
    BY <1>0
  <2> QED BY <2>1 DEF EmptyFunction, FunctionType
<1>3. Members(f.blocks) = {}
  BY <1>1, MembersOfEmpty
<1>4. GoodFunction(f)
  <2>1. ASSUME NEW b \in Block PROVE Linked(f, b) /\ EndsOnce(f.code[b]) /\ Unused(f, b)
    <3>1. f.pre[b] = << >> /\ f.succ[b] = << >> /\ f.code[b] = << >>
      BY <1>1
    <3>2. EndsOnce(f.code[b])
      <4>1. Len(f.code[b]) = 0
        BY <3>1
      <4> QED BY <4>1 DEF EndsOnce
    <3>3. \A y \in Block : Occurrences(f.succ[b], y) = Occurrences(f.pre[y], b)
      BY <1>1, OccurrencesOfEmpty
    <3> QED BY <3>1, <3>2, <3>3 DEF Linked, Unused
  <2> HIDE DEF f
  <2> QED BY <1>1, <1>2, <1>3, <2>1 DEF GoodFunction
<1>5. a \in Item /\ a.do = "function"
  BY PlainItems
<1>6. s = Do("function")
  BY DEF Do
<1> HIDE DEF f, a
<1>7. s \in Seq(Item) /\ Len(s) = 1 /\ s[1] = a /\ s # << >>
  BY <1>5
<1>8. Occurrences(ScopeItems(s), 1) = 0
  <2>1. InScope(a) = 0
    BY <1>5 DEF InScope
  <2> QED BY <2>1, <1>5, ScopesOfOne
<1> HIDE DEF s
<1>9. 1..1 = {1} /\ 2..1 = {}
  OBVIOUS
<1>10. Shaped(s)
  BY <1>5, <1>7, <1>9 DEF Shaped
<1>11. Owns(a) = {} /\ a.do \notin {"then", "loop", "body"}
  BY <1>5 DEF Owns
<1>12. Waiting(f, s)
  BY <1>7, <1>9, <1>11 DEF Waiting, Apart, ItemFits
<1>13. Closed(f, s)
  BY <1>3 DEF Closed
<1>14. InsertFits(f, s)
  BY <1>5, <1>7 DEF InsertFits, f
<1>15. ScopesLeft(s, 1)
  BY <1>8 DEF ScopesLeft
<1>16. WithinBounds(f, s, MaxControl, MaxIndex)
  <2>1. Owed(s) = 1
    BY <1>5, <1>7, <1>10, OwedIs
  <2>2. 1 + 3 * MaxControl + 2 * MaxIndex + 1 <= MaxBlocks + 1
    BY BoundAssumption
  <2> QED BY <1>0, <1>1, <2>1, <2>2 DEF WithinBounds
<1>17. Inv(f, s, 1, MaxControl, MaxIndex)
  BY <1>4, <1>10, <1>12, <1>13, <1>14, <1>15, <1>16 DEF Inv
<1> QED BY <1>6, <1>17 DEF f

-----------------------------------------------------------------------------
(* What the steps of the builder need of the invariant and of its items.   *)
LEMMA InvFacts ==
  ASSUME NEW f, NEW s, s # << >>, NEW d, NEW c, NEW x, Inv(f, s, d, c, x)
  PROVE  /\ GoodFunction(f) /\ s \in Seq(Item) /\ Head(s) = s[1] /\ s[1] \in Item
         /\ s[1].do \notin Resumed \cup {"function"} => InsertOpen(f)
         /\ c \in 0..MaxControl /\ x \in 0..MaxIndex
<1>1. GoodFunction(f) /\ Shaped(s) /\ InsertFits(f, s) /\ WithinBounds(f, s, c, x)
  BY DEF Inv
<1>2. s \in Seq(Item) /\ Head(s) = s[1] /\ s[1] \in Item
  <2>1. s \in Seq(Item)
    BY <1>1 DEF Shaped
  <2> QED BY <2>1
<1>3. s[1].do \notin Resumed \cup {"function"} => InsertOpen(f)
  BY <1>1 DEF InsertFits, InsertOpen
<1> QED BY <1>1, <1>2, <1>3 DEF WithinBounds

LEMMA SameExtended ==
  ASSUME NEW f, GoodFunction(f)
  PROVE  Extended(f, f)
  BY DEF Extended

LEMMA AddExtends ==
  ASSUME NEW f, GoodFunction(f), InsertOpen(f), NEW kind \in Kind,
         NEW g, g = add_instruction(f, kind)
  PROVE  Extended(f, g) /\ (kind = "op" => ~InsertTerminated(g))
  BY AddKeeps DEF Extended

LEMMA DoIs ==
  ASSUME NEW what \in {"function", "compound", "stmt", "list", "check", "ret", "end"}
  PROVE  \E a \in Item : a.do = what /\ Do(what) = <<a>>
<1> DEFINE a == [do |-> what]
<1>1. a \in Item
  BY PlainItems
<1>2. a.do = what /\ Do(what) = <<a>>
  BY DEF Do
<1> HIDE DEF a
<1> QED BY <1>1, <1>2

LEMMA ExprIs ==
  ASSUME NEW n \in Nat
  PROVE  \E a \in Item : a.do = "expr" /\ a.n = n /\ Expr(n) = <<a>>
<1> DEFINE a == [do |-> "expr", n |-> n]
<1>1. a \in Item
  BY DEF Item
<1>2. a.do = "expr" /\ a.n = n /\ Expr(n) = <<a>>
  BY DEF Expr
<1> HIDE DEF a
<1> QED BY <1>1, <1>2

LEMMA BranchIs ==
  ASSUME NEW else \in BOOLEAN, NEW b, b = [do |-> "branch", else |-> else]
  PROVE  b \in Item /\ b.do = "branch"
  BY DEF Item

(* What Spend(m, n) leaves pays for the blocks of what was visited.        *)
LEMMA SpendPays ==
  ASSUME NEW c \in 0..MaxControl, NEW x \in 0..MaxIndex,
         NEW m \in Nat, NEW n \in Nat, c >= m, x >= n,
         NEW c2, c2 = c - m, NEW x2, x2 = x - n,
         NEW blocks \in Nat, blocks <= 3 * m + 2 * n
  PROVE  /\ Spends(c, x, c2, x2, blocks)
         /\ c2 \in 0..MaxControl /\ x2 \in 0..MaxIndex /\ c = c2 + m /\ x = x2 + n
<1>1. c2 \in 0..MaxControl /\ x2 \in 0..MaxIndex
  BY BoundsTyped
<1>2. 3 * c2 + 2 * x2 + blocks <= 3 * c + 2 * x
  BY BoundsTyped
<1> QED BY <1>1, <1>2, BoundsTyped DEF Spends

LEMMA SpendsNothing ==
  ASSUME NEW c \in 0..MaxControl, NEW x \in 0..MaxIndex, NEW blocks, blocks = 0
  PROVE  Spends(c, x, c, x, blocks)
  BY BoundsTyped DEF Spends

LEMMA SpendsOne ==
  ASSUME NEW c \in 0..MaxControl, NEW x \in 0..MaxIndex, c >= 1,
         NEW c2, c2 = c - 1, NEW x2, x2 = x - 0
  PROVE  Spends(c, x, c2, x2, 0)
  BY BoundsTyped DEF Spends

LEMMA DepthTyped ==
  ASSUME NEW f, NEW s, NEW d, NEW c, NEW x, Inv(f, s, d, c, x)
  PROVE  d \in Nat
<1>1. d = 1 + Occurrences(ScopeItems(s), 1)
  BY DEF Inv, ScopesLeft
<1>2. Occurrences(ScopeItems(s), 1) \in Nat
  <2>1. s \in Seq(Item)
    BY DEF Inv, Shaped
  <2>2. ScopeItems(s) \in Seq(Nat)
    BY <2>1 DEF ScopeItems, InScope
  <2> QED BY <2>2, OccurrencesFinite
<1> QED BY <1>1, <1>2

(* Statements that only take themselves off, or leave other ones to visit. *)
LEMMA LeaveStep ==
  ASSUME NEW f, NEW s, s # << >>, NEW d, NEW c, NEW x, Inv(f, s, d, c, x),
         s[1].do \in {"list", "check"}, NEW r, r = << >> \o Tail(s)
  PROVE  Inv(f, r, d - 1, c, x)
<1>1. Extended(f, f)
  BY InvFacts, SameExtended
<1>2. InScope(s[1]) = 1
  BY DEF InScope
<1>3. Inv(f, r, d - InScope(s[1]), c, x)
  BY <1>1, QuietPop
<1> QED BY <1>2, <1>3

LEMMA PopStep ==
  ASSUME NEW f, NEW s, s # << >>, NEW d, NEW c, NEW x, Inv(f, s, d, c, x),
         NEW g, Extended(f, g),
         \/ s[1].do \in {"stmt", "ret"}
         \/ s[1].do = "expr" /\ s[1].n = 0 /\ ~InsertTerminated(g),
         NEW r, r = << >> \o Tail(s)
  PROVE  Inv(g, r, d, c, x)
<1>1. InScope(s[1]) = 0
  BY DEF InScope
<1>2. Inv(g, r, d - InScope(s[1]), c, x)
  <2>1. CASE s[1].do \in {"stmt", "ret"}
    BY <2>1, QuietPop
  <2>2. CASE s[1].do = "expr" /\ s[1].n = 0 /\ ~InsertTerminated(g)
    BY <2>2, QuietPop
  <2> QED BY <2>1, <2>2
<1>3. d \in Nat
  BY DepthTyped
<1> QED BY <1>1, <1>2, <1>3

LEMMA PushStep ==
  ASSUME NEW f, NEW s, s # << >>, NEW d, NEW c, NEW x, Inv(f, s, d, c, x),
         s[1].do \in {"compound", "check", "stmt"},
         NEW g, Extended(f, g), ~InsertTerminated(g),
         NEW what \in {"list", "compound"},
         NEW c2, NEW x2, Spends(c, x, c2, x2, 0), NEW r, r = Do(what) \o Tail(s),
         NEW d2, d2 = d + (IF what = "list" THEN 1 ELSE 0)
                        - (IF s[1].do = "check" THEN 1 ELSE 0)
  PROVE  Inv(g, r, d2, c2, x2)
<1>1. PICK a \in Item : a.do = what /\ Do(what) = <<a>>
  BY DoIs
<1> DEFINE e == <<a>>
<1>2. e \in Seq(Item) /\ Single(e, a)
  BY OneItem
<1>3. r = e \o Tail(s)
  BY <1>1
<1> HIDE DEF e
<1>4. a.do \in {"list", "compound", "expr"} /\ Spends(c, x, c2, x2, ItemOwes(a))
  <2>1. ItemOwes(a) = 0
    BY <1>1 DEF ItemOwes
  <2> QED BY <1>1, <2>1
<1>5. Inv(g, r, d + InScope(a) - InScope(s[1]), c2, x2)
  BY <1>2, <1>3, <1>4, QuietPush
<1>6. /\ InScope(a) = IF what = "list" THEN 1 ELSE 0
      /\ InScope(s[1]) = IF s[1].do = "check" THEN 1 ELSE 0
  BY <1>1 DEF InScope
<1> QED BY <1>5, <1>6

LEMMA PushExprStep ==
  ASSUME NEW f, NEW s, s # << >>, NEW d, NEW c, NEW x, Inv(f, s, d, c, x),
         s[1].do = "stmt", NEW n \in Nat, NEW c2, NEW x2, Spends(c, x, c2, x2, 2 * n),
         NEW r, r = Expr(n) \o Tail(s)
  PROVE  Inv(f, r, d, c2, x2)
<1>1. PICK a \in Item : a.do = "expr" /\ a.n = n /\ Expr(n) = <<a>>
  BY ExprIs
<1> DEFINE e == <<a>>
<1>2. e \in Seq(Item) /\ Single(e, a)
  BY OneItem
<1>3. r = e \o Tail(s)
  BY <1>1
<1> HIDE DEF e
<1>4. Spends(c, x, c2, x2, ItemOwes(a))
  BY <1>1 DEF ItemOwes
<1>5. Extended(f, f) /\ ~InsertTerminated(f)
  <2>1. s[1].do \notin Resumed \cup {"function"}
    BY DEF Resumed
  <2> QED BY <2>1, InvFacts, SameExtended DEF InsertOpen
<1>6. Inv(f, r, d + InScope(a) - InScope(s[1]), c2, x2)
  BY <1>1, <1>2, <1>3, <1>4, <1>5, QuietPush
<1>7. InScope(a) = 0 /\ InScope(s[1]) = 0 /\ d \in Nat
  BY <1>1, DepthTyped DEF InScope
<1> QED BY <1>6, <1>7

LEMMA NextStatementStep ==
  ASSUME NEW f, NEW s, s # << >>, NEW d, NEW c, NEW x, Inv(f, s, d, c, x),
         s[1].do = "list", NEW c2, NEW x2, Spends(c, x, c2, x2, 0),
         NEW r, r = (Do("stmt") \o Do("check")) \o Tail(s)
  PROVE  Inv(f, r, d, c2, x2)
<1>1. PICK a \in Item : a.do = "stmt" /\ Do("stmt") = <<a>>
  BY DoIs
<1>2. PICK b \in Item : b.do = "check" /\ Do("check") = <<b>>
  BY DoIs
<1> DEFINE e == <<a>> \o <<b>>
<1>3. e \in Seq(Item) /\ Pair(e, a, b)
  BY TwoItems
<1>4. r = e \o Tail(s)
  BY <1>1, <1>2
<1> HIDE DEF e
<1>5. Follows(a, b) /\ Spends(c, x, c2, x2, PairOwes(a, b))
  <2>1. ItemOwes(a) = 0 /\ ItemOwes(b) = 0
    BY <1>1, <1>2 DEF ItemOwes
  <2>2. PairOwes(a, b) = 0
    BY <2>1 DEF PairOwes
  <2> QED BY <1>2, <2>2 DEF Follows, Resumed
<1>6. Inv(f, r, d + PairScopes(a, b) - InScope(s[1]), c2, x2)
  BY <1>1, <1>2, <1>3, <1>4, <1>5, QuietPushTwo
<1>7. InScope(a) = 0 /\ InScope(b) = 1 /\ InScope(s[1]) = 1 /\ d \in Nat
  BY <1>1, <1>2, DepthTyped DEF InScope
<1>8. d + PairScopes(a, b) - InScope(s[1]) = d
  BY <1>7 DEF PairScopes
<1> QED BY <1>6, <1>8

(* An expression and what comes after it.                                  *)
LEMMA ExprAndStep ==
  ASSUME NEW f, NEW s, s # << >>, NEW d, NEW c, NEW x, Inv(f, s, d, c, x),
         s[1].do = "stmt", NEW n \in Nat, NEW b \in Item, b.do \in {"ret", "branch"},
         NEW owed, owed = IF b.do = "branch" THEN 2 * n + 3 ELSE 2 * n,
         NEW c2, NEW x2, Spends(c, x, c2, x2, owed),
         NEW r, r = (Expr(n) \o <<b>>) \o Tail(s)
  PROVE  Inv(f, r, d, c2, x2)
<1>1. PICK a \in Item : a.do = "expr" /\ a.n = n /\ Expr(n) = <<a>>
  BY ExprIs
<1> DEFINE e == <<a>> \o <<b>>
<1>2. e \in Seq(Item) /\ Pair(e, a, b)
  BY TwoItems
<1>3. r = e \o Tail(s)
  BY <1>1
<1> HIDE DEF e
<1>4. Follows(a, b)
  BY <1>1 DEF Follows, AfterExpression
<1>5. Spends(c, x, c2, x2, PairOwes(a, b))
  <2>1. ItemOwes(a) = 2 * n /\ ItemOwes(b) = IF b.do = "branch" THEN 3 ELSE 0
    BY <1>1 DEF ItemOwes
  <2>2. PairOwes(a, b) = owed
    BY <2>1 DEF PairOwes
  <2> QED BY <2>2
<1>6. Inv(f, r, d + PairScopes(a, b) - InScope(s[1]), c2, x2)
  BY <1>1, <1>2, <1>3, <1>4, <1>5, QuietPushTwo
<1>7. InScope(a) = 0 /\ InScope(b) = 0 /\ InScope(s[1]) = 0 /\ d \in Nat
  BY <1>1, DepthTyped DEF InScope
<1>8. d + PairScopes(a, b) - InScope(s[1]) = d
  BY <1>7 DEF PairScopes
<1> QED BY <1>6, <1>8

-----------------------------------------------------------------------------
LEMMA InitKeeps == BInit => BInv
<1> SUFFICES ASSUME BInit PROVE BInv
  OBVIOUS
<1>1. /\ fn = EmptyFunction /\ todo = Do("function") /\ depth = 1
      /\ control = MaxControl /\ index = MaxIndex
  BY DEF BInit
<1> QED BY <1>1, StartsWell DEF BInv

LEMMA StepKeeps == BInv /\ [BNext]_bvars => BInv'
<1> SUFFICES ASSUME BInv, [BNext]_bvars
             PROVE  Inv(fn', todo', depth', control', index')
  BY DEF BInv
<1>1. Inv(fn, todo, depth, control, index)
  BY DEF BInv
<1>2. todo # << >> =>
        /\ GoodFunction(fn) /\ Head(todo) = todo[1] /\ todo[1] \in Item
        /\ todo[1].do \notin Resumed \cup {"function"} => InsertOpen(fn)
        /\ control \in 0..MaxControl /\ index \in 0..MaxIndex
        /\ depth \in Nat /\ Extended(fn, fn)
  <2> SUFFICES ASSUME todo # << >>
               PROVE  /\ GoodFunction(fn) /\ Head(todo) = todo[1] /\ todo[1] \in Item
                      /\ todo[1].do \notin Resumed \cup {"function"} => InsertOpen(fn)
                      /\ control \in 0..MaxControl /\ index \in 0..MaxIndex
                      /\ depth \in Nat /\ Extended(fn, fn)
    OBVIOUS
  <2> QED BY <1>1, InvFacts, DepthTyped, SameExtended
<1> HIDE DEF BInv
<1> USE DEF Doing, Continue
<1>3. CASE VisitFunDeclaration
  BY <1>1, <1>2, <1>3, FunctionStep DEF VisitFunDeclaration
<1>4. CASE FinishFunction
  BY <1>1, <1>2, <1>4, EndStep DEF FinishFunction, CloseFunction
<1>5. CASE VisitCompoundStmt
  <2>1. /\ todo # << >> /\ todo[1].do = "compound" /\ InsertOpen(fn)
        /\ todo' = Do("list") \o Tail(todo) /\ depth' = depth + 1
        /\ fn' = add_instruction(fn, "op") /\ control' = control /\ index' = index
    BY <1>2, <1>5 DEF VisitCompoundStmt, Resumed
  <2>2. "op" \in Kind
    BY DEF Kind
  <2>3. Extended(fn, fn') /\ ~InsertTerminated(fn')
    BY <1>2, <2>1, <2>2, AddExtends
  <2>4. Spends(control, index, control', index', 0)
    BY <1>2, <2>1, SpendsNothing
  <2>5. depth' = depth + 1 - 0
    BY <1>2, <2>1
  <2> QED BY <1>1, <2>1, <2>3, <2>4, <2>5, PushStep
<1>6. CASE NextStatement
  <2>1. /\ todo # << >> /\ todo[1].do = "list"
        /\ todo' = (Do("stmt") \o Do("check")) \o Tail(todo)
        /\ depth' = depth /\ fn' = fn /\ Spend(1, 0)
    BY <1>2, <1>6 DEF NextStatement
  <2>2. Spends(control, index, control', index', 0)
    BY <1>2, <2>1, SpendsOne DEF Spend
  <2> QED BY <1>1, <2>1, <2>2, NextStatementStep
<1>7. CASE LeaveCompoundStmt
  BY <1>1, <1>2, <1>7, LeaveStep DEF LeaveCompoundStmt, LeaveScope, EndOfStatements
<1>8. CASE StatementsGoOn
  <2>1. /\ todo # << >> /\ todo[1].do = "check" /\ ~InsertTerminated(fn)
        /\ todo' = Do("list") \o Tail(todo)
        /\ depth' = depth /\ fn' = fn /\ control' = control /\ index' = index
    BY <1>2, <1>8 DEF StatementsGoOn
  <2>2. Spends(control, index, control', index', 0)
    BY <1>2, <2>1, SpendsNothing
  <2>3. depth' = depth + 1 - 1
    BY <1>2, <2>1
  <2> QED BY <1>1, <1>2, <2>1, <2>2, <2>3, PushStep
<1>9. CASE StatementIsCompound
  <2>1. /\ todo # << >> /\ todo[1].do = "stmt" /\ InsertOpen(fn)
        /\ todo' = Do("compound") \o Tail(todo)
        /\ depth' = depth /\ fn' = fn /\ Spend(1, 0)
    BY <1>2, <1>9 DEF StatementIsCompound, Resumed
  <2>2. Spends(control, index, control', index', 0)
    BY <1>2, <2>1, SpendsOne DEF Spend
  <2>3. depth' = depth + 0 - 0 /\ Extended(fn, fn) /\ ~InsertTerminated(fn)
    BY <1>2, <2>1 DEF InsertOpen
  <2>4. Extended(fn, fn') /\ ~InsertTerminated(fn')
    BY <2>1, <2>3
  <2>5. /\ todo[1].do \in {"compound", "check", "stmt"}
        /\ "compound" \in {"list", "compound"}
        /\ depth' = depth + (IF "compound" = "list" THEN 1 ELSE 0)
                         - (IF todo[1].do = "check" THEN 1 ELSE 0)
    BY <1>2, <2>1, <2>3
  <2> QED BY <1>1, <2>1, <2>2, <2>4, <2>5, PushStep
<1>10. CASE VisitExpressionStmt
  <2>1. todo # << >> /\ todo[1].do = "stmt" /\ depth' = depth /\ fn' = fn
    BY <1>2, <1>10 DEF VisitExpressionStmt
  <2>2. CASE Continue(<< >>) /\ UNCHANGED <<control, index>>
    BY <1>1, <1>2, <2>1, <2>2, PopStep
  <2>3. ASSUME NEW n \in 0..MaxIndex, Spend(0, n), Continue(Expr(n))
        PROVE  Inv(fn', todo', depth', control', index')
    <3>1. n \in Nat /\ 2 * n \in Nat
      BY BoundsTyped
    <3>2. Spends(control, index, control', index', 2 * n)
      BY <1>2, <2>1, <2>3, <3>1, SpendPays DEF Spend
    <3> QED BY <1>1, <2>1, <2>3, <3>1, <3>2, PushExprStep
  <2> QED BY <1>10, <2>2, <2>3 DEF VisitExpressionStmt
<1>11. CASE VisitReturnVoid
  <2>1. /\ todo # << >> /\ todo[1].do = "stmt" /\ InsertOpen(fn)
        /\ todo' = << >> \o Tail(todo) /\ fn' = add_instruction(fn, "ret")
        /\ depth' = depth /\ control' = control /\ index' = index
    BY <1>2, <1>11 DEF VisitReturnVoid, create_ret, Resumed
  <2>2. "ret" \in Kind
    BY DEF Kind
  <2>3. Extended(fn, fn')
    BY <1>2, <2>1, <2>2, AddExtends
  <2> QED BY <1>1, <2>1, <2>3, PopStep
<1>12. CASE VisitReturnValue
  <2>1. /\ todo # << >> /\ todo[1].do = "stmt" /\ depth' = depth /\ fn' = fn
        /\ \E n \in 0..MaxIndex :
             Spend(0, n) /\ todo' = (Expr(n) \o Do("ret")) \o Tail(todo)
    BY <1>2, <1>12 DEF VisitReturnValue
  <2>2. PICK n \in 0..MaxIndex :
             Spend(0, n) /\ todo' = (Expr(n) \o Do("ret")) \o Tail(todo)
    BY <2>1
  <2>3. PICK b \in Item : b.do = "ret" /\ Do("ret") = <<b>>
    BY DoIs
  <2>4. n \in Nat /\ 2 * n \in Nat
    BY BoundsTyped
  <2>5. Spends(control, index, control', index', 2 * n)
    BY <1>2, <2>1, <2>2, <2>4, SpendPays DEF Spend
  <2>6. todo' = (Expr(n) \o <<b>>) \o Tail(todo)
    BY <2>2, <2>3
  <2> QED BY <1>1, <2>1, <2>3, <2>4, <2>5, <2>6, ExprAndStep
<1>13. CASE FinishReturn
  <2>1. /\ todo # << >> /\ todo[1].do = "ret" /\ InsertOpen(fn)
        /\ todo' = << >> \o Tail(todo) /\ fn' = add_instruction(fn, "ret")
        /\ depth' = depth /\ control' = control /\ index' = index
    BY <1>2, <1>13 DEF FinishReturn, create_ret, Resumed
  <2>2. "ret" \in Kind
    BY DEF Kind
  <2>3. Extended(fn, fn')
    BY <1>2, <2>1, <2>2, AddExtends
  <2> QED BY <1>1, <2>1, <2>3, PopStep
<1>14. CASE VisitIndexedVar
  <2>1. /\ todo # << >> /\ todo[1].do = "expr" /\ todo[1].n > 0
        /\ fn' = SplitForIndex(fn) /\ todo' = Expr(todo[1].n - 1) \o Tail(todo)
        /\ depth' = depth /\ control' = control /\ index' = index
    BY <1>2, <1>14 DEF VisitIndexedVar
  <2>2. todo[1].n \in Nat
    BY <1>2, <2>1, ItemFields
  <2> DEFINE k == todo[1].n
  <2>3. k \in Nat \ {0} /\ todo[1].n = k /\ todo' = Expr(k - 1) \o Tail(todo)
    BY <2>1, <2>2
  <2> HIDE DEF k
  <2> QED BY <1>1, <2>1, <2>3, IndexedStep
<1>15. CASE FinishExpression
  <2>1. /\ todo # << >> /\ todo[1].do = "expr" /\ todo[1].n = 0 /\ InsertOpen(fn)
        /\ todo' = << >> \o Tail(todo) /\ fn' = add_instruction(fn, "op")
        /\ depth' = depth /\ control' = control /\ index' = index
    BY <1>2, <1>15 DEF FinishExpression, Resumed
  <2>2. "op" \in Kind
    BY DEF Kind
  <2>3. Extended(fn, fn') /\ ~InsertTerminated(fn')
    BY <1>2, <2>1, <2>2, AddExtends
  <2> QED BY <1>1, <2>1, <2>3, PopStep
<1>16. CASE VisitSelectionStmt
  <2>1. todo # << >> /\ todo[1].do = "stmt" /\ depth' = depth /\ fn' = fn
    BY <1>2, <1>16 DEF VisitSelectionStmt
  <2>2. PICK else \in BOOLEAN, n \in 0..MaxIndex :
           /\ Spend(1, n)
           /\ todo' = (Expr(n) \o <<[do |-> "branch", else |-> else]>>) \o Tail(todo)
    BY <1>16 DEF VisitSelectionStmt
  <2> DEFINE b == [do |-> "branch", else |-> else]
             owed == 2 * n + 3
  <2>3. n \in Nat /\ owed \in Nat /\ owed <= 3 * 1 + 2 * n
    BY BoundsTyped
  <2>4. b \in Item /\ b.do = "branch" /\ todo' = (Expr(n) \o <<b>>) \o Tail(todo)
    BY <2>2, BranchIs
  <2>5. owed = IF b.do = "branch" THEN 2 * n + 3 ELSE 2 * n
    BY <2>4
  <2> HIDE DEF b, owed
  <2>6. Spends(control, index, control', index', owed)
    BY <1>2, <2>1, <2>2, <2>3, SpendPays DEF Spend
  <2> QED BY <1>1, <2>1, <2>3, <2>4, <2>5, <2>6, ExprAndStep
<1>17. CASE BranchIf
  <2> DEFINE b1 == NewBlock(fn, 1)
             b2 == NewBlock(fn, 2)
             b3 == NewBlock(fn, 3)
             t == IF todo[1].else THEN b2 ELSE b3
             h == add_instruction(CreateBlocks(fn, 3), "op")
             b == [do |-> "then", else |-> todo[1].else, falseBB |-> b2, endBB |-> b3]
  <2>1. /\ todo # << >> /\ todo[1].do = "branch"
        /\ fn' = set_insert_point(create_cond_br(h, b1, t), b1)
        /\ todo' = (Do("stmt") \o <<b>>) \o Tail(todo)
        /\ depth' = depth /\ control' = control /\ index' = index
    BY <1>2, <1>17 DEF BranchIf
  <2>2. t \in {b2, b3} /\ (~todo[1].else => t = b3)
    OBVIOUS
  <2>3. /\ b1 = NewBlock(fn, 1) /\ b2 = NewBlock(fn, 2) /\ b3 = NewBlock(fn, 3)
        /\ h = add_instruction(CreateBlocks(fn, 3), "op")
        /\ b = [do |-> "then", else |-> todo[1].else, falseBB |-> b2, endBB |-> b3]
    OBVIOUS
  <2> HIDE DEF b1, b2, b3, t, h, b
  <2> QED BY <1>1, <2>1, <2>2, <2>3, BranchIfStep
<1>18. CASE FinishThen
  <2> DEFINE h == JumpUnlessTerminated(fn, todo[1].endBB)
             b == [do |-> "else", endBB |-> todo[1].endBB]
  <2>1. /\ todo # << >> /\ todo[1].do = "then"
        /\ depth' = depth /\ control' = control /\ index' = index
    BY <1>2, <1>18 DEF FinishThen
  <2>2. CASE todo[1].else
    <3>1. /\ fn' = set_insert_point(h, todo[1].falseBB)
          /\ todo' = (Do("stmt") \o <<b>>) \o Tail(todo)
      BY <1>2, <1>18, <2>1, <2>2 DEF FinishThen
    <3> HIDE DEF h, b
    <3> QED BY <1>1, <2>1, <2>2, <3>1, ThenElseStep DEF h, b
  <2>3. CASE ~todo[1].else
    <3>1. /\ fn' = set_insert_point(remove(h, todo[1].falseBB), todo[1].endBB)
          /\ todo' = << >> \o Tail(todo)
      BY <1>2, <1>18, <2>1, <2>3 DEF FinishThen
    <3> QED BY <1>1, <2>1, <2>3, <3>1, ThenStep
  <2> QED BY <2>2, <2>3
<1>19. CASE FinishElse
  <2> DEFINE t == IF todo[1].do = "else" THEN todo[1].endBB ELSE todo[1].judgeBB
             h == JumpUnlessTerminated(fn, t)
  <2>1. /\ todo # << >> /\ todo[1].do = "else" /\ todo' = << >> \o Tail(todo)
        /\ fn' = set_insert_point(h, todo[1].endBB)
        /\ depth' = depth /\ control' = control /\ index' = index
    BY <1>2, <1>19 DEF FinishElse
  <2> QED BY <1>1, <2>1, GoOnAtEnd
<1>20. CASE VisitIterationStmt
  <2> DEFINE b1 == NewBlock(fn, 1)
             b2 == NewBlock(fn, 2)
             b3 == NewBlock(fn, 3)
             b == [do |-> "loop", judgeBB |-> b1, stmtBB |-> b2, endBB |-> b3]
  <2>1. /\ todo # << >> /\ todo[1].do = "stmt" /\ depth' = depth
        /\ fn' = set_insert_point(JumpUnlessTerminated(CreateBlocks(fn, 3), b1), b1)
        /\ \E n \in 0..MaxIndex :
             Spend(1, n) /\ todo' = (Expr(n) \o <<b>>) \o Tail(todo)
    BY <1>2, <1>20 DEF VisitIterationStmt
  <2>2. /\ b1 = NewBlock(fn, 1) /\ b2 = NewBlock(fn, 2) /\ b3 = NewBlock(fn, 3)
        /\ b = [do |-> "loop", judgeBB |-> b1, stmtBB |-> b2, endBB |-> b3]
    OBVIOUS
  <2> HIDE DEF b1, b2, b3, b
  <2>3. PICK n \in 0..MaxIndex :
             Spend(1, n) /\ todo' = (Expr(n) \o <<b>>) \o Tail(todo)
    BY <2>1
  <2>4. n \in Nat /\ 0 \in Nat /\ 0 <= 3 * 1 + 2 * n
    BY BoundsTyped
  <2>5. /\ control' \in 0..MaxControl /\ index' \in 0..MaxIndex
        /\ control = control' + 1 /\ index = index' + n
    BY <1>2, <2>1, <2>3, <2>4, SpendPays DEF Spend
  <2> QED BY <1>1, <2>1, <2>2, <2>3, <2>4, <2>5, IterationStep
<1>21. CASE BranchLoop
  BY <1>1, <1>2, <1>21, BranchLoopStep DEF BranchLoop
<1>22. CASE FinishBody
  <2> DEFINE t == IF todo[1].do = "else" THEN todo[1].endBB ELSE todo[1].judgeBB
             h == JumpUnlessTerminated(fn, t)
  <2>1. /\ todo # << >> /\ todo[1].do = "body" /\ todo' = << >> \o Tail(todo)
        /\ fn' = set_insert_point(h, todo[1].endBB)
        /\ depth' = depth /\ control' = control /\ index' = index
    BY <1>2, <1>22 DEF FinishBody
  <2> QED BY <1>1, <2>1, GoOnAtEnd
<1>23. CASE UNCHANGED bvars
  BY <1>1, <1>23 DEF bvars
<1> QED
  BY <1>3, <1>4, <1>5, <1>6, <1>7, <1>8, <1>9, <1>10, <1>11, <1>12, <1>13, <1>14,
     <1>15, <1>16, <1>17, <1>18, <1>19, <1>20, <1>21, <1>22, <1>23 DEF BNext

LEMMA InvariantHolds == BSpec => []BInv
<1>1. BInit => BInv
  BY InitKeeps
<1>2. BInv /\ [BNext]_bvars => BInv'
  BY StepKeeps
<1> QED BY <1>1, <1>2, PTL DEF BSpec

-----------------------------------------------------------------------------
LEMMA TypedFunction ==
  ASSUME NEW f, GoodFunction(f)
  PROVE  /\ f.next \in 1..(MaxBlocks + 1)
         /\ Members(f.blocks) \subseteq 1..(f.next - 1)
         /\ f.insert \in 0..(f.next - 1)
         /\ \A b \in Block : /\ Members(f.pre[b]) \subseteq Block
                             /\ Members(f.succ[b]) \subseteq Block
                             /\ Members(f.code[b]) \subseteq {"op", "br", "ret"}
<1>1. /\ f \in FunctionType /\ f.next \in 1..(MaxBlocks + 1) /\ MaxBlocks \in Nat
      /\ Members(f.blocks) \subseteq 1..(f.next - 1)
      /\ f.insert # 0 => f.insert \in Members(f.blocks)
  BY BoundsTyped DEF GoodFunction, FunctionType
<1>2. f.insert \in 0..(f.next - 1)
  BY <1>1
<1>3. ASSUME NEW b \in Block
      PROVE  /\ Members(f.pre[b]) \subseteq Block
             /\ Members(f.succ[b]) \subseteq Block
             /\ Members(f.code[b]) \subseteq {"op", "br", "ret"}
  <2>1. f.pre[b] \in Seq(Block) /\ f.succ[b] \in Seq(Block) /\ f.code[b] \in Seq(Kind)
    BY <1>1 DEF FunctionType
  <2>2. Members(f.code[b]) \subseteq Kind
    BY <2>1, MembersOfSeq
  <2> QED BY <2>1, <2>2, MembersOfSeq DEF Kind
<1> QED BY <1>1, <1>2, <1>3

(* The function under construction, the continuation's cost and the scopes *)
(* always have the shape that BTypeOK gives them.                          *)
THEOREM BuilderTyped == BSpec => []BTypeOK
<1>1. BInv => BTypeOK
  <2> SUFFICES ASSUME BInv PROVE BTypeOK
    OBVIOUS
  <2>1. /\ GoodFunction(fn) /\ control \in 0..MaxControl /\ index \in 0..MaxIndex
        /\ depth \in Nat
    BY DepthTyped DEF BInv, Inv, WithinBounds
  <2> QED BY <2>1, TypedFunction DEF BTypeOK
<1> QED BY <1>1, InvariantHolds, PTL

(* BasicBlock::add_instruction's assertion never fails: no instruction is  *)
(* put after a branch or a return, however returns, loops and the checks   *)
(* of array subscripts are nested.                                         *)
THEOREM NothingFollowsTerminator == BSpec => []NothingAfterTerminator
<1>1. BInv => NothingAfterTerminator
  BY DEF BInv, Inv, GoodFunction, EndsOnce, NothingAfterTerminator
<1> QED BY <1>1, InvariantHolds, PTL

LEMMA MirroredFunction ==
  ASSUME NEW f, GoodFunction(f), NEW a \in Block
  PROVE  /\ \A b \in Members(f.succ[a]) :
              /\ Occurrences(f.succ[a], b) = Occurrences(f.pre[b], a)
              /\ f.code[a][Len(f.code[a])] = "br"
              /\ {a, b} \subseteq Members(f.blocks)
         /\ \A c \in Members(f.pre[a]) : a \in Members(f.succ[c])
<1>1. /\ \A x \in Block : f.pre[x] \in Seq(Block) /\ f.succ[x] \in Seq(Block)
      /\ \A x \in Block : Linked(f, x)
      /\ \A x \in Block \ Members(f.blocks) : Unused(f, x)
  BY DEF GoodFunction, FunctionType
<1>2. ASSUME NEW b \in Members(f.succ[a])
      PROVE  /\ Occurrences(f.succ[a], b) = Occurrences(f.pre[b], a)
             /\ f.code[a][Len(f.code[a])] = "br"
             /\ {a, b} \subseteq Members(f.blocks)
  <2>1. b \in Block
    <3>1. Members(f.succ[a]) \subseteq Block
      BY <1>1, MembersOfSeq
    <3> QED BY <3>1
  <2>2. f.succ[a] # << >>
    BY MembersOfEmpty
  <2>3. a \in Members(f.blocks)
    BY <1>1, <2>2 DEF Unused
  <2> QED BY <1>1, <2>1, <2>2, <2>3 DEF Linked
<1>3. ASSUME NEW c \in Members(f.pre[a]) PROVE a \in Members(f.succ[c])
  <2>1. c \in Block
    <3>1. Members(f.pre[a]) \subseteq Block
      BY <1>1, MembersOfSeq
    <3> QED BY <3>1
  <2>2. Occurrences(f.pre[a], c) > 0
    BY <1>1, OccursIffMember
  <2>3. Occurrences(f.succ[c], a) > 0
    BY <1>1, <2>1, <2>2 DEF Linked
  <2> QED BY <1>1, <2>1, <2>3, OccursIffMember
<1> QED BY <1>2, <1>3

(* Successor and predecessor lists never disagree, not even after the      *)
(* false block of an if without else is removed.                           *)
THEOREM EdgesAgree == BSpec => []EdgesMirrored
<1>1. BInv => EdgesMirrored
  <2> SUFFICES ASSUME BInv PROVE EdgesMirrored
    OBVIOUS
  <2>1. GoodFunction(fn)
    BY DEF BInv, Inv
  <2> QED BY <2>1, MirroredFunction DEF EdgesMirrored
<1> QED BY <1>1, InvariantHolds, PTL

LEMMA ClosedWhenBuilt ==
  ASSUME NEW f, NEW d, NEW c, NEW x, Inv(f, << >>, d, c, x)
  PROVE  (\A b \in Members(f.blocks) : is_terminated(f, b)) /\ f.pre[Entry(f)] = << >>
<1>1. /\ GoodFunction(f) /\ Closed(f, << >>) /\ f.insert \in Members(f.blocks)
      /\ f \in FunctionType
  BY DEF Inv, InsertFits, GoodFunction
<1>2. \A b \in Members(f.blocks) : is_terminated(f, b)
  <2>1. Len(<< >>) = 0 /\ 1..0 = {}
    OBVIOUS
  <2> QED BY <1>1, <2>1 DEF Closed
<1>3. Entry(f) = 1 /\ 1 \in Block
  <2>1. f.blocks # << >>
    BY <1>1, MembersOfEmpty
  <2>2. f.next \in 1..(MaxBlocks + 1) /\ f.insert \in 1..(f.next - 1) /\ MaxBlocks \in Nat
    BY <1>1, BoundsTyped DEF GoodFunction, FunctionType
  <2>3. 1 \in Block
    BY <2>2 DEF Block
  <2> QED BY <1>1, <2>1, <2>3 DEF Entry, GoodFunction
<1>4. ASSUME f.pre[1] # << >> PROVE FALSE
  <2>1. f.pre[1] \in Seq(Block)
    BY <1>1, <1>3 DEF FunctionType
  <2>2. PICK a : a \in Members(f.pre[1])
    <3>1. Len(f.pre[1]) \in Nat \ {0}
      BY <2>1, <1>4
    <3>2. f.pre[1][1] \in Members(f.pre[1])
      BY <3>1 DEF Members
    <3> QED BY <3>2
  <2>3. a \in Block
    <3>1. Members(f.pre[1]) \subseteq Block
      BY <2>1, MembersOfSeq
    <3> QED BY <2>2, <3>1
  <2>4. 1 \in Members(f.succ[a])
    BY <1>1, <1>3, <2>2, MirroredFunction
  <2>5. f.succ[a] # << >>
    BY <2>4, MembersOfEmpty
  <2>6. Linked(f, a)
    BY <1>1, <2>3 DEF GoodFunction
  <2> QED BY <2>4, <2>5, <2>6 DEF Linked
<1> QED BY <1>2, <1>3, <1>4

(* Whatever statements a function has, once it is built each of its blocks *)
(* ends in a branch or a return, the blocks after a loop or an if and the  *)
(* one after the last statement included; and nothing jumps to its entry.  *)
THEOREM FunctionWellFormed == BSpec => []WellFormedWhenBuilt
<1>1. BInv => WellFormedWhenBuilt
  <2> SUFFICES ASSUME BInv, todo = << >>
               PROVE  /\ \A b \in Members(fn.blocks) : is_terminated(fn, b)
                      /\ fn.pre[Entry(fn)] = << >>
    BY DEF WellFormedWhenBuilt, Built
  <2>1. Inv(fn, << >>, depth, control, index)
    BY DEF BInv
  <2> QED BY <2>1, ClosedWhenBuilt
<1> QED BY <1>1, InvariantHolds, PTL

LEMMA ScopesWhileBuilding ==
  ASSUME NEW f, NEW s, NEW d, NEW c, NEW x, Inv(f, s, d, c, x)
  PROVE  IF s = << >> \/ s[1].do = "function" THEN d = 1 ELSE d > 1
<1>1. Shaped(s) /\ d = 1 + Occurrences(ScopeItems(s), 1) /\ s \in Seq(Item)
  BY DEF Inv, ScopesLeft, Shaped
<1>2. CASE s = << >>
  BY <1>1, <1>2, ScopesOfNone
<1>3. CASE s # << >> /\ s[1].do = "function"
  <2>1. s = <<s[1]>> /\ s[1] \in Item
    BY <1>1, <1>3, AloneItem
  <2>2. Occurrences(ScopeItems(<<s[1]>>), 1) = InScope(s[1])
    BY <2>1, ScopesOfOne
  <2>3. InScope(s[1]) = 0
    BY <1>3 DEF InScope
  <2> QED BY <1>1, <1>3, <2>1, <2>2, <2>3
<1>4. CASE s # << >> /\ s[1].do # "function"
  <2> DEFINE m == Len(s)
             v == ScopeItems(s)
  <2>1. m \in Nat \ {0}
    BY <1>1, <1>4
  <2>2. s[m].do = "end"
    <3>1. s[m].do \in {"end", "function"}
      BY <1>1, <1>4 DEF Shaped
    <3>2. ASSUME s[m].do = "function" PROVE FALSE
      <4>1. m # 1
        BY <1>4, <3>2
      <4> HIDE DEF m
      <4>2. m \in 2..m
        BY <2>1, <4>1
      <4>3. s[m].do \in Resumed \/ s[m].do \in AfterExpression
        BY <1>1, <4>2 DEF Shaped, m
      <4> QED BY <3>2, <4>3 DEF Resumed, AfterExpression
    <3> QED BY <3>1, <3>2
  <2>3. v \in Seq({0, 1}) /\ Len(v) = m /\ \A i \in 1..m : v[i] = InScope(s[i])
    BY <1>1, ScopeItemsTyped
  <2>4. InScope(s[m]) = 1
    BY <2>2 DEF InScope
  <2> HIDE DEF m, v
  <2>5. 1 \in Members(v)
    BY <2>1, <2>3, <2>4 DEF Members
  <2>6. Occurrences(v, 1) > 0 /\ Occurrences(v, 1) \in Nat
    BY <2>3, <2>5, OccursIffMember, OccurrencesFinite
  <2>7. d = 1 + Occurrences(v, 1)
    BY <1>1 DEF v
  <2>8. d > 1
    BY <2>6, <2>7
  <2> QED BY <1>4, <2>8
<1> QED BY <1>2, <1>3, <1>4

(* The scopes of a function are all left when it is built, also those that *)
(* a return inside a compound leaves early, and its own scope is not left  *)
(* before.                                                                 *)
THEOREM ScopesMatch == BSpec => []ScopesBalanced
<1>1. BInv => ScopesBalanced
  <2> SUFFICES ASSUME BInv PROVE ScopesBalanced
    OBVIOUS
  <2>1. IF todo = << >> \/ todo[1].do = "function" THEN depth = 1 ELSE depth > 1
    BY ScopesWhileBuilding DEF BInv
  <2>2. todo # << >> => Head(todo) = todo[1]
    <3>1. todo \in Seq(Item)
      BY DEF BInv, Inv, Shaped
    <3> QED BY <3>1
  <2> QED BY <2>1, <2>2 DEF ScopesBalanced, Built, Doing
<1> QED BY <1>1, InvariantHolds, PTL

-----------------------------------------------------------------------------
(* The ranks of the blocks while the function is built: the builder goes   *)
(* on in one block after the other, and the rank of a block says when it   *)
(* did; 0 means that it has not yet.                                       *)
InLoop(item) == item.do \in {"loop", "body"}

Ranks(f, r) ==
    /\ r \in [Block -> Nat] /\ f.insert \in Block /\ r[f.insert] # 0
    /\ \A u, v \in Block : r[u] = r[v] /\ r[u] # 0 => u = v
    /\ \A u \in Block : r[u] <= r[f.insert] /\ (r[u] = 0 \/ r[1] <= r[u])
    /\ 1 \in Block /\ r[1] # 0

(* Whatever enters the blocks gone on in between b and a comes from there. *)
Closing(f, r, b, a) ==
    \A x, y \in Block :
        Step(f, x, y) /\ r[b] < r[y] /\ r[y] <= r[a] => r[b] <= r[x] /\ r[x] <= r[a]

RankedEdges(f, r) ==
    /\ \A u, v \in Block : Step(f, u, v) =>
         r[u] # 0 /\ (r[v] # 0 /\ r[v] <= r[u] => Closing(f, r, v, u))
    /\ \A b \in Block : f.pre[b] # << >> =>
         /\ f.pre[b][1] \in Block /\ r[f.pre[b][1]] # 0
         /\ r[b] = 0 \/ r[f.pre[b][1]] < r[b]

Unranked(f, s, r) ==
    /\ \A k \in 1..Len(s) : \A b \in Owns(s[k]) : r[b] = 0
    /\ \A b \in Block \ Members(f.blocks) : r[b] = 0
    /\ \A b \in Members(f.blocks) : r[b] = 0 => \E k \in 1..Len(s) : b \in Owns(s[k])

(* The loop with head j is open: what stands before its head has edges     *)
(* only up to the head and to what the statements around the loop wait     *)
(* for, and no loop that is closed already spans the head.                 *)
OutsideOf(f, s, r, k, j) ==
    \A u, v \in Block : Step(f, u, v) /\ r[u] < r[j] =>
        /\ r[v] <= r[j]
        /\ r[v] = 0 => \E m \in (k + 1)..Len(s) : v \in Owns(s[m])

LoopHolds(f, s, r, k, j) ==
    /\ j \in Block /\ r[j] # 0 /\ f.pre[j] # << >>
    /\ OutsideOf(f, s, r, k, j)
    /\ \A u, v \in Block : Step(f, u, v) /\ r[v] # 0 /\ r[v] <= r[u] =>
         ~(r[v] < r[j] /\ r[j] <= r[u])
    /\ \A m \in (k + 1)..Len(s) : InLoop(s[m]) => r[s[m].judgeBB] <= r[j]

Ranked(f, s, r) ==
    /\ Ranks(f, r) /\ RankedEdges(f, r) /\ Unranked(f, s, r)
    /\ \A k \in 1..Len(s) : InLoop(s[k]) => LoopHolds(f, s, r, k, s[k].judgeBB)

-----------------------------------------------------------------------------
(* A step that puts items in place of the head of s, adds edges to T and   *)
(* goes on in the blocks N, the insert block last; w are the ranks after.  *)
Free(f, s, b) == b \notin Members(f.blocks) \/ b \in Owns(s[1])

NewRanks(f, g, r, w, N) ==
    /\ N \subseteq Members(g.blocks) /\ Members(g.blocks) \subseteq Block
    /\ w \in [Block -> Nat] /\ g.insert \in Block
    /\ \A b \in Block \ N : w[b] = r[b]
    /\ \A b \in N : w[b] > r[f.insert]
    /\ \A b, c \in N : w[b] = w[c] => b = c
    /\ \A b \in Block : w[b] <= w[g.insert]

Provided(f, g, s, items, N, T) ==
    /\ T \subseteq Block
    /\ \A b \in T : Free(f, s, b) \/ (InLoop(s[1]) /\ b = s[1].judgeBB)
    /\ \A b \in N : Free(f, s, b) /\ \A k \in 1..Len(items) : b \notin Owns(items[k])
    /\ Members(f.blocks) \ Owns(s[1]) \subseteq Members(g.blocks)
    /\ \A b \in Members(g.blocks) :
         Free(f, s, b) => b \in N \/ \E k \in 1..Len(items) : b \in Owns(items[k])
    /\ \A k \in 1..Len(items) : \A b \in Owns(items[k]) : Free(f, s, b)

NewHead(f, g, items, N, T, j) ==
    /\ j = g.insert /\ j \in N /\ g.pre[j] # << >>
    /\ \A m \in 1..Len(items) : \A b \in Owns(items[m]) : b \notin Members(f.blocks) /\ b \notin T

LoopsProvided(f, g, s, items, N, T) ==
    /\ \A k, m \in 1..Len(items) : InLoop(items[k]) /\ InLoop(items[m]) => k = m
    /\ \A k \in 1..Len(items) : InLoop(items[k]) =>
         \/ InLoop(s[1]) /\ items[k].judgeBB = s[1].judgeBB
         \/ NewHead(f, g, items, N, T, items[k].judgeBB)

Moved(f, g, s, items, r, w, N, T) ==
    /\ GoodFunction(f) /\ GoodFunction(g)
    /\ s \in Seq(Item) /\ s # << >> /\ items \in Seq(Item)
    /\ Waiting(f, s) /\ Ranked(f, s, r) /\ Links(f, g, f.insert, T)
    /\ NewRanks(f, g, r, w, N) /\ Provided(f, g, s, items, N, T)
    /\ LoopsProvided(f, g, s, items, N, T)

RanksAround(f, g, s, r, w, N, T) ==
    /\ r \in [Block -> Nat] /\ w \in [Block -> Nat] /\ f.insert \in Block
    /\ \A b \in Block : Free(f, s, b) => r[b] = 0
    /\ \A b \in N : r[b] = 0
    /\ \A b \in Block \ N : w[b] = r[b]
    /\ \A u, v \in Block : Step(g, u, v) =>
         /\ u \notin N /\ w[u] = r[u] /\ r[u] # 0 /\ r[u] <= r[f.insert]
         /\ Step(f, u, v) \/ (u = f.insert /\ v \in T)
    /\ \A u, v \in Block : w[v] <= r[u] => v \notin N /\ w[v] = r[v]
    /\ \A v \in T : r[v] # 0 => InLoop(s[1]) /\ v = s[1].judgeBB
    /\ \A k \in 2..Len(s) : \A b \in Owns(s[k]) : b \notin N /\ ~Free(f, s, b)
    /\ \A u, v \in Block : Step(f, u, v) => Step(g, u, v) /\ v \in Members(f.blocks)

LEMMA MovedRanks ==
  ASSUME NEW f, NEW g, NEW s, NEW items, NEW r, NEW w, NEW N, NEW T,
         Moved(f, g, s, items, r, w, N, T)
  PROVE  RanksAround(f, g, s, r, w, N, T)
<1> DEFINE a == f.insert
<1>1. /\ GoodFunction(f) /\ s \in Seq(Item) /\ s # << >> /\ Waiting(f, s)
      /\ Ranks(f, r) /\ RankedEdges(f, r) /\ Unranked(f, s, r)
      /\ Links(f, g, a, T) /\ NewRanks(f, g, r, w, N) /\ Provided(f, g, s, items, N, T)
  BY DEF Moved, Ranked
<1>2. /\ r \in [Block -> Nat] /\ w \in [Block -> Nat] /\ a \in Block /\ r[a] # 0
      /\ \A u \in Block : r[u] <= r[a]
      /\ \A b \in Block \ N : w[b] = r[b]
      /\ \A b \in N : w[b] > r[a] /\ b \in Block
  BY <1>1 DEF Ranks, NewRanks
<1>3. 1 \in 1..Len(s) /\ \A k \in 2..Len(s) : k \in 1..Len(s) /\ k # 1
  BY <1>1
<1>4. ASSUME NEW b \in Block, Free(f, s, b) PROVE r[b] = 0
  BY <1>1, <1>3, <1>4 DEF Unranked, Free
<1>5. \A b \in N : r[b] = 0
  BY <1>1, <1>2, <1>4 DEF Provided
<1>6. ASSUME NEW u \in Block, NEW v \in Block, Step(g, u, v)
      PROVE  /\ u \notin N /\ w[u] = r[u] /\ r[u] # 0 /\ r[u] <= r[a]
             /\ Step(f, u, v) \/ (u = a /\ v \in T)
  <2>1. Step(f, u, v) \/ (u = a /\ v \in T)
    BY <1>1, <1>6 DEF Links
  <2>2. r[u] # 0
    BY <1>1, <1>2, <2>1 DEF RankedEdges
  <2> QED BY <1>2, <1>5, <2>1, <2>2
<1>7. ASSUME NEW u \in Block, NEW v \in Block, w[v] <= r[u] PROVE v \notin N /\ w[v] = r[v]
  <2>1. w[v] \in Nat /\ r[u] \in Nat /\ r[a] \in Nat /\ r[u] <= r[a]
    BY <1>2
  <2>2. ~(w[v] > r[a])
    BY <1>7, <2>1
  <2> QED BY <1>2, <2>2
<1>8. ASSUME NEW v \in T, r[v] # 0 PROVE InLoop(s[1]) /\ v = s[1].judgeBB
  BY <1>1, <1>4, <1>8 DEF Provided
<1>9. ASSUME NEW k \in 2..Len(s), NEW b \in Owns(s[k]) PROVE b \notin N /\ ~Free(f, s, b)
  <2>1. Owns(s[1]) \cap Owns(s[k]) = {} /\ b \in Members(f.blocks)
    BY <1>1, <1>3 DEF Waiting, Apart, ItemFits
  <2> QED BY <1>1, <2>1 DEF Free, Provided
<1>10. ASSUME NEW u \in Block, NEW v \in Block, Step(f, u, v)
       PROVE  Step(g, u, v) /\ v \in Members(f.blocks)
  <2>1. Linked(f, u)
    BY <1>1 DEF GoodFunction
  <2>2. f.succ[u] # << >>
    BY <1>10, MembersOfEmpty DEF Step
  <2>3. Members(f.succ[u]) \subseteq Members(f.blocks)
    BY <2>1, <2>2 DEF Linked
  <2> QED BY <1>1, <1>10, <2>3 DEF Links, Step
<1> QED BY <1>2, <1>4, <1>5, <1>6, <1>7, <1>8, <1>9, <1>10 DEF RanksAround

HeadLoop(f, s, r) ==
    InLoop(s[1]) =>
      LET j == s[1].judgeBB IN
      /\ j \in Block /\ r[j] # 0 /\ f.pre[j] # << >>
      /\ \A u, v \in Block : Step(f, u, v) /\ r[u] < r[j] => r[v] <= r[j]
      /\ \A u, v \in Block : Step(f, u, v) /\ r[v] # 0 /\ r[v] <= r[u] =>
           ~(r[v] < r[j] /\ r[j] <= r[u])

LEMMA MovedHead ==
  ASSUME NEW f, NEW g, NEW s, NEW items, NEW r, NEW w, NEW N, NEW T,
         Moved(f, g, s, items, r, w, N, T)
  PROVE  HeadLoop(f, s, r)
<1>1. 1 \in 1..Len(s)
  BY DEF Moved
<1>2. InLoop(s[1]) => LoopHolds(f, s, r, 1, s[1].judgeBB)
  BY <1>1 DEF Moved, Ranked
<1> QED BY <1>2 DEF HeadLoop, LoopHolds, OutsideOf

LEMMA MovedEdges ==
  ASSUME NEW f, NEW g, NEW s, NEW items, NEW r, NEW w, NEW N, NEW T,
         Moved(f, g, s, items, r, w, N, T)
  PROVE  RankedEdges(g, w)
<1> DEFINE a == f.insert
           j == s[1].judgeBB
<1>1. RanksAround(f, g, s, r, w, N, T) /\ HeadLoop(f, s, r)
  BY MovedRanks, MovedHead
<1>2. /\ RankedEdges(f, r) /\ Links(f, g, a, T) /\ NewRanks(f, g, r, w, N)
      /\ T \subseteq Block /\ Ranks(f, r)
  BY DEF Moved, Ranked, Provided
<1>3. /\ r \in [Block -> Nat] /\ w \in [Block -> Nat] /\ a \in Block
      /\ \A b \in N : r[b] = 0
      /\ \A b \in Block \ N : w[b] = r[b]
      /\ \A v \in T : r[v] # 0 => InLoop(s[1]) /\ v = j
      /\ \A u, v \in Block : w[v] <= r[u] => v \notin N /\ w[v] = r[v]
  BY <1>1 DEF RanksAround
<1>4. \A u, v \in Block : Step(g, u, v) =>
         /\ u \notin N /\ w[u] = r[u] /\ r[u] # 0 /\ r[u] <= r[a]
         /\ Step(f, u, v) \/ (u = a /\ v \in T)
  BY <1>1 DEF RanksAround
<1>5. ASSUME NEW u \in Block, NEW v \in Block, Step(g, u, v), w[v] # 0, w[v] <= w[u],
             NEW x \in Block, NEW y \in Block, Step(g, x, y), w[v] < w[y], w[y] <= w[u]
      PROVE  w[v] <= w[x] /\ w[x] <= w[u]
  <2>1. /\ w[u] = r[u] /\ r[u] <= r[a] /\ w[x] = r[x] /\ r[x] <= r[a]
        /\ Step(f, u, v) \/ (u = a /\ v \in T)
        /\ Step(f, x, y) \/ (x = a /\ y \in T)
    BY <1>4, <1>5
  <2>2. w[v] = r[v] /\ w[y] = r[y]
    BY <1>3, <1>5, <2>1
  <2>3. r[v] # 0 /\ r[v] <= r[u] /\ r[v] < r[y] /\ r[y] <= r[u] /\ r[y] # 0
        /\ r[v] \in Nat /\ r[u] \in Nat /\ r[y] \in Nat /\ r[x] \in Nat /\ r[a] \in Nat
    BY <1>3, <1>5, <2>1, <2>2
  <2>4. CASE Step(f, u, v) /\ Step(f, x, y)
    <3>1. Closing(f, r, v, u)
      BY <1>2, <2>3, <2>4 DEF RankedEdges
    <3> QED BY <2>1, <2>2, <2>3, <2>4, <3>1 DEF Closing
  <2>5. CASE Step(f, u, v) /\ ~Step(f, x, y)
    <3>1. InLoop(s[1]) /\ y = j
      BY <1>3, <2>1, <2>3, <2>5
    <3>2. ~(r[v] < r[j] /\ r[j] <= r[u])
      BY <1>1, <2>3, <2>5, <3>1 DEF HeadLoop
    <3> QED BY <2>3, <3>1, <3>2
  <2>6. CASE ~Step(f, u, v)
    <3>1. u = a /\ InLoop(s[1]) /\ v = j
      BY <1>3, <2>1, <2>3, <2>6
    <3>2. CASE Step(f, x, y)
      <4>1. r[x] < r[j] => r[y] <= r[j]
        BY <1>1, <3>1, <3>2 DEF HeadLoop
      <4> QED BY <2>1, <2>2, <2>3, <3>1, <4>1
    <3>3. CASE ~Step(f, x, y)
      <4>1. x = a
        BY <2>1, <3>3
      <4> QED BY <2>1, <2>2, <2>3, <3>1, <4>1
    <3> QED BY <3>2, <3>3
  <2> QED BY <2>4, <2>5, <2>6
<1>6. ASSUME NEW b \in Block, g.pre[b] # << >>
      PROVE  /\ g.pre[b][1] \in Block /\ w[g.pre[b][1]] # 0
             /\ w[b] = 0 \/ w[g.pre[b][1]] < w[b]
  <2>1. PICK x : x = g.pre[b][1]
    OBVIOUS
  <2>2. /\ f.pre[b] # << >> => x = f.pre[b][1]
        /\ f.pre[b] = << >> => x = a /\ b \in T
    BY <1>2, <1>6, <2>1 DEF Links
  <2>3. x \in Block /\ r[x] # 0 /\ (r[b] # 0 => r[x] < r[b])
    <3>1. CASE f.pre[b] # << >>
      BY <1>2, <2>2, <3>1 DEF RankedEdges
    <3>2. CASE f.pre[b] = << >>
      <4>1. r[b] = 0
        <5>1. r[b] # 0 => InLoop(s[1]) /\ b = j
          BY <1>3, <2>2, <3>2
        <5> QED BY <1>1, <3>2, <5>1 DEF HeadLoop
      <4>2. r[a] # 0
        BY <1>2 DEF Ranks
      <4> QED BY <1>3, <2>2, <3>2, <4>1, <4>2
    <3> QED BY <3>1, <3>2
  <2>4. x \notin N /\ w[x] = r[x] /\ r[x] \in Nat /\ w[b] \in Nat /\ r[b] \in Nat /\ r[a] \in Nat
    BY <1>3, <2>3
  <2>5. CASE b \in N
    <3>1. w[b] > r[a] /\ r[x] <= r[a]
      BY <1>2, <2>3, <2>5 DEF NewRanks, Ranks
    <3> QED BY <2>1, <2>3, <2>4, <3>1
  <2>6. CASE b \notin N
    <3>1. w[b] = r[b]
      BY <1>3, <2>6
    <3> QED BY <2>1, <2>3, <2>4, <3>1
  <2> QED BY <2>5, <2>6
<1>7. ASSUME NEW u \in Block, NEW v \in Block, Step(g, u, v) PROVE w[u] # 0
  BY <1>4, <1>7
<1> QED BY <1>5, <1>6, <1>7 DEF RankedEdges, Closing

LEMMA MovedUnranked ==
  ASSUME NEW f, NEW g, NEW s, NEW items, NEW r, NEW w, NEW N, NEW T,
         Moved(f, g, s, items, r, w, N, T), NEW t, t = items \o Tail(s)
  PROVE  Unranked(g, t, w)
<1> DEFINE n == Len(items)
           m == Len(s)
           l == Len(t)
<1>1. /\ m \in Nat \ {0} /\ n \in Nat /\ l = n + m - 1
      /\ \A i \in 1..n : i \in 1..l /\ t[i] = items[i]
      /\ \A i \in 1..l : i \notin 1..n => i - n + 1 \in 2..m /\ t[i] = s[i - n + 1]
  <2>1. s \in Seq(Item) /\ s # << >> /\ items \in Seq(Item)
    BY DEF Moved
  <2> QED BY <2>1, ReplaceHead
<1>2. /\ Unranked(f, s, r) /\ NewRanks(f, g, r, w, N) /\ Provided(f, g, s, items, N, T)
      /\ RanksAround(f, g, s, r, w, N, T) /\ GoodFunction(f)
      /\ \A i \in 1..m : ItemFits(f, s[i])
  BY MovedRanks DEF Moved, Ranked, Waiting
<1>3. /\ r \in [Block -> Nat] /\ w \in [Block -> Nat]
      /\ \A b \in Block : Free(f, s, b) => r[b] = 0
      /\ \A b \in Block \ N : w[b] = r[b]
      /\ \A k \in 2..m : \A b \in Owns(s[k]) : b \notin N /\ ~Free(f, s, b)
  BY <1>2 DEF RanksAround
<1>4. /\ Members(g.blocks) \subseteq Block /\ Members(f.blocks) \subseteq Block
      /\ N \subseteq Members(g.blocks) /\ f.insert \in Block
      /\ \A b \in N : w[b] > r[f.insert]
  BY <1>2, BlocksTyped DEF NewRanks, RanksAround
<1> HIDE DEF n, m, l
<1>5. ASSUME NEW i \in 1..l, NEW b \in Owns(t[i]) PROVE w[b] = 0
  <2>1. CASE i \in 1..n
    <3>1. b \in Owns(items[i])
      BY <1>1, <1>5, <2>1
    <3>2. Free(f, s, b) /\ b \notin N
      BY <1>2, <2>1, <3>1 DEF Provided, n
    <3>3. b \in Block
      <4>1. items[i] \in Item
        <5>1. items \in Seq(Item)
          BY DEF Moved
        <5> QED BY <2>1, <5>1 DEF n
      <4> QED BY <3>1, <4>1, ItemFields DEF Owns
    <3> QED BY <1>3, <3>2, <3>3
  <2>2. CASE i \notin 1..n
    <3>1. PICK k \in 2..m : t[i] = s[k]
      BY <1>1, <2>2
    <3>2. k \in 1..m
      BY <1>1
    <3>3. b \in Owns(s[k]) /\ b \notin N /\ b \in Block
      BY <1>2, <1>3, <1>4, <1>5, <3>1, <3>2 DEF ItemFits
    <3>4. r[b] = 0
      BY <1>2, <3>2, <3>3 DEF Unranked, m
    <3> QED BY <1>3, <3>3, <3>4
  <2> QED BY <2>1, <2>2
<1>6. ASSUME NEW b \in Block \ Members(g.blocks) PROVE w[b] = 0
  <2>1. b \notin N /\ Free(f, s, b)
    BY <1>2, <1>4 DEF Provided, Free
  <2> QED BY <1>3, <2>1
<1>7. ASSUME NEW b \in Members(g.blocks), w[b] = 0 PROVE \E i \in 1..l : b \in Owns(t[i])
  <2>1. b \notin N
    <3>1. f.insert \in Block /\ r[f.insert] \in Nat
      BY <1>3, <1>4
    <3> QED BY <1>4, <1>7, <3>1
  <2>2. CASE Free(f, s, b)
    <3>1. \E k \in 1..n : b \in Owns(items[k])
      BY <1>2, <2>1, <2>2 DEF Provided, n
    <3> QED BY <1>1, <3>1
  <2>3. CASE ~Free(f, s, b)
    <3>1. r[b] = 0 /\ b \in Members(f.blocks)
      BY <1>3, <1>4, <1>7, <2>1, <2>3 DEF Free
    <3>2. PICK k \in 1..m : b \in Owns(s[k])
      BY <1>2, <3>1 DEF Unranked, m
    <3>3. k # 1
      BY <2>3, <3>2 DEF Free
    <3>4. k \in 2..m
      BY <1>1, <3>3
    <3> DEFINE i == k + n - 1
    <3>5. i \in 1..l /\ i \notin 1..n /\ i - n + 1 = k
      BY <1>1, <3>4
    <3> HIDE DEF i
    <3> QED BY <1>1, <3>2, <3>5
  <2> QED BY <2>2, <2>3
<1> QED BY <1>5, <1>6, <1>7 DEF Unranked, l

LEMMA PlaceBehind ==
  ASSUME NEW n \in Nat, NEW m \in Nat, NEW l, l = n + m - 1, NEW k \in Nat \ {0},
         NEW h \in Nat, h <= k + n - 1, NEW i \in (k + 1)..m
  PROVE  /\ i + n - 1 \in (h + 1)..l /\ i + n - 1 \in 1..l
         /\ i + n - 1 \notin 1..n /\ (i + n - 1) - n + 1 = i
OBVIOUS

LEMMA PlaceBefore ==
  ASSUME NEW n \in Nat, NEW m \in Nat, NEW l, l = n + m - 1, NEW k \in Nat \ {0, 1},
         NEW h, h = k + n - 1, NEW i \in (h + 1)..l
  PROVE  /\ i \in 1..l /\ i \notin 1..n /\ i - n + 1 \in (k + 1)..m
         /\ h \in Nat
OBVIOUS

(* What stands behind item h of t stands behind item k of s, and the loops *)
(* are the same.                                                           *)
Behind(s, t, k, h) ==
    /\ \A m \in (k + 1)..Len(s) : \E m2 \in (h + 1)..Len(t) : t[m2] = s[m]
    /\ \A m2 \in (h + 1)..Len(t) :
         InLoop(t[m2]) => \E m \in (k + 1)..Len(s) : t[m2] = s[m]

LEMMA LoopStays ==
  ASSUME NEW f, NEW g, NEW s, NEW items, NEW r, NEW w, NEW N, NEW T,
         Moved(f, g, s, items, r, w, N, T), NEW t,
         NEW k \in 1..Len(s), InLoop(s[k]), NEW h, Behind(s, t, k, h),
         NEW j, j = s[k].judgeBB
  PROVE  LoopHolds(g, t, w, h, j)
<1> DEFINE a == f.insert
           m == Len(s)
<1>1. /\ RanksAround(f, g, s, r, w, N, T) /\ HeadLoop(f, s, r)
      /\ Links(f, g, a, T) /\ Ranks(f, r) /\ s \in Seq(Item) /\ s # << >>
  BY MovedRanks, MovedHead DEF Moved, Ranked
<1>2. LoopHolds(f, s, r, k, j)
  BY DEF Moved, Ranked
<1>3. /\ r \in [Block -> Nat] /\ w \in [Block -> Nat] /\ a \in Block
      /\ \A b \in N : r[b] = 0
      /\ \A b \in Block \ N : w[b] = r[b]
      /\ \A v \in T : r[v] # 0 => InLoop(s[1]) /\ v = s[1].judgeBB
      /\ \A u, v \in Block : w[v] <= r[u] => v \notin N /\ w[v] = r[v]
      /\ \A i \in 2..m : \A b \in Owns(s[i]) : b \notin N
      /\ \A u \in Block : r[u] <= r[a]
  BY <1>1 DEF RanksAround, Ranks
<1>4. \A u, v \in Block : Step(g, u, v) =>
         /\ u \notin N /\ w[u] = r[u] /\ r[u] # 0 /\ r[u] <= r[a]
         /\ Step(f, u, v) \/ (u = a /\ v \in T)
  BY <1>1 DEF RanksAround
<1>5. m \in Nat /\ m >= 1 /\ k \in 1..m
  BY <1>1
<1> HIDE DEF m
<1>6. j \in Block /\ r[j] # 0 /\ w[j] = r[j] /\ w[j] # 0 /\ g.pre[j] # << >>
  BY <1>1, <1>2, <1>3 DEF LoopHolds, Links
<1>7. ASSUME NEW u \in Block, NEW v \in Block, Step(g, u, v), w[u] < w[j]
      PROVE  /\ w[v] <= w[j]
             /\ w[v] = 0 => \E m2 \in (h + 1)..Len(t) : v \in Owns(t[m2])
  <2>1. w[u] = r[u] /\ r[u] < r[j]
    BY <1>4, <1>6, <1>7
  <2>2. Step(f, u, v)
    <3>1. r[j] <= r[a] /\ r[j] \in Nat /\ r[u] \in Nat /\ r[a] \in Nat
      BY <1>3, <1>6
    <3>2. u # a
      BY <2>1, <3>1
    <3> QED BY <1>4, <1>7, <3>2
  <2>3. r[v] <= r[j] /\ (r[v] = 0 => \E i \in (k + 1)..m : v \in Owns(s[i]))
    BY <1>2, <2>1, <2>2 DEF LoopHolds, OutsideOf, m
  <2>4. v \notin N
    <3>1. SUFFICES ASSUME v \in N PROVE FALSE
      OBVIOUS
    <3>2. PICK i \in (k + 1)..m : v \in Owns(s[i])
      BY <1>3, <2>3, <3>1
    <3>3. i \in 2..m
      BY <1>5
    <3> QED BY <1>3, <3>1, <3>2, <3>3
  <2>5. w[v] = r[v]
    BY <1>3, <2>4
  <2>6. ASSUME w[v] = 0 PROVE \E m2 \in (h + 1)..Len(t) : v \in Owns(t[m2])
    <3>1. PICK i \in (k + 1)..m : v \in Owns(s[i])
      BY <2>3, <2>5, <2>6
    <3>2. PICK m2 \in (h + 1)..Len(t) : t[m2] = s[i]
      BY DEF Behind, m
    <3> QED BY <3>1, <3>2
  <2> QED BY <1>6, <2>3, <2>5, <2>6
<1>8. ASSUME NEW u \in Block, NEW v \in Block, Step(g, u, v), w[v] # 0, w[v] <= w[u]
      PROVE  ~(w[v] < w[j] /\ w[j] <= w[u])
  <2>1. /\ w[u] = r[u] /\ w[v] = r[v] /\ r[u] \in Nat /\ r[v] \in Nat
        /\ Step(f, u, v) \/ (u = a /\ v \in T)
    <3>1. /\ w[u] = r[u]
          /\ Step(f, u, v) \/ (u = a /\ v \in T)
      BY <1>4, <1>8
    <3>2. w[v] <= r[u]
      BY <1>8, <3>1
    <3>3. w[v] = r[v] /\ r[u] \in Nat /\ r[v] \in Nat
      BY <1>3, <3>2
    <3> QED BY <3>1, <3>3
  <2>2. CASE Step(f, u, v)
    <3>1. r[v] # 0 /\ r[v] <= r[u]
      BY <1>8, <2>1
    <3>2. ~(r[v] < r[j] /\ r[j] <= r[u])
      BY <1>2, <2>2, <3>1 DEF LoopHolds
    <3>3. w[v] = r[v] /\ w[u] = r[u] /\ w[j] = r[j]
      BY <1>6, <2>1
    <3> QED BY <3>2, <3>3
  <2>3. CASE ~Step(f, u, v)
    <3>1. InLoop(s[1]) /\ v = s[1].judgeBB
      BY <1>3, <1>8, <2>1, <2>3
    <3>2. r[j] <= r[v]
      <4>1. CASE k = 1
        BY <1>3, <3>1, <4>1
      <4>2. CASE k # 1
        <5>1. 1 \in 1..m /\ k \in (1 + 1)..m
          BY <1>5, <4>2
        <5>2. LoopHolds(f, s, r, 1, v)
          BY <3>1, <5>1 DEF Moved, Ranked, m
        <5> QED BY <5>1, <5>2 DEF LoopHolds, m
      <4> QED BY <4>1, <4>2
    <3>3. r[j] \in Nat /\ r[v] \in Nat
      BY <1>3, <1>6
    <3> QED BY <1>6, <2>1, <3>2, <3>3
  <2> QED BY <2>2, <2>3
<1>9. ASSUME NEW m2 \in (h + 1)..Len(t), InLoop(t[m2]) PROVE w[t[m2].judgeBB] <= w[j]
  <2>1. PICK i \in (k + 1)..m : t[m2] = s[i]
    BY <1>9 DEF Behind, m
  <2>2. i \in 1..m
    BY <1>5
  <2>3. LoopHolds(f, s, r, i, s[i].judgeBB)
    BY <1>9, <2>1, <2>2 DEF Moved, Ranked, m
  <2>4. r[s[i].judgeBB] <= r[j]
    BY <1>2, <1>9, <2>1 DEF LoopHolds, m
  <2>5. s[i].judgeBB \in Block /\ r[s[i].judgeBB] # 0
    BY <2>3 DEF LoopHolds
  <2>6. w[s[i].judgeBB] = r[s[i].judgeBB]
    BY <1>3, <2>5
  <2> QED BY <1>6, <2>1, <2>4, <2>6
<1> QED BY <1>6, <1>7, <1>8, <1>9 DEF LoopHolds, OutsideOf

LEMMA LoopBegins ==
  ASSUME NEW f, NEW g, NEW s, NEW items, NEW r, NEW w, NEW N, NEW T,
         Moved(f, g, s, items, r, w, N, T), NEW t, t = items \o Tail(s),
         NEW h \in 1..Len(items), InLoop(items[h]), NEW j, j = items[h].judgeBB,
         NewHead(f, g, items, N, T, j)
  PROVE  LoopHolds(g, t, w, h, j)
<1> DEFINE a == f.insert
           n == Len(items)
           m == Len(s)
           l == Len(t)
<1>1. /\ RanksAround(f, g, s, r, w, N, T) /\ NewRanks(f, g, r, w, N)
      /\ LoopsProvided(f, g, s, items, N, T) /\ Unranked(g, t, w)
      /\ Links(f, g, a, T) /\ Ranks(f, r) /\ s \in Seq(Item) /\ s # << >> /\ items \in Seq(Item)
      /\ GoodFunction(g)
  <2>1. RanksAround(f, g, s, r, w, N, T)
    BY MovedRanks
  <2>2. Unranked(g, t, w)
    BY MovedUnranked
  <2> QED BY <2>1, <2>2 DEF Moved, Ranked
<1>2. /\ m \in Nat \ {0} /\ n \in Nat /\ l = n + m - 1
      /\ \A i \in 1..n : i \in 1..l /\ t[i] = items[i]
      /\ \A i \in 1..l : i \notin 1..n => i - n + 1 \in 2..m /\ t[i] = s[i - n + 1]
  BY <1>1, ReplaceHead
<1>3. /\ r \in [Block -> Nat] /\ w \in [Block -> Nat] /\ a \in Block
      /\ \A b \in N : w[b] > r[a]
      /\ \A b \in Block \ N : w[b] = r[b]
      /\ \A u \in Block : r[u] <= r[a]
      /\ \A b \in Block : w[b] <= w[g.insert]
  BY <1>1 DEF NewRanks, RanksAround, Ranks
<1>4. /\ j = g.insert /\ j \in N /\ g.pre[j] # << >> /\ j \in Block
      /\ \A i \in 1..n : \A b \in Owns(items[i]) : b \notin Members(f.blocks) /\ b \notin T
  BY <1>1 DEF NewHead, NewRanks
<1>5. \A u, v \in Block : Step(g, u, v) =>
         /\ w[u] = r[u] /\ r[u] <= r[a]
         /\ Step(f, u, v) \/ (u = a /\ v \in T)
  BY <1>1 DEF RanksAround
<1> HIDE DEF n, m, l
<1>6. w[j] # 0 /\ w[j] > r[a] /\ w[j] \in Nat /\ r[a] \in Nat
  BY <1>3, <1>4
<1>7. ASSUME NEW u \in Block, NEW v \in Block, Step(g, u, v), w[v] = 0
      PROVE  \E i \in (h + 1)..l : v \in Owns(t[i])
  <2>1. v \notin N
    BY <1>3, <1>7
  <2>2. Step(f, u, v) \/ (u = a /\ v \in T)
    BY <1>5, <1>7
  <2>3. \A i \in 1..n : v \notin Owns(items[i])
    <3>1. CASE Step(f, u, v)
      <4>1. v \in Members(f.blocks)
        BY <1>1, <3>1 DEF RanksAround
      <4> QED BY <1>4, <4>1
    <3>2. CASE ~Step(f, u, v)
      BY <1>4, <2>2, <3>2
    <3> QED BY <3>1, <3>2
  <2>4. v \in Members(g.blocks)
    <3>1. Linked(g, u) /\ g.succ[u] # << >>
      BY <1>1, <1>7, MembersOfEmpty DEF GoodFunction, Step
    <3> QED BY <1>7, <3>1 DEF Linked, Step
  <2>5. PICK i \in 1..l : v \in Owns(t[i])
    BY <1>1, <1>7, <2>4 DEF Unranked, l
  <2>6. i \notin 1..n
    BY <1>2, <2>3, <2>5
  <2>7. i \in (h + 1)..l
    BY <1>2, <2>6 DEF n
  <2> QED BY <2>5, <2>7
<1>8. ASSUME NEW u \in Block, NEW v \in Block, Step(g, u, v), w[v] # 0, w[v] <= w[u]
      PROVE  ~(w[v] < w[j] /\ w[j] <= w[u])
  <2>1. w[u] <= r[a] /\ w[u] \in Nat
    BY <1>3, <1>5, <1>8
  <2> QED BY <1>6, <2>1
<1>9. ASSUME NEW i \in (h + 1)..l, InLoop(t[i]) PROVE w[t[i].judgeBB] <= w[j]
  <2>1. i \in 1..l
    BY <1>2 DEF n
  <2>2. i \notin 1..n
    <3>1. ASSUME i \in 1..n PROVE FALSE
      <4>1. InLoop(items[i]) /\ i # h
        BY <1>2, <1>9, <3>1 DEF n
      <4> QED BY <1>1, <3>1, <4>1 DEF LoopsProvided, n
    <3> QED BY <3>1
  <2>3. PICK k \in 2..m : t[i] = s[k]
    BY <1>2, <2>1, <2>2
  <2>4. s[k].judgeBB \in Block
    <3>1. s[k] \in Item
      BY <1>1, <1>2, <2>3 DEF m
    <3> QED BY <1>9, <2>3, <3>1, ItemFields DEF InLoop
  <2> QED BY <1>3, <1>4, <2>3, <2>4
<1>10. OutsideOf(g, t, w, h, j)
  BY <1>3, <1>4, <1>7 DEF OutsideOf, l
<1> QED BY <1>4, <1>6, <1>8, <1>9, <1>10 DEF LoopHolds, l

LEMMA MovedOn ==
  ASSUME NEW f, NEW g, NEW s, NEW items, NEW r, NEW w, NEW N, NEW T,
         Moved(f, g, s, items, r, w, N, T), NEW t, t = items \o Tail(s)
  PROVE  Ranked(g, t, w)
<1> DEFINE a == f.insert
           n == Len(items)
           m == Len(s)
           l == Len(t)
<1>1. /\ RankedEdges(g, w) /\ Unranked(g, t, w)
      /\ RanksAround(f, g, s, r, w, N, T)
  BY MovedEdges, MovedUnranked, MovedRanks
<1>2. /\ NewRanks(f, g, r, w, N) /\ LoopsProvided(f, g, s, items, N, T)
      /\ Ranks(f, r) /\ s \in Seq(Item) /\ s # << >> /\ items \in Seq(Item)
  BY DEF Moved, Ranked
<1>3. /\ m \in Nat \ {0} /\ n \in Nat /\ l = n + m - 1
      /\ \A i \in 1..n : i \in 1..l /\ t[i] = items[i]
      /\ \A i \in 1..l : i \notin 1..n => i - n + 1 \in 2..m /\ t[i] = s[i - n + 1]
  BY <1>2, ReplaceHead
<1>4. Ranks(g, w)
  <2>1. /\ r \in [Block -> Nat] /\ w \in [Block -> Nat] /\ a \in Block /\ g.insert \in Block
        /\ \A b \in N : r[b] = 0 /\ w[b] > r[a]
        /\ \A b, c \in N : w[b] = w[c] => b = c
        /\ \A b \in Block \ N : w[b] = r[b]
        /\ \A b \in Block : w[b] <= w[g.insert]
    BY <1>1, <1>2 DEF RanksAround, NewRanks
  <2>2. /\ r[a] # 0 /\ 1 \in Block /\ r[1] # 0
        /\ \A u, v \in Block : r[u] = r[v] /\ r[u] # 0 => u = v
        /\ \A u \in Block : r[u] <= r[a] /\ (r[u] = 0 \/ r[1] <= r[u])
    BY <1>2 DEF Ranks
  <2>3. w[1] = r[1] /\ w[a] = r[a]
    BY <2>1, <2>2
  <2>4. w[g.insert] # 0
    <3>1. w[a] <= w[g.insert] /\ w[a] \in Nat /\ w[g.insert] \in Nat
      BY <2>1
    <3> QED BY <2>2, <2>3, <3>1
  <2>5. ASSUME NEW u \in Block PROVE w[u] = 0 \/ w[1] <= w[u]
    <3>1. CASE u \in N
      <4>1. w[u] > r[a] /\ r[1] <= r[a] /\ r[1] \in Nat /\ r[a] \in Nat /\ w[u] \in Nat
        BY <2>1, <2>2, <3>1
      <4> QED BY <2>3, <4>1
    <3>2. CASE u \notin N
      BY <2>1, <2>2, <2>3, <3>2
    <3> QED BY <3>1, <3>2
  <2>6. ASSUME NEW u \in Block, NEW v \in Block, w[u] = w[v], w[u] # 0 PROVE u = v
    <3>1. ASSUME NEW x \in N, NEW y \in Block \ N PROVE w[x] # w[y]
      <4>1. x \in Block
        <5>1. N \subseteq Block
          BY <1>2 DEF NewRanks
        <5> QED BY <5>1
      <4>2. w[x] > r[a] /\ w[y] = r[y] /\ r[y] <= r[a] /\ r[y] \in Nat /\ r[a] \in Nat
            /\ w[x] \in Nat
        BY <2>1, <2>2, <4>1
      <4> QED BY <4>2
    <3> QED BY <2>1, <2>2, <2>6, <3>1
  <2> QED BY <2>1, <2>2, <2>3, <2>4, <2>5, <2>6 DEF Ranks
<1> HIDE DEF n, m, l
<1>5. ASSUME NEW h \in 1..l, InLoop(t[h]) PROVE LoopHolds(g, t, w, h, t[h].judgeBB)
  <2>1. CASE h \in 1..n
    <3>1. t[h] = items[h] /\ InLoop(items[h])
      BY <1>3, <1>5, <2>1
    <3>2. CASE InLoop(s[1]) /\ items[h].judgeBB = s[1].judgeBB
      <4>1. Behind(s, t, 1, h)
        <5>1. ASSUME NEW i \in (1 + 1)..m PROVE \E i2 \in (h + 1)..l : t[i2] = s[i]
          <6> DEFINE i2 == i + n - 1
          <6>0. h \in Nat /\ h <= 1 + n - 1 /\ n \in Nat /\ m \in Nat /\ l = n + m - 1
            BY <1>3, <2>1
          <6>1. i2 \in (h + 1)..l /\ i2 \in 1..l /\ i2 \notin 1..n /\ i2 - n + 1 = i
            BY <6>0, PlaceBehind
          <6> HIDE DEF i2
          <6> QED BY <1>3, <6>1
        <5>2. ASSUME NEW i2 \in (h + 1)..l, InLoop(t[i2])
              PROVE  \E i \in (1 + 1)..m : t[i2] = s[i]
          <6>1. i2 \in 1..l
            BY <1>3, <2>1
          <6>2. i2 \notin 1..n
            <7>1. ASSUME i2 \in 1..n PROVE FALSE
              <8>1. InLoop(items[i2])
                BY <1>3, <5>2, <7>1
              <8>2. h \in Int /\ i2 >= h + 1 /\ i2 \in Int
                BY <2>1, <5>2
              <8>3. i2 # h
                BY <8>2
              <8> QED BY <1>2, <2>1, <3>1, <7>1, <8>1, <8>3 DEF LoopsProvided, n
            <7> QED BY <7>1
          <6>3. i2 - n + 1 \in 2..m /\ t[i2] = s[i2 - n + 1]
            BY <1>3, <6>1, <6>2
          <6>4. 2..m = (1 + 1)..m
            OBVIOUS
          <6> QED BY <6>3, <6>4
        <5> QED BY <5>1, <5>2 DEF Behind, m, l
      <4>2. 1 \in 1..Len(s)
        BY <1>3 DEF m
      <4> QED BY <3>1, <3>2, <4>1, <4>2, LoopStays
    <3>3. CASE NewHead(f, g, items, N, T, items[h].judgeBB)
      <4>1. h \in 1..Len(items)
        BY <2>1 DEF n
      <4> QED BY <3>1, <3>3, <4>1, LoopBegins
    <3> QED BY <1>2, <2>1, <3>1, <3>2, <3>3 DEF LoopsProvided, n
  <2>2. CASE h \notin 1..n
    <3> DEFINE k == h - n + 1
    <3>1. k \in 2..m /\ k \in 1..m /\ t[h] = s[k] /\ h = k + n - 1
      <4>1. k \in 2..m /\ t[h] = s[k]
        BY <1>3, <2>2
      <4>2. m \in Nat /\ n \in Nat /\ l \in Nat
        BY <1>3
      <4>3. h \in Int
        BY <4>2
      <4>4. h = k + n - 1
        BY <4>2, <4>3
      <4> HIDE DEF k
      <4>5. k \in 1..m
        BY <4>1, <4>2
      <4> QED BY <4>1, <4>4, <4>5
    <3> HIDE DEF k
    <3>2. ASSUME NEW i \in (k + 1)..m PROVE \E i2 \in (h + 1)..l : t[i2] = s[i]
      <4> DEFINE i2 == i + n - 1
      <4>0. /\ h \in Nat /\ h <= k + n - 1 /\ n \in Nat /\ m \in Nat /\ l = n + m - 1
            /\ k \in Nat \ {0}
        BY <1>3, <3>1
      <4>1. i2 \in (h + 1)..l /\ i2 \in 1..l /\ i2 \notin 1..n /\ i2 - n + 1 = i
        BY <4>0, PlaceBehind
      <4> HIDE DEF i2
      <4> QED BY <1>3, <4>1
    <3>3. ASSUME NEW i2 \in (h + 1)..l PROVE \E i \in (k + 1)..m : t[i2] = s[i]
      <4>0. /\ h = k + n - 1 /\ n \in Nat /\ m \in Nat /\ l = n + m - 1
            /\ k \in Nat \ {0, 1}
        BY <1>3, <3>1
      <4>1. i2 \in 1..l /\ i2 \notin 1..n /\ i2 - n + 1 \in (k + 1)..m
        BY <4>0, PlaceBefore
      <4>2. i2 - n + 1 \in (k + 1)..m /\ t[i2] = s[i2 - n + 1]
        BY <1>3, <4>1
      <4> QED BY <4>2
    <3>4. Behind(s, t, k, h)
      BY <3>2, <3>3 DEF Behind, m, l
    <3>5. k \in 1..Len(s) /\ InLoop(s[k])
      BY <1>5, <3>1 DEF m
    <3> QED BY <3>1, <3>4, <3>5, LoopStays
  <2> QED BY <2>1, <2>2
<1> QED BY <1>1, <1>4, <1>5 DEF Ranked, l

-----------------------------------------------------------------------------
(* The same without the ranks: there are always ranks for the blocks gone  *)
(* on in.                                                                  *)
Advances(f, g, s, items, N, T) ==
    /\ GoodFunction(f) /\ GoodFunction(g)
    /\ s \in Seq(Item) /\ s # << >> /\ items \in Seq(Item)
    /\ Waiting(f, s) /\ Links(f, g, f.insert, T)
    /\ Provided(f, g, s, items, N, T) /\ LoopsProvided(f, g, s, items, N, T)

HasRanks(f, s) == \E r : Ranked(f, s, r)

LEMMA GoesNowhere ==
  ASSUME NEW f, NEW g, NEW s, NEW items, NEW T, Advances(f, g, s, items, {}, T),
         HasRanks(f, s), g.insert = f.insert, NEW t, t = items \o Tail(s)
  PROVE  HasRanks(g, t)
<1>1. PICK r : Ranked(f, s, r)
  BY DEF HasRanks
<1>2. Members(g.blocks) \subseteq Block
  <2>1. GoodFunction(g)
    BY DEF Advances
  <2> QED BY <2>1, BlocksTyped
<1>3. NewRanks(f, g, r, r, {})
  BY <1>1, <1>2 DEF NewRanks, Ranked, Ranks
<1>4. Moved(f, g, s, items, r, r, {}, T)
  BY <1>1, <1>3 DEF Advances, Moved
<1> QED BY <1>4, MovedOn DEF HasRanks

LEMMA GoesToOne ==
  ASSUME NEW f, NEW g, NEW s, NEW items, NEW N, NEW T, Advances(f, g, s, items, N, T),
         HasRanks(f, s), NEW b, N = {b}, g.insert = b, b \in Members(g.blocks),
         NEW t, t = items \o Tail(s)
  PROVE  HasRanks(g, t)
<1>1. PICK r : Ranked(f, s, r)
  BY DEF HasRanks
<1>2. Members(g.blocks) \subseteq Block
  <2>1. GoodFunction(g)
    BY DEF Advances
  <2> QED BY <2>1, BlocksTyped
<1> DEFINE top == r[f.insert]
           w == [u \in Block |-> IF u = b THEN top + 1 ELSE r[u]]
<1>3. r \in [Block -> Nat] /\ top \in Nat /\ \A u \in Block : r[u] <= top
  BY <1>1 DEF Ranked, Ranks
<1> HIDE DEF top
<1>4. /\ w \in [Block -> Nat] /\ w[b] = top + 1 /\ b \in Block
      /\ \A u \in Block : u # b => w[u] = r[u]
  BY <1>2, <1>3
<1> HIDE DEF w
<1>5. \A u \in Block : w[u] <= w[b]
  BY <1>3, <1>4
<1>6. w[b] > top
  BY <1>3, <1>4
<1>7. NewRanks(f, g, r, w, N)
  BY <1>2, <1>4, <1>5, <1>6 DEF NewRanks, top
<1>8. Moved(f, g, s, items, r, w, N, T)
  BY <1>1, <1>7 DEF Advances, Moved
<1> QED BY <1>8, MovedOn DEF HasRanks

LEMMA GoesToTwo ==
  ASSUME NEW f, NEW g, NEW s, NEW items, NEW N, NEW T, Advances(f, g, s, items, N, T),
         HasRanks(f, s), NEW b, NEW c, b # c, N = {b, c}, g.insert = b,
         b \in Members(g.blocks), c \in Members(g.blocks), NEW t, t = items \o Tail(s)
  PROVE  HasRanks(g, t)
<1>1. PICK r : Ranked(f, s, r)
  BY DEF HasRanks
<1>2. Members(g.blocks) \subseteq Block
  <2>1. GoodFunction(g)
    BY DEF Advances
  <2> QED BY <2>1, BlocksTyped
<1> DEFINE top == r[f.insert]
           w == [u \in Block |-> IF u = b THEN top + 2 ELSE IF u = c THEN top + 1 ELSE r[u]]
<1>3. r \in [Block -> Nat] /\ top \in Nat /\ \A u \in Block : r[u] <= top
  BY <1>1 DEF Ranked, Ranks
<1> HIDE DEF top
<1>4. /\ w \in [Block -> Nat] /\ w[b] = top + 2 /\ w[c] = top + 1 /\ b \in Block /\ c \in Block
      /\ \A u \in Block : u # b /\ u # c => w[u] = r[u]
  <2>1. b \in Block /\ c \in Block /\ b # c
    BY <1>1, <1>2 DEF Advances
  <2>2. top + 1 \in Nat /\ top + 2 \in Nat /\ \A u \in Block : r[u] \in Nat
    BY <1>3
  <2>3. w \in [Block -> Nat]
    BY <2>2
  <2>4. w[b] = top + 2
    BY <2>1
  <2>5. w[c] = top + 1
    BY <2>1
  <2>6. \A u \in Block : u # b /\ u # c => w[u] = r[u]
    OBVIOUS
  <2> QED BY <2>1, <2>3, <2>4, <2>5, <2>6
<1> HIDE DEF w
<1>5. \A u \in Block : w[u] <= w[b]
  <2> SUFFICES ASSUME NEW u \in Block PROVE w[u] <= w[b]
    OBVIOUS
  <2>1. top \in Nat /\ w[b] = top + 2
    BY <1>3, <1>4
  <2>2. CASE u = b
    BY <2>1, <2>2
  <2>3. CASE u # b /\ u = c
    BY <1>4, <2>1, <2>3
  <2>4. CASE u # b /\ u # c
    <3>1. w[u] = r[u] /\ r[u] \in Nat /\ r[u] <= top
      BY <1>3, <1>4, <2>4
    <3> QED BY <2>1, <3>1
  <2> QED BY <2>2, <2>3, <2>4
<1>6. w[b] > top /\ w[c] > top /\ w[b] # w[c]
  <2>1. w[b] = top + 2 /\ w[c] = top + 1 /\ top \in Nat
    BY <1>3, <1>4
  <2>2. top + 2 > top /\ top + 1 > top /\ top + 2 # top + 1
    BY <2>1
  <2> QED BY <2>1, <2>2
<1>7. NewRanks(f, g, r, w, N)
  BY <1>2, <1>4, <1>5, <1>6 DEF NewRanks, top
<1>8. Moved(f, g, s, items, r, w, N, T)
  BY <1>1, <1>7 DEF Advances, Moved
<1> QED BY <1>8, MovedOn DEF HasRanks

-----------------------------------------------------------------------------
(* The steps of the builder.                                               *)
LEMMA RankedQuiet ==
  ASSUME NEW f, NEW g, NEW s, s # << >>, GoodFunction(f), Shaped(s), Waiting(f, s),
         HasRanks(f, s), Extended(f, g), s[1].do \notin Owner,
         NEW items \in Seq(Item), \A k \in 1..Len(items) : items[k].do \notin Owner,
         NEW t, t = items \o Tail(s)
  PROVE  HasRanks(g, t)
<1>1. Links(f, g, f.insert, {})
  <2>1. SameGraph(f, g)
    BY DEF Extended, SameGraph
  <2> QED BY <2>1, NoLinks
<1>2. /\ Owns(s[1]) = {} /\ g.blocks = f.blocks /\ GoodFunction(g) /\ s \in Seq(Item)
      /\ g.insert = f.insert
  BY OwnsNothing DEF Extended, Shaped
<1>3. \A k \in 1..Len(items) : Owns(items[k]) = {} /\ ~InLoop(items[k])
  BY OwnsNothing DEF InLoop
<1>4. Provided(f, g, s, items, {}, {})
  BY <1>2, <1>3 DEF Provided, Free
<1>5. LoopsProvided(f, g, s, items, {}, {})
  BY <1>3 DEF LoopsProvided
<1>6. Advances(f, g, s, items, {}, {})
  BY <1>1, <1>2, <1>4, <1>5 DEF Advances
<1> QED BY <1>2, <1>6, GoesNowhere

(* What is put on the continuation ends in an item b that owns blocks.     *)
OwnsFor(f, g, s, b, N, T) ==
    /\ T \subseteq Block
    /\ \A y \in T : Free(f, s, y) \/ (InLoop(s[1]) /\ y = s[1].judgeBB)
    /\ \A y \in N : Free(f, s, y) /\ y \notin Owns(b)
    /\ Members(f.blocks) \ Owns(s[1]) \subseteq Members(g.blocks)
    /\ \A y \in Members(g.blocks) : Free(f, s, y) => y \in N \/ y \in Owns(b)
    /\ \A y \in Owns(b) : Free(f, s, y)

LoopsFor(f, g, s, b, N, T) ==
    InLoop(b) =>
        \/ InLoop(s[1]) /\ b.judgeBB = s[1].judgeBB
        \/ /\ b.judgeBB = g.insert /\ b.judgeBB \in N /\ g.pre[b.judgeBB] # << >>
           /\ \A y \in Owns(b) : y \notin Members(f.blocks) /\ y \notin T

LEMMA PairGoes ==
  ASSUME NEW f, NEW g, GoodFunction(f), GoodFunction(g),
         NEW s \in Seq(Item), s # << >>, Waiting(f, s),
         NEW e \in Seq(Item), NEW a, NEW b, Pair(e, a, b), a.do \notin Owner,
         NEW N, NEW T, Links(f, g, f.insert, T),
         OwnsFor(f, g, s, b, N, T), LoopsFor(f, g, s, b, N, T)
  PROVE  Advances(f, g, s, e, N, T)
<1>1. Len(e) = 2 /\ e[1] = a /\ e[2] = b /\ 1..2 = {1, 2}
  BY DEF Pair
<1>2. Owns(a) = {} /\ ~InLoop(a)
  BY OwnsNothing DEF InLoop
<1>3. \A k \in 1..Len(e) : k \in {1, 2}
  BY <1>1
<1>4. 2 \in 1..Len(e)
  BY <1>1
<1>5. \A k \in 1..Len(e) : Owns(e[k]) \subseteq Owns(b) /\ (InLoop(e[k]) => k = 2)
  BY <1>1, <1>2, <1>3
<1>6. Provided(f, g, s, e, N, T)
  <2>1. \A y \in N : Free(f, s, y) /\ \A k \in 1..Len(e) : y \notin Owns(e[k])
    BY <1>5 DEF OwnsFor
  <2>2. \A y \in Members(g.blocks) :
          Free(f, s, y) => y \in N \/ \E k \in 1..Len(e) : y \in Owns(e[k])
    BY <1>1, <1>4 DEF OwnsFor
  <2>3. \A k \in 1..Len(e) : \A y \in Owns(e[k]) : Free(f, s, y)
    BY <1>5 DEF OwnsFor
  <2> QED BY <2>1, <2>2, <2>3 DEF Provided, OwnsFor
<1>7. LoopsProvided(f, g, s, e, N, T)
  <2>1. ASSUME NEW k \in 1..Len(e), InLoop(e[k])
        PROVE  \/ InLoop(s[1]) /\ e[k].judgeBB = s[1].judgeBB
               \/ NewHead(f, g, e, N, T, e[k].judgeBB)
    <3>1. e[k] = b
      BY <1>1, <1>5, <2>1
    <3>2. CASE InLoop(s[1]) /\ b.judgeBB = s[1].judgeBB
      BY <3>1, <3>2
    <3>3. CASE ~(InLoop(s[1]) /\ b.judgeBB = s[1].judgeBB)
      <4>1. /\ b.judgeBB = g.insert /\ b.judgeBB \in N /\ g.pre[b.judgeBB] # << >>
            /\ \A y \in Owns(b) : y \notin Members(f.blocks) /\ y \notin T
        BY <2>1, <3>1, <3>3 DEF LoopsFor
      <4> QED BY <1>5, <3>1, <4>1 DEF NewHead
    <3> QED BY <3>2, <3>3
  <2> QED BY <1>5, <2>1 DEF LoopsProvided
<1> QED BY <1>6, <1>7 DEF Advances

LEMMA RoomToSplit ==
  ASSUME NEW f, NEW s, s # << >>, NEW d, NEW c, NEW x, Inv(f, s, d, c, x),
         s[1].do = "expr", NEW k \in Nat \ {0}, s[1].n = k
  PROVE  f.next + 2 <= MaxBlocks + 1
<1> DEFINE o == Owed(s)
           m == f.next
<1>1. Shaped(s) /\ WithinBounds(f, s, c, x) /\ GoodFunction(f)
  BY DEF Inv
<1>2. o = 2 * k + IF Len(s) >= 2 /\ s[2].do = "branch" THEN 3 ELSE 0
  BY <1>1, OwedIs
<1>3. /\ c \in Nat /\ x \in Nat /\ m \in Nat /\ MaxBlocks \in Nat
      /\ m + 3 * c + 2 * x + o <= MaxBlocks + 1
  BY <1>1, BlocksTyped, BoundsTyped DEF WithinBounds
<1> HIDE DEF o, m
<1>4. o \in Nat /\ o >= 2
  BY <1>2
<1>5. m + 2 <= MaxBlocks + 1
  BY <1>3, <1>4
<1> QED BY <1>5 DEF m

LEMMA RoomToBranch ==
  ASSUME NEW f, NEW s, s # << >>, NEW d, NEW c, NEW x, Inv(f, s, d, c, x),
         s[1].do = "branch"
  PROVE  f.next + 3 <= MaxBlocks + 1
<1> DEFINE o == Owed(s)
           m == f.next
<1>1. Shaped(s) /\ WithinBounds(f, s, c, x) /\ GoodFunction(f)
  BY DEF Inv
<1>2. o = 3
  BY <1>1, OwedIs
<1>3. /\ c \in Nat /\ x \in Nat /\ m \in Nat /\ MaxBlocks \in Nat
      /\ m + 3 * c + 2 * x + o <= MaxBlocks + 1
  BY <1>1, BlocksTyped, BoundsTyped DEF WithinBounds
<1> HIDE DEF o, m
<1>4. m + 3 <= MaxBlocks + 1
  BY <1>2, <1>3
<1> QED BY <1>4 DEF m

LEMMA RoomToLoop ==
  ASSUME NEW f, NEW s, s # << >>, NEW d, NEW c, NEW x, Inv(f, s, d, c, x),
         s[1].do = "stmt", c >= 1
  PROVE  f.next + 3 <= MaxBlocks + 1
<1> DEFINE o == Owed(s)
           m == f.next
<1>1. Shaped(s) /\ WithinBounds(f, s, c, x) /\ GoodFunction(f)
  BY DEF Inv
<1>2. o = 0
  BY <1>1, OwedIs
<1>3. /\ c \in Nat /\ x \in Nat /\ m \in Nat /\ MaxBlocks \in Nat
      /\ m + 3 * c + 2 * x + o <= MaxBlocks + 1
  BY <1>1, BlocksTyped, BoundsTyped DEF WithinBounds
<1> HIDE DEF o, m
<1>4. m + 3 <= MaxBlocks + 1
  BY <1>2, <1>3
<1> QED BY <1>4 DEF m

LEMMA RankedIndexed ==
  ASSUME NEW f, NEW s, s # << >>, NEW d, NEW c, NEW x, Inv(f, s, d, c, x), HasRanks(f, s),
         s[1].do = "expr", NEW k \in Nat \ {0}, s[1].n = k,
         NEW g, g = SplitForIndex(f), NEW t, t = Expr(k - 1) \o Tail(s)
  PROVE  HasRanks(g, t)
<1>1. /\ GoodFunction(f) /\ s \in Seq(Item) /\ Waiting(f, s) /\ InsertFits(f, s)
  BY DEF Inv, Shaped
<1>2. InsertOpen(f)
  BY <1>1 DEF InsertFits, InsertOpen, Resumed
<1>3. PICK b1 \in Block, b2 \in Block : Split(f, g, b1, b2)
  BY <1>1, <1>2, RoomToSplit, SplitKeeps
<1>4. /\ GoodFunction(g) /\ g.insert = b1 /\ b1 # b2
      /\ b1 \notin Members(f.blocks) /\ b2 \notin Members(f.blocks)
      /\ Members(g.blocks) = Members(f.blocks) \cup {b1, b2}
      /\ Links(f, g, f.insert, {b2, b1})
  BY <1>3 DEF Split, Grown
<1>5. k - 1 \in Nat
  OBVIOUS
<1>6. PICK a \in Item : a.do = "expr" /\ a.n = k - 1 /\ Expr(k - 1) = <<a>>
  BY <1>5, ExprIs
<1>7. PICK e : e = <<a>>
  OBVIOUS
<1>8. e \in Seq(Item) /\ Len(e) = 1 /\ e[1] = a
  BY <1>6, <1>7
<1>9. Owns(s[1]) = {} /\ \A i \in 1..Len(e) : Owns(e[i]) = {} /\ ~InLoop(e[i])
  BY <1>6, <1>8, OwnsNothing DEF Owner, InLoop
<1> DEFINE N == {b1, b2}
           T == {b2, b1}
<1>10. Provided(f, g, s, e, N, T)
  BY <1>4, <1>9 DEF Provided, Free
<1>11. LoopsProvided(f, g, s, e, N, T)
  BY <1>9 DEF LoopsProvided
<1>12. Advances(f, g, s, e, N, T)
  BY <1>1, <1>4, <1>8, <1>10, <1>11 DEF Advances
<1>13. t = e \o Tail(s) /\ N = {b1, b2}
  BY <1>6, <1>7
<1> HIDE DEF N, T
<1>14. b1 \in Members(g.blocks) /\ b2 \in Members(g.blocks)
  BY <1>4
<1>15. PICK u : u = e \o Tail(s)
  OBVIOUS
<1>16. HasRanks(g, u)
  BY <1>4, <1>12, <1>13, <1>14, <1>15, GoesToTwo
<1> QED BY <1>13, <1>15, <1>16

LEMMA RankedBranch ==
  ASSUME NEW f, NEW s, s # << >>, NEW d, NEW c, NEW x, Inv(f, s, d, c, x), HasRanks(f, s),
         s[1].do = "branch",
         NEW b1, b1 = NewBlock(f, 1), NEW b2, b2 = NewBlock(f, 2), NEW b3, b3 = NewBlock(f, 3),
         NEW j \in {b2, b3},
         NEW h, h = add_instruction(CreateBlocks(f, 3), "op"),
         NEW g, g = set_insert_point(create_cond_br(h, b1, j), b1),
         NEW b, b = [do |-> "then", else |-> s[1].else, falseBB |-> b2, endBB |-> b3],
         NEW t, t = (Do("stmt") \o <<b>>) \o Tail(s)
  PROVE  HasRanks(g, t)
<1>1. /\ GoodFunction(f) /\ s \in Seq(Item) /\ Waiting(f, s) /\ InsertFits(f, s)
      /\ s[1] \in Item
  BY DEF Inv, Shaped
<1>2. InsertOpen(f)
  BY <1>1 DEF InsertFits, InsertOpen, Resumed
<1>3. f.next + 3 <= MaxBlocks + 1
  BY RoomToBranch
<1>4. Forked(f, g, b1, b2, b3, j)
  BY <1>1, <1>2, <1>3, IfKeeps
<1>5. /\ GoodFunction(g) /\ g.insert = b1 /\ b1 # b2 /\ b1 # b3
      /\ b1 \notin Members(f.blocks) /\ b2 \notin Members(f.blocks)
      /\ b3 \notin Members(f.blocks)
      /\ Members(g.blocks) = Members(f.blocks) \cup {b1, b2, b3}
      /\ Links(f, g, f.insert, {b1, j})
  BY <1>4 DEF Forked, Fresh, Grown
<1>6. {b1, b2, b3} \subseteq Block
  BY <1>5, BlocksTyped
<1>7. b \in Item /\ b.do = "then" /\ Owns(b) = {b2, b3} /\ ~InLoop(b)
  <2>1. s[1].else \in BOOLEAN
    BY <1>1, ItemFields
  <2>2. b \in Item
    BY <1>6, <2>1 DEF Item
  <2>3. b.do = "then" /\ b.falseBB = b2 /\ b.endBB = b3
    OBVIOUS
  <2> QED BY <2>2, <2>3 DEF Owns, InLoop
<1>8. PICK a \in Item : a.do = "stmt" /\ Do("stmt") = <<a>>
  BY DoIs
<1>9. PICK e : e = <<a>> \o <<b>>
  OBVIOUS
<1>10. e \in Seq(Item) /\ Pair(e, a, b)
  BY <1>7, <1>9, TwoItems
<1> DEFINE N == {b1}
           T == {b1, j}
<1>11. OwnsFor(f, g, s, b, N, T)
  <2>1. Owns(s[1]) = {}
    BY OwnsNothing DEF Owner
  <2> QED BY <1>5, <1>6, <1>7, <2>1 DEF OwnsFor, Free
<1>12. LoopsFor(f, g, s, b, N, T)
  BY <1>7 DEF LoopsFor
<1>13. Advances(f, g, s, e, N, T)
  BY <1>1, <1>5, <1>8, <1>10, <1>11, <1>12, PairGoes DEF Owner
<1>14. t = e \o Tail(s) /\ N = {b1} /\ b1 \in Members(g.blocks)
  BY <1>5, <1>8, <1>9
<1> HIDE DEF N, T
<1> QED BY <1>5, <1>13, <1>14, GoesToOne

LEMMA RankedIteration ==
  ASSUME NEW f, NEW s, s # << >>, NEW d, NEW c, NEW x, Inv(f, s, d, c, x), HasRanks(f, s),
         s[1].do = "stmt", c >= 1, NEW k \in Nat,
         NEW b1, b1 = NewBlock(f, 1), NEW b2, b2 = NewBlock(f, 2), NEW b3, b3 = NewBlock(f, 3),
         NEW g, g = set_insert_point(JumpUnlessTerminated(CreateBlocks(f, 3), b1), b1),
         NEW b, b = [do |-> "loop", judgeBB |-> b1, stmtBB |-> b2, endBB |-> b3],
         NEW t, t = (Expr(k) \o <<b>>) \o Tail(s)
  PROVE  HasRanks(g, t)
<1>1. /\ GoodFunction(f) /\ s \in Seq(Item) /\ Waiting(f, s) /\ InsertFits(f, s)
  BY DEF Inv, Shaped
<1>2. InsertOpen(f)
  BY <1>1 DEF InsertFits, InsertOpen, Resumed
<1>3. f.next + 3 <= MaxBlocks + 1
  BY RoomToLoop
<1>4. Looped(f, g, b1, b2, b3)
  BY <1>1, <1>2, <1>3, WhileKeeps DEF InsertOpen
<1>5. /\ GoodFunction(g) /\ g.insert = b1 /\ b1 # b2 /\ b1 # b3
      /\ b1 \notin Members(f.blocks) /\ b2 \notin Members(f.blocks)
      /\ b3 \notin Members(f.blocks)
      /\ Members(g.blocks) = Members(f.blocks) \cup {b1, b2, b3}
      /\ Links(f, g, f.insert, {b1})
  BY <1>2, <1>4 DEF Looped, Fresh, Grown, InsertOpen
<1>6. {b1, b2, b3} \subseteq Block
  BY <1>5, BlocksTyped
<1>7. b \in Item /\ b.do = "loop" /\ Owns(b) = {b2, b3} /\ b.judgeBB = b1
  <2>1. b \in Item
    BY <1>6 DEF Item
  <2>2. b.do = "loop" /\ b.stmtBB = b2 /\ b.endBB = b3 /\ b.judgeBB = b1
    OBVIOUS
  <2> QED BY <2>1, <2>2 DEF Owns
<1>8. PICK a \in Item : a.do = "expr" /\ a.n = k /\ Expr(k) = <<a>>
  BY ExprIs
<1>9. PICK e : e = <<a>> \o <<b>>
  OBVIOUS
<1>10. e \in Seq(Item) /\ Pair(e, a, b)
  BY <1>7, <1>9, TwoItems
<1> DEFINE N == {b1}
<1>11. OwnsFor(f, g, s, b, N, N)
  <2>1. Owns(s[1]) = {}
    BY OwnsNothing DEF Owner
  <2> QED BY <1>5, <1>6, <1>7, <2>1 DEF OwnsFor, Free
<1>12. LoopsFor(f, g, s, b, N, N)
  <2>1. g.pre[b1] # << >>
    BY <1>5, <1>6 DEF Links
  <2> QED BY <1>5, <1>7, <2>1 DEF LoopsFor
<1>13. Advances(f, g, s, e, N, N)
  BY <1>1, <1>5, <1>8, <1>10, <1>11, <1>12, PairGoes DEF Owner
<1>14. t = e \o Tail(s) /\ N = {b1} /\ b1 \in Members(g.blocks)
  BY <1>5, <1>8, <1>9
<1> HIDE DEF N
<1>15. PICK u : u = e \o Tail(s)
  OBVIOUS
<1>16. g.insert = b1 /\ b1 \in Members(g.blocks)
  BY <1>5
<1>17. HasRanks(g, u)
  BY <1>13, <1>14, <1>15, <1>16, GoesToOne
<1> QED BY <1>14, <1>15, <1>17

(* The insert block jumps to t and one of the blocks of the head follows.  *)
LEMMA LinksAfter ==
  ASSUME NEW f, NEW g, NEW a, NEW T, NEW h, Links(f, h, a, T), SameGraph(h, g)
  PROVE  Links(f, g, a, T)
<1>1. SameGraph(f, f)
  BY DEF SameGraph
<1> QED BY <1>1, LinksBetween

LEMMA RankedLoop ==
  ASSUME NEW f, NEW s, s # << >>, NEW d, NEW c, NEW x, Inv(f, s, d, c, x), HasRanks(f, s),
         s[1].do = "loop",
         NEW h, h = create_cond_br(add_instruction(f, "op"), s[1].stmtBB, s[1].endBB),
         NEW g, g = set_insert_point(h, s[1].stmtBB), GoodFunction(g),
         NEW b, b = [s[1] EXCEPT !.do = "body"],
         NEW t, t = (Do("stmt") \o <<b>>) \o Tail(s)
  PROVE  HasRanks(g, t)
<1>1. PICK i, j : i = s[1].stmtBB /\ j = s[1].endBB
  OBVIOUS
<1>2. PICK f2 : f2 = add_instruction(f, "op")
  OBVIOUS
<1>3. /\ GoodFunction(f) /\ s \in Seq(Item) /\ Waiting(f, s) /\ s[1] \in Item
      /\ InsertOpen(f) /\ i # j
      /\ \A y \in Owns(s[1]) : y \in Members(f.blocks) \ {1}
      /\ s[1].judgeBB \in Members(f.blocks) \ {1} /\ s[1].judgeBB \notin Owns(s[1])
  <2>1. GoodFunction(f) /\ s \in Seq(Item) /\ Waiting(f, s)
    BY DEF Inv, Shaped
  <2> QED BY <1>1, <2>1, HeadFits DEF Owner, Resumed
<1>4. Owns(s[1]) = {i, j} /\ InLoop(s[1])
  BY <1>1 DEF Owns, InLoop
<1>5. {i, j} \subseteq Block /\ {i, j} \subseteq Members(f.blocks) \ {1}
  BY <1>3, <1>4, BlocksTyped
<1>6. /\ GoodFunction(f2) /\ InsertOpen(f2) /\ SameGraph(f, f2) /\ f2.insert = f.insert
      /\ f2.blocks = f.blocks
  <2>1. "op" \in Kind
    BY DEF Kind
  <2> QED BY <1>2, <1>3, <2>1, AddKeeps DEF InsertOpen, SameGraph
<1>7. h = create_cond_br(f2, i, j) /\ g = set_insert_point(h, i)
  BY <1>1, <1>2
<1>8. Links(f2, h, f.insert, {i, j})
  BY <1>5, <1>6, <1>7, CondBrLinks
<1>9. Jumped(f2, h, {i, j})
  BY <1>5, <1>6, <1>7, CondBrKeeps
<1>10. GoodFunction(h) /\ h.blocks = f.blocks
  BY <1>6, <1>9 DEF Jumped
<1>11. g.insert = i /\ g.blocks = f.blocks /\ SameGraph(h, g)
  BY <1>5, <1>7, <1>10, InsertKeeps DEF SameGraph
<1>12. Links(f, g, f.insert, {i, j})
  BY <1>6, <1>8, <1>11, LinksBetween
<1>13. b \in Item /\ InLoop(b) /\ b.judgeBB = s[1].judgeBB /\ Owns(b) = {j}
  <2>1. b \in Item /\ b.do = "body" /\ b.judgeBB = s[1].judgeBB /\ b.endBB = j
    BY <1>1, <1>3 DEF Item
  <2> QED BY <2>1 DEF InLoop, Owns
<1>14. PICK a \in Item : a.do = "stmt" /\ Do("stmt") = <<a>>
  BY DoIs
<1>15. PICK e : e = <<a>> \o <<b>>
  OBVIOUS
<1>16. e \in Seq(Item) /\ Pair(e, a, b)
  BY <1>13, <1>15, TwoItems
<1>17. PICK N, T : N = {i} /\ T = {i, j}
  OBVIOUS
<1>18. OwnsFor(f, g, s, b, N, T)
  BY <1>3, <1>4, <1>5, <1>11, <1>13, <1>17 DEF OwnsFor, Free
<1>19. LoopsFor(f, g, s, b, N, T)
  BY <1>4, <1>13 DEF LoopsFor
<1>20. Advances(f, g, s, e, N, T)
  BY <1>3, <1>12, <1>14, <1>16, <1>17, <1>18, <1>19, PairGoes DEF Owner
<1>21. i \in Members(g.blocks) /\ t = e \o Tail(s)
  BY <1>5, <1>11, <1>14, <1>15
<1> QED BY <1>11, <1>17, <1>20, <1>21, GoesToOne

LEMMA RankedElse ==
  ASSUME NEW f, NEW s, s # << >>, NEW d, NEW c, NEW x, Inv(f, s, d, c, x), HasRanks(f, s),
         s[1].do = "then",
         NEW h, h = JumpUnlessTerminated(f, s[1].endBB),
         NEW g, g = set_insert_point(h, s[1].falseBB), GoodFunction(g),
         NEW b, b = [do |-> "else", endBB |-> s[1].endBB],
         NEW t, t = (Do("stmt") \o <<b>>) \o Tail(s)
  PROVE  HasRanks(g, t)
<1>1. PICK i, j : i = s[1].falseBB /\ j = s[1].endBB
  OBVIOUS
<1>2. /\ GoodFunction(f) /\ s \in Seq(Item) /\ Waiting(f, s)
      /\ f.insert \in Members(f.blocks) /\ i # j
      /\ \A y \in Owns(s[1]) : y \in Members(f.blocks) \ {1}
  <2>1. GoodFunction(f) /\ s \in Seq(Item) /\ Waiting(f, s)
    BY DEF Inv, Shaped
  <2> QED BY <1>1, <2>1, HeadFits DEF Owner
<1>3. Owns(s[1]) = {i, j}
  BY <1>1 DEF Owns
<1>4. {i, j} \subseteq Block /\ {i, j} \subseteq Members(f.blocks) \ {1}
  BY <1>2, <1>3, BlocksTyped
<1>5. h = JumpUnlessTerminated(f, j) /\ g = set_insert_point(h, i)
  BY <1>1
<1>6. PICK T : T \subseteq {j} /\ Links(f, h, f.insert, T)
  <2>1. MayLink(f, h, f.insert, j)
    BY <1>2, <1>4, <1>5, JumpLinks
  <2> QED BY <2>1 DEF MayLink
<1>7. GoodFunction(h) /\ h.blocks = f.blocks
  <2>1. Jumped(f, h, {j})
    BY <1>2, <1>4, <1>5, JumpKeeps
  <2> QED BY <2>1 DEF Jumped
<1>8. g.insert = i /\ g.blocks = f.blocks /\ SameGraph(h, g)
  BY <1>4, <1>5, <1>7, InsertKeeps DEF SameGraph
<1>9. Links(f, g, f.insert, T)
  BY <1>6, <1>8, LinksAfter
<1>10. b \in Item /\ ~InLoop(b) /\ Owns(b) = {j}
  <2>1. b \in Item
    BY <1>1, <1>4 DEF Item
  <2>2. b.do = "else" /\ b.endBB = j
    BY <1>1
  <2> QED BY <2>1, <2>2 DEF InLoop, Owns
<1>11. PICK a \in Item : a.do = "stmt" /\ Do("stmt") = <<a>>
  BY DoIs
<1>12. PICK e : e = <<a>> \o <<b>>
  OBVIOUS
<1>13. e \in Seq(Item) /\ Pair(e, a, b)
  BY <1>10, <1>12, TwoItems
<1>14. PICK N : N = {i}
  OBVIOUS
<1>15. OwnsFor(f, g, s, b, N, T)
  BY <1>2, <1>3, <1>4, <1>6, <1>8, <1>10, <1>14 DEF OwnsFor, Free
<1>16. LoopsFor(f, g, s, b, N, T)
  BY <1>10 DEF LoopsFor
<1>17. Advances(f, g, s, e, N, T)
  BY <1>2, <1>9, <1>11, <1>13, <1>15, <1>16, PairGoes DEF Owner
<1>18. i \in Members(g.blocks) /\ t = e \o Tail(s)
  BY <1>4, <1>8, <1>11, <1>12
<1> QED BY <1>8, <1>14, <1>17, <1>18, GoesToOne

(* The statement ends, and the end block is gone on in.                    *)
LEMMA RankedAtEnd ==
  ASSUME NEW f, NEW s, s # << >>, NEW d, NEW c, NEW x, Inv(f, s, d, c, x), HasRanks(f, s),
         s[1].do \in {"then", "else", "body"}, NEW j, j = s[1].endBB,
         NEW k, IF s[1].do = "body" THEN k = s[1].judgeBB ELSE k = j,
         NEW h, h = JumpUnlessTerminated(f, k), NEW g, GoodFunction(g), g.insert = j,
         SameGraph(h, g),
         Members(g.blocks) = IF s[1].do = "then" THEN Members(f.blocks) \ {s[1].falseBB}
                             ELSE Members(f.blocks),
         NEW t, t = << >> \o Tail(s)
  PROVE  HasRanks(g, t)
<1>1. /\ GoodFunction(f) /\ s \in Seq(Item) /\ Waiting(f, s)
      /\ f.insert \in Members(f.blocks)
      /\ \A y \in Owns(s[1]) : y \in Members(f.blocks) \ {1}
      /\ s[1].do = "then" => s[1].falseBB # j
      /\ s[1].do = "body" => k \in Members(f.blocks) \ {1}
  <2>1. GoodFunction(f) /\ s \in Seq(Item) /\ Waiting(f, s)
    BY DEF Inv, Shaped
  <2> QED BY <2>1, HeadFits DEF Owner
<1>2. /\ Owns(s[1]) = IF s[1].do = "then" THEN {s[1].falseBB, j} ELSE {j}
      /\ InLoop(s[1]) <=> s[1].do = "body"
  BY DEF Owns, InLoop
<1>3. j \in Members(f.blocks) \ {1} /\ k \in Members(f.blocks) \ {1}
      /\ j \in Members(g.blocks)
  BY <1>1, <1>2
<1>4. j \in Block /\ k \in Block
  BY <1>1, <1>3, BlocksTyped
<1>5. PICK T : T \subseteq {k} /\ Links(f, h, f.insert, T)
  <2>1. MayLink(f, h, f.insert, k)
    BY <1>1, <1>4, JumpLinks
  <2> QED BY <2>1 DEF MayLink
<1>6. Links(f, g, f.insert, T)
  BY <1>5, LinksAfter
<1>7. PICK e, N : e = << >> /\ N = {j}
  OBVIOUS
<1>8. e \in Seq(Item) /\ 1..Len(e) = {}
  BY <1>7
<1>9. Provided(f, g, s, e, N, T)
  <2>1. \A y \in T : Free(f, s, y) \/ (InLoop(s[1]) /\ y = s[1].judgeBB)
    BY <1>2, <1>5 DEF Free
  <2>2. \A y \in N : Free(f, s, y)
    BY <1>2, <1>7 DEF Free
  <2>3. Members(f.blocks) \ Owns(s[1]) \subseteq Members(g.blocks)
    BY <1>2
  <2>4. \A y \in Members(g.blocks) : Free(f, s, y) => y \in N
    BY <1>2, <1>7 DEF Free
  <2> QED BY <1>4, <1>5, <1>8, <2>1, <2>2, <2>3, <2>4 DEF Provided
<1>10. LoopsProvided(f, g, s, e, N, T)
  BY <1>8 DEF LoopsProvided
<1>11. Advances(f, g, s, e, N, T)
  BY <1>1, <1>6, <1>8, <1>9, <1>10 DEF Advances
<1>12. t = e \o Tail(s)
  BY <1>7
<1> QED BY <1>3, <1>7, <1>11, <1>12, GoesToOne

LEMMA RankedFirst ==
  ASSUME NEW f, NEW s, s # << >>, NEW d, NEW c, NEW x, Inv(f, s, d, c, x),
         s[1].do = "function",
         NEW g, g = add_instruction(
                        set_insert_point(CreateBlocks(f, 1), NewBlock(f, 1)), "op"),
         GoodFunction(g), NEW t, t = (Do("compound") \o Do("end")) \o Tail(s)
  PROVE  HasRanks(g, t)
<1>1. PICK n : n = 1
  OBVIOUS
<1>2. PICK f1 : f1 = CreateBlocks(f, n)
  OBVIOUS
<1>3. PICK b : b = 1
  OBVIOUS
<1>4. PICK f2 : f2 = set_insert_point(f1, b)
  OBVIOUS
<1>5. /\ GoodFunction(f) /\ Shaped(s) /\ WithinBounds(f, s, c, x) /\ f = EmptyFunction
  BY DEF Inv, InsertFits
<1>6. f.next = 1 /\ f.blocks = << >> /\ NewBlock(f, 1) = 1
      /\ \A y \in Block : f.code[y] = << >> /\ f.succ[y] = << >> /\ f.pre[y] = << >>
  BY <1>5 DEF EmptyFunction, NewBlock
<1>7. MaxBlocks \in Nat /\ MaxBlocks >= 1
  <2> DEFINE o == Owed(s)
  <2>1. /\ c \in Nat /\ x \in Nat /\ 1 + 3 * c + 2 * x + o <= MaxBlocks + 1 /\ o = 1
        /\ MaxBlocks \in Nat
    BY <1>5, <1>6, OwedIs, BoundsTyped DEF WithinBounds
  <2> HIDE DEF o
  <2> QED BY <2>1
<1>8. MayCreate(f, n)
  BY <1>1, <1>6, <1>7 DEF MayCreate
<1>9. Created(f, f1, n)
  BY <1>2, <1>5, <1>8, CreateKeeps
<1>10. /\ GoodFunction(f1) /\ Members(f1.blocks) = {b} /\ SameGraph(f, f1)
       /\ f1.code = f.code
  <2>1. Members(f.blocks) = {}
    BY <1>6, MembersOfEmpty
  <2>2. f.next..(f.next + n - 1) = 1..1 /\ 1..1 = {1}
    BY <1>1, <1>6
  <2> QED BY <1>3, <1>9, <2>1, <2>2 DEF Created, SameGraph
<1>11. b \in Block
  BY <1>3, <1>7 DEF Block
<1>12. /\ GoodFunction(f2) /\ InsertOpen(f2) /\ f2.insert = b /\ f2.blocks = f1.blocks
       /\ SameGraph(f1, f2)
  <2>1. b \in Members(f1.blocks) /\ f1.code[b] = << >>
    BY <1>6, <1>10, <1>11
  <2> QED BY <1>4, <1>10, <2>1, InsertKeeps, StaysOpen DEF SameGraph
<1>13. g = add_instruction(f2, "op")
  BY <1>1, <1>2, <1>3, <1>4, <1>6
<1>14. g.insert = b /\ g.blocks = f1.blocks /\ SameGraph(f2, g)
  <2>1. "op" \in Kind
    BY DEF Kind
  <2> QED BY <1>12, <1>13, <2>1, AddKeeps DEF SameGraph
<1>15. \A y \in Block : g.succ[y] = << >> /\ g.pre[y] = << >>
  BY <1>6, <1>10, <1>12, <1>14 DEF SameGraph
<1>16. \A u \in Block : \A v : ~Step(g, u, v)
  BY <1>15, MembersOfEmpty DEF Step
<1>17. PICK p \in Item : p.do = "compound" /\ Do("compound") = <<p>>
  BY DoIs
<1>18. PICK q \in Item : q.do = "end" /\ Do("end") = <<q>>
  BY DoIs
<1>19. PICK e : e = <<p>> \o <<q>>
  OBVIOUS
<1>20. e \in Seq(Item) /\ Pair(e, p, q)
  BY <1>19, TwoItems
<1>21. t = e
  <2>1. Len(s) = 1 /\ s \in Seq(Item) /\ Tail(s) = << >>
    BY <1>5, AloneItem
  <2>2. t = e \o << >>
    BY <1>17, <1>18, <1>19, <2>1
  <2> QED BY <1>20, <2>2
<1>22. \A k \in 1..Len(t) : Owns(t[k]) = {} /\ ~InLoop(t[k])
  <2>1. Len(e) = 2 /\ e[1] = p /\ e[2] = q /\ 1..2 = {1, 2}
    BY <1>20 DEF Pair
  <2>2. \A k \in 1..Len(e) : e[k] \in {p, q}
    BY <2>1
  <2>3. p.do \notin Owner /\ q.do \notin Owner
    BY <1>17, <1>18 DEF Owner
  <2>4. \A y \in {p, q} : Owns(y) = {} /\ ~InLoop(y)
    BY <2>3, OwnsNothing DEF InLoop
  <2> QED BY <1>21, <2>2, <2>4
<1> DEFINE r == [u \in Block |-> IF u = b THEN 1 ELSE 0]
<1>23. r \in [Block -> Nat] /\ r[b] = 1 /\ \A u \in Block : u # b => r[u] = 0
  BY <1>11
<1> HIDE DEF r
<1>24. Ranks(g, r)
  <2>1. \A u \in Block : r[u] <= r[b] /\ (r[u] = 0 \/ r[b] <= r[u])
    BY <1>23
  <2> QED BY <1>3, <1>11, <1>14, <1>23, <2>1 DEF Ranks
<1>25. RankedEdges(g, r)
  BY <1>15, <1>16 DEF RankedEdges
<1>26. Unranked(g, t, r)
  <2>1. Members(g.blocks) = {b}
    BY <1>10, <1>14
  <2>2. \A k \in 1..Len(t) : \A u \in Owns(t[k]) : r[u] = 0
    BY <1>22
  <2>3. \A u \in Block \ {b} : r[u] = 0
    BY <1>23
  <2> QED BY <1>23, <2>1, <2>2, <2>3 DEF Unranked
<1>27. Ranked(g, t, r)
  BY <1>22, <1>24, <1>25, <1>26 DEF Ranked
<1> QED BY <1>27 DEF HasRanks

(* Every step that visits nothing that jumps.                              *)
LEMMA RankedPop ==
  ASSUME NEW f, NEW g, NEW s, s # << >>, NEW d, NEW c, NEW x, Inv(f, s, d, c, x),
         HasRanks(f, s), Extended(f, g), s[1].do \notin Owner, NEW t, t = << >> \o Tail(s)
  PROVE  HasRanks(g, t)
<1>1. GoodFunction(f) /\ Shaped(s) /\ Waiting(f, s)
  BY DEF Inv
<1>2. PICK e : e = << >>
  OBVIOUS
<1>3. e \in Seq(Item) /\ t = e \o Tail(s) /\ \A k \in 1..Len(e) : e[k].do \notin Owner
  BY <1>2
<1> QED BY <1>1, <1>3, RankedQuiet

LEMMA RankedPush ==
  ASSUME NEW f, NEW g, NEW s, s # << >>, NEW d, NEW c, NEW x, Inv(f, s, d, c, x),
         HasRanks(f, s), Extended(f, g), s[1].do \notin Owner,
         NEW a \in Item, a.do \notin Owner, NEW t, t = <<a>> \o Tail(s)
  PROVE  HasRanks(g, t)
<1>1. GoodFunction(f) /\ Shaped(s) /\ Waiting(f, s)
  BY DEF Inv
<1>2. PICK e : e = <<a>>
  OBVIOUS
<1>3. /\ e \in Seq(Item) /\ t = e \o Tail(s) /\ Len(e) = 1 /\ e[1] = a
  BY <1>2
<1>4. \A k \in 1..Len(e) : e[k].do \notin Owner
  BY <1>3
<1> QED BY <1>1, <1>3, <1>4, RankedQuiet

LEMMA RankedPushTwo ==
  ASSUME NEW f, NEW g, NEW s, s # << >>, NEW d, NEW c, NEW x, Inv(f, s, d, c, x),
         HasRanks(f, s), Extended(f, g), s[1].do \notin Owner,
         NEW a \in Item, a.do \notin Owner, NEW b \in Item, b.do \notin Owner,
         NEW t, t = (<<a>> \o <<b>>) \o Tail(s)
  PROVE  HasRanks(g, t)
<1>1. GoodFunction(f) /\ Shaped(s) /\ Waiting(f, s)
  BY DEF Inv
<1>2. PICK e : e = <<a>> \o <<b>>
  OBVIOUS
<1>3. e \in Seq(Item) /\ Pair(e, a, b) /\ t = e \o Tail(s)
  BY <1>2, TwoItems
<1>4. Len(e) = 2 /\ e[1] = a /\ e[2] = b /\ 1..2 = {1, 2}
  BY <1>3 DEF Pair
<1>5. \A k \in 1..Len(e) : e[k].do \notin Owner
  BY <1>4
<1> QED BY <1>1, <1>3, <1>5, RankedQuiet

LEMMA RankedGoOn ==
  ASSUME NEW f, NEW s, s # << >>, NEW d, NEW c, NEW x, Inv(f, s, d, c, x), HasRanks(f, s),
         s[1].do \in {"else", "body"}, NEW h,
         h = JumpUnlessTerminated(f, IF s[1].do = "else" THEN s[1].endBB ELSE s[1].judgeBB),
         NEW g, g = set_insert_point(h, s[1].endBB), GoodFunction(g),
         NEW t, t = << >> \o Tail(s)
  PROVE  HasRanks(g, t)
<1>1. PICK j, k : j = s[1].endBB /\ k = IF s[1].do = "else" THEN s[1].endBB ELSE s[1].judgeBB
  OBVIOUS
<1>2. /\ GoodFunction(f) /\ f.insert \in Members(f.blocks)
      /\ j \in Members(f.blocks) \ {1} /\ k \in Members(f.blocks) \ {1}
  <2>1. Owns(s[1]) = {s[1].endBB}
    BY DEF Owns
  <2> QED BY <1>1, <2>1, HeadFits DEF Owner
<1>3. h = JumpUnlessTerminated(f, k) /\ g = set_insert_point(h, j)
  BY <1>1
<1>4. GoodFunction(h) /\ h.blocks = f.blocks
  <2>1. Jumped(f, h, {k})
    BY <1>2, <1>3, JumpKeeps
  <2> QED BY <2>1 DEF Jumped
<1>5. g.insert = j /\ g.blocks = f.blocks /\ SameGraph(h, g)
  BY <1>2, <1>3, <1>4, InsertKeeps DEF SameGraph
<1>6. /\ s[1].do \in {"then", "else", "body"}
      /\ IF s[1].do = "body" THEN k = s[1].judgeBB ELSE k = j
      /\ Members(g.blocks) = IF s[1].do = "then" THEN Members(f.blocks) \ {s[1].falseBB}
                             ELSE Members(f.blocks)
  BY <1>1, <1>5
<1> QED BY <1>1, <1>3, <1>5, <1>6, RankedAtEnd

LEMMA RankedThen ==
  ASSUME NEW f, NEW s, s # << >>, NEW d, NEW c, NEW x, Inv(f, s, d, c, x), HasRanks(f, s),
         s[1].do = "then", ~s[1].else,
         NEW h, h = JumpUnlessTerminated(f, s[1].endBB),
         NEW g, g = set_insert_point(remove(h, s[1].falseBB), s[1].endBB), GoodFunction(g),
         NEW t, t = << >> \o Tail(s)
  PROVE  HasRanks(g, t)
<1>1. PICK i, j : i = s[1].falseBB /\ j = s[1].endBB
  OBVIOUS
<1>2. PICK h2 : h2 = remove(h, i)
  OBVIOUS
<1>3. /\ GoodFunction(f) /\ f.insert \in Members(f.blocks)
      /\ \A y \in {i, j} :
           y \in Members(f.blocks) \ {1} /\ y # f.insert /\ f.code[y] = << >>
      /\ i # j /\ f.pre[i] = << >>
  <2>1. Owns(s[1]) = {i, j}
    BY <1>1 DEF Owns
  <2> QED BY <1>1, <2>1, HeadFits DEF Owner
<1>4. h = JumpUnlessTerminated(f, j) /\ g = set_insert_point(h2, j)
  BY <1>1, <1>2
<1>5. /\ GoodFunction(h) /\ h.insert = f.insert /\ h.blocks = f.blocks
      /\ h.code[i] = << >> /\ h.pre[i] = << >>
  <2>1. Jumped(f, h, {j})
    BY <1>3, <1>4, JumpKeeps
  <2>2. i \in Block
    BY <1>3, BlocksTyped
  <2> QED BY <1>3, <2>1, <2>2 DEF Jumped
<1>6. /\ GoodFunction(h2) /\ Members(h2.blocks) = Members(f.blocks) \ {i}
      /\ SameGraph(h, h2)
  <2>1. i \in Members(h.blocks) \ {1} /\ i # h.insert
    BY <1>3, <1>5
  <2> QED BY <1>2, <1>5, <2>1, RemoveKeeps DEF SameGraph
<1>7. g.insert = j /\ g.blocks = h2.blocks /\ SameGraph(h2, g)
  <2>1. j \in Members(h2.blocks)
    BY <1>3, <1>6
  <2> QED BY <1>4, <1>6, <2>1, InsertKeeps DEF SameGraph
<1>8. SameGraph(h, g)
  BY <1>6, <1>7 DEF SameGraph
<1>9. /\ s[1].do \in {"then", "else", "body"}
      /\ IF s[1].do = "body" THEN j = s[1].judgeBB ELSE j = j
      /\ Members(g.blocks) = IF s[1].do = "then" THEN Members(f.blocks) \ {s[1].falseBB}
                             ELSE Members(f.blocks)
  BY <1>1, <1>6, <1>7
<1> QED BY <1>1, <1>4, <1>7, <1>8, <1>9, RankedAtEnd

OrderInv == (todo # << >> /\ todo[1].do = "function") \/ HasRanks(fn, todo)

LEMMA OrderStarts == BInit => OrderInv
<1> SUFFICES ASSUME BInit PROVE OrderInv
  OBVIOUS
<1>1. PICK a \in Item : a.do = "function" /\ Do("function") = <<a>>
  BY DoIs
<1>2. todo = <<a>>
  BY <1>1 DEF BInit
<1>3. todo # << >> /\ todo[1] = a
  BY <1>2
<1> QED BY <1>1, <1>3 DEF OrderInv

LEMMA OrderKeeps == OrderInv /\ BInv /\ BInv' /\ [BNext]_bvars => OrderInv'
<1> SUFFICES ASSUME OrderInv, BInv, BInv', [BNext]_bvars
             PROVE  OrderInv'
  OBVIOUS
<1>0. PICK g, t : g = fn' /\ t = todo'
  OBVIOUS
<1> SUFFICES ASSUME ~HasRanks(g, t) PROVE OrderInv'
  BY <1>0 DEF OrderInv
<1>1. Inv(fn, todo, depth, control, index) /\ GoodFunction(g)
  BY <1>0 DEF BInv, Inv
<1>2. todo # << >> =>
        /\ GoodFunction(fn) /\ Head(todo) = todo[1] /\ todo[1] \in Item
        /\ todo[1].do \notin Resumed \cup {"function"} => InsertOpen(fn)
        /\ control \in 0..MaxControl /\ index \in 0..MaxIndex
        /\ Extended(fn, fn)
  <2> SUFFICES ASSUME todo # << >>
               PROVE  /\ GoodFunction(fn) /\ Head(todo) = todo[1] /\ todo[1] \in Item
                      /\ todo[1].do \notin Resumed \cup {"function"} => InsertOpen(fn)
                      /\ control \in 0..MaxControl /\ index \in 0..MaxIndex
                      /\ Extended(fn, fn)
    OBVIOUS
  <2> QED BY <1>1, InvFacts, SameExtended
<1>3. todo # << >> /\ todo[1].do # "function" => HasRanks(fn, todo)
  BY DEF OrderInv
<1> HIDE DEF BInv, OrderInv
<1> USE DEF Doing, Continue
<1>4. CASE VisitFunDeclaration
  <2>1. /\ todo # << >> /\ todo[1].do = "function"
        /\ g = add_instruction(
                   set_insert_point(CreateBlocks(fn, 1), NewBlock(fn, 1)), "op")
        /\ t = (Do("compound") \o Do("end")) \o Tail(todo)
    BY <1>0, <1>2, <1>4 DEF VisitFunDeclaration
  <2>2. HasRanks(g, t)
    BY <1>1, <2>1, RankedFirst
  <2> QED BY <2>2
<1>5. CASE FinishFunction
  <2>1. /\ todo # << >> /\ todo[1].do = "end" /\ t = << >> \o Tail(todo)
        /\ g = IF InsertTerminated(fn) THEN fn ELSE create_ret(fn)
    BY <1>0, <1>2, <1>5 DEF FinishFunction, CloseFunction
  <2>2. Extended(fn, g)
    <3>1. CASE InsertTerminated(fn)
      BY <1>2, <2>1, <3>1
    <3>2. CASE ~InsertTerminated(fn)
      <4>1. InsertOpen(fn)
        BY <1>1, <2>1, <3>2 DEF Inv, InsertFits, InsertOpen
      <4>2. g = add_instruction(fn, "ret") /\ "ret" \in Kind
        BY <2>1, <3>2 DEF create_ret, Kind
      <4> QED BY <1>2, <2>1, <4>1, <4>2, AddExtends
    <3> QED BY <3>1, <3>2
  <2>3. HasRanks(g, t)
    BY <1>1, <1>3, <2>1, <2>2, RankedPop DEF Owner
  <2> QED BY <2>3
<1>6. CASE VisitCompoundStmt
  <2>1. /\ todo # << >> /\ todo[1].do = "compound" /\ InsertOpen(fn)
        /\ t = Do("list") \o Tail(todo) /\ g = add_instruction(fn, "op")
    BY <1>0, <1>2, <1>6 DEF VisitCompoundStmt, Resumed
  <2>2. Extended(fn, g)
    <3>1. "op" \in Kind
      BY DEF Kind
    <3> QED BY <1>2, <2>1, <3>1, AddExtends
  <2>3. PICK a \in Item : a.do = "list" /\ Do("list") = <<a>>
    BY DoIs
  <2>4. HasRanks(g, t)
    BY <1>1, <1>3, <2>1, <2>2, <2>3, RankedPush DEF Owner
  <2> QED BY <2>4
<1>7. CASE NextStatement
  <2>1. /\ todo # << >> /\ todo[1].do = "list" /\ g = fn
        /\ t = (Do("stmt") \o Do("check")) \o Tail(todo)
    BY <1>0, <1>2, <1>7 DEF NextStatement
  <2>2. PICK a \in Item : a.do = "stmt" /\ Do("stmt") = <<a>>
    BY DoIs
  <2>3. PICK b \in Item : b.do = "check" /\ Do("check") = <<b>>
    BY DoIs
  <2>4. HasRanks(g, t)
    BY <1>1, <1>2, <1>3, <2>1, <2>2, <2>3, RankedPushTwo DEF Owner
  <2> QED BY <2>4
<1>8. CASE LeaveCompoundStmt
  <2>1. /\ todo # << >> /\ todo[1].do \in {"list", "check"} /\ g = fn
        /\ t = << >> \o Tail(todo)
    BY <1>0, <1>2, <1>8 DEF LeaveCompoundStmt, LeaveScope, EndOfStatements
  <2>2. HasRanks(g, t)
    BY <1>1, <1>2, <1>3, <2>1, RankedPop DEF Owner
  <2> QED BY <2>2
<1>9. CASE StatementsGoOn
  <2>1. /\ todo # << >> /\ todo[1].do = "check" /\ g = fn /\ t = Do("list") \o Tail(todo)
    BY <1>0, <1>2, <1>9 DEF StatementsGoOn
  <2>2. PICK a \in Item : a.do = "list" /\ Do("list") = <<a>>
    BY DoIs
  <2>3. HasRanks(g, t)
    BY <1>1, <1>2, <1>3, <2>1, <2>2, RankedPush DEF Owner
  <2> QED BY <2>3
<1>10. CASE StatementIsCompound
  <2>1. /\ todo # << >> /\ todo[1].do = "stmt" /\ g = fn /\ t = Do("compound") \o Tail(todo)
    BY <1>0, <1>2, <1>10 DEF StatementIsCompound
  <2>2. PICK a \in Item : a.do = "compound" /\ Do("compound") = <<a>>
    BY DoIs
  <2>3. HasRanks(g, t)
    BY <1>1, <1>2, <1>3, <2>1, <2>2, RankedPush DEF Owner
  <2> QED BY <2>3
<1>11. CASE VisitExpressionStmt
  <2>1. todo # << >> /\ todo[1].do = "stmt" /\ g = fn
    BY <1>0, <1>2, <1>11 DEF VisitExpressionStmt
  <2>2. CASE Continue(<< >>)
    <3>1. t = << >> \o Tail(todo)
      BY <1>0, <2>2
    <3>2. HasRanks(g, t)
      BY <1>1, <1>2, <1>3, <2>1, <3>1, RankedPop DEF Owner
    <3> QED BY <3>2
  <2>3. ASSUME NEW n \in 0..MaxIndex, Continue(Expr(n)) PROVE OrderInv'
    <3>1. PICK a \in Item : a.do = "expr" /\ a.n = n /\ Expr(n) = <<a>>
      BY ExprIs, BoundsTyped
    <3>2. t = <<a>> \o Tail(todo)
      BY <1>0, <2>3, <3>1
    <3>3. HasRanks(g, t)
      BY <1>1, <1>2, <1>3, <2>1, <3>1, <3>2, RankedPush DEF Owner
    <3> QED BY <3>3
  <2> QED BY <1>11, <2>2, <2>3 DEF VisitExpressionStmt
<1>12. CASE VisitReturnVoid \/ FinishReturn
  <2>1. /\ todo # << >> /\ todo[1].do \in {"stmt", "ret"} /\ InsertOpen(fn)
        /\ t = << >> \o Tail(todo) /\ g = add_instruction(fn, "ret")
    BY <1>0, <1>2, <1>12 DEF VisitReturnVoid, FinishReturn, create_ret, Resumed
  <2>2. Extended(fn, g)
    <3>1. "ret" \in Kind
      BY DEF Kind
    <3> QED BY <1>2, <2>1, <3>1, AddExtends
  <2>3. HasRanks(g, t)
    BY <1>1, <1>3, <2>1, <2>2, RankedPop DEF Owner
  <2> QED BY <2>3
<1>13. CASE VisitReturnValue
  <2>1. PICK n \in 0..MaxIndex : todo' = (Expr(n) \o Do("ret")) \o Tail(todo)
    BY <1>13 DEF VisitReturnValue
  <2>2. todo # << >> /\ todo[1].do = "stmt" /\ g = fn
    BY <1>0, <1>2, <1>13 DEF VisitReturnValue
  <2>3. PICK a \in Item : a.do = "expr" /\ a.n = n /\ Expr(n) = <<a>>
    BY ExprIs, BoundsTyped
  <2>4. PICK b \in Item : b.do = "ret" /\ Do("ret") = <<b>>
    BY DoIs
  <2>5. t = (<<a>> \o <<b>>) \o Tail(todo)
    BY <1>0, <2>1, <2>3, <2>4
  <2>6. HasRanks(g, t)
    BY <1>1, <1>2, <1>3, <2>2, <2>3, <2>4, <2>5, RankedPushTwo DEF Owner
  <2> QED BY <2>6
<1>14. CASE VisitIndexedVar
  <2>1. /\ todo # << >> /\ todo[1].do = "expr" /\ todo[1].n > 0
        /\ g = SplitForIndex(fn) /\ t = Expr(todo[1].n - 1) \o Tail(todo)
    BY <1>0, <1>2, <1>14 DEF VisitIndexedVar
  <2>2. PICK k : k = todo[1].n
    OBVIOUS
  <2>3. k \in Nat \ {0} /\ todo[1].n = k /\ t = Expr(k - 1) \o Tail(todo)
    BY <1>2, <2>1, <2>2, ItemFields
  <2>4. HasRanks(g, t)
    BY <1>1, <1>3, <2>1, <2>3, RankedIndexed
  <2> QED BY <2>4
<1>15. CASE FinishExpression
  <2>1. /\ todo # << >> /\ todo[1].do = "expr" /\ InsertOpen(fn)
        /\ t = << >> \o Tail(todo) /\ g = add_instruction(fn, "op")
    BY <1>0, <1>2, <1>15 DEF FinishExpression, Resumed
  <2>2. Extended(fn, g)
    <3>1. "op" \in Kind
      BY DEF Kind
    <3> QED BY <1>2, <2>1, <3>1, AddExtends
  <2>3. HasRanks(g, t)
    BY <1>1, <1>3, <2>1, <2>2, RankedPop DEF Owner
  <2> QED BY <2>3
<1>16. CASE VisitSelectionStmt
  <2>1. PICK else \in BOOLEAN, n \in 0..MaxIndex :
           todo' = (Expr(n) \o <<[do |-> "branch", else |-> else]>>) \o Tail(todo)
    BY <1>16 DEF VisitSelectionStmt
  <2>2. todo # << >> /\ todo[1].do = "stmt" /\ g = fn
    BY <1>0, <1>2, <1>16 DEF VisitSelectionStmt
  <2>3. PICK a \in Item : a.do = "expr" /\ a.n = n /\ Expr(n) = <<a>>
    BY ExprIs, BoundsTyped
  <2>4. PICK b : b = [do |-> "branch", else |-> else]
    OBVIOUS
  <2>5. b \in Item /\ b.do = "branch"
    BY <2>4, BranchIs
  <2>6. t = (<<a>> \o <<b>>) \o Tail(todo)
    BY <1>0, <2>1, <2>3, <2>4
  <2>7. HasRanks(g, t)
    BY <1>1, <1>2, <1>3, <2>2, <2>3, <2>5, <2>6, RankedPushTwo DEF Owner
  <2> QED BY <2>7
<1>17. CASE BranchIf
  <2>1. PICK b1, b2, b3 : b1 = NewBlock(fn, 1) /\ b2 = NewBlock(fn, 2) /\ b3 = NewBlock(fn, 3)
    OBVIOUS
  <2>2. PICK j, h, b : /\ j = IF todo[1].else THEN b2 ELSE b3
                       /\ h = add_instruction(CreateBlocks(fn, 3), "op")
                       /\ b = [do |-> "then", else |-> todo[1].else,
                               falseBB |-> b2, endBB |-> b3]
    OBVIOUS
  <2>3. /\ todo # << >> /\ todo[1].do = "branch" /\ j \in {b2, b3}
        /\ g = set_insert_point(create_cond_br(h, b1, j), b1)
        /\ t = (Do("stmt") \o <<b>>) \o Tail(todo)
    BY <1>0, <1>2, <1>17, <2>1, <2>2 DEF BranchIf
  <2>4. HasRanks(g, t)
    BY <1>1, <1>3, <2>1, <2>2, <2>3, RankedBranch
  <2> QED BY <2>4
<1>18. CASE FinishThen
  <2>1. PICK h, b : /\ h = JumpUnlessTerminated(fn, todo[1].endBB)
                    /\ b = [do |-> "else", endBB |-> todo[1].endBB]
    OBVIOUS
  <2>2. todo # << >> /\ todo[1].do = "then"
    BY <1>2, <1>18 DEF FinishThen
  <2>3. CASE todo[1].else
    <3>1. /\ g = set_insert_point(h, todo[1].falseBB)
          /\ t = (Do("stmt") \o <<b>>) \o Tail(todo)
      BY <1>0, <1>2, <1>18, <2>1, <2>2, <2>3 DEF FinishThen
    <3>2. HasRanks(g, t)
      BY <1>1, <1>3, <2>1, <2>2, <3>1, RankedElse
    <3> QED BY <3>2
  <2>4. CASE ~todo[1].else
    <3>1. /\ g = set_insert_point(remove(h, todo[1].falseBB), todo[1].endBB)
          /\ t = << >> \o Tail(todo)
      BY <1>0, <1>2, <1>18, <2>1, <2>2, <2>4 DEF FinishThen
    <3>2. HasRanks(g, t)
      BY <1>1, <1>3, <2>1, <2>2, <2>4, <3>1, RankedThen
    <3> QED BY <3>2
  <2> QED BY <2>3, <2>4
<1>19. CASE FinishElse
  <2>1. PICK h : h = JumpUnlessTerminated(fn, todo[1].endBB)
    OBVIOUS
  <2>2. /\ todo # << >> /\ todo[1].do = "else" /\ t = << >> \o Tail(todo)
        /\ g = set_insert_point(h, todo[1].endBB)
    BY <1>0, <1>2, <1>19, <2>1 DEF FinishElse
  <2>3. h = JumpUnlessTerminated(
                fn, IF todo[1].do = "else" THEN todo[1].endBB ELSE todo[1].judgeBB)
    BY <2>1, <2>2
  <2>4. HasRanks(g, t)
    BY <1>1, <1>3, <2>2, <2>3, RankedGoOn
  <2> QED BY <2>4
<1>20. CASE VisitIterationStmt
  <2>1. PICK b1, b2, b3 : b1 = NewBlock(fn, 1) /\ b2 = NewBlock(fn, 2) /\ b3 = NewBlock(fn, 3)
    OBVIOUS
  <2>2. PICK b : b = [do |-> "loop", judgeBB |-> b1, stmtBB |-> b2, endBB |-> b3]
    OBVIOUS
  <2>3. PICK n \in 0..MaxIndex :
             Spend(1, n) /\ todo' = (Expr(n) \o <<b>>) \o Tail(todo)
    BY <1>20, <2>1, <2>2 DEF VisitIterationStmt
  <2>4. /\ todo # << >> /\ todo[1].do = "stmt" /\ t = (Expr(n) \o <<b>>) \o Tail(todo)
        /\ g = set_insert_point(JumpUnlessTerminated(CreateBlocks(fn, 3), b1), b1)
    BY <1>0, <1>2, <1>20, <2>1, <2>3 DEF VisitIterationStmt
  <2>5. control >= 1 /\ n \in Nat
    BY <2>3, BoundsTyped DEF Spend
  <2>6. HasRanks(g, t)
    BY <1>1, <1>3, <2>1, <2>2, <2>4, <2>5, RankedIteration
  <2> QED BY <2>6
<1>21. CASE BranchLoop
  <2>1. PICK h, b : /\ h = create_cond_br(add_instruction(fn, "op"),
                                          todo[1].stmtBB, todo[1].endBB)
                    /\ b = [todo[1] EXCEPT !.do = "body"]
    OBVIOUS
  <2>2. /\ todo # << >> /\ todo[1].do = "loop" /\ g = set_insert_point(h, todo[1].stmtBB)
        /\ t = (Do("stmt") \o <<b>>) \o Tail(todo)
    BY <1>0, <1>2, <1>21, <2>1 DEF BranchLoop
  <2>3. HasRanks(g, t)
    BY <1>1, <1>3, <2>1, <2>2, RankedLoop
  <2> QED BY <2>3
<1>22. CASE FinishBody
  <2>1. PICK h : h = JumpUnlessTerminated(fn, todo[1].judgeBB)
    OBVIOUS
  <2>2. /\ todo # << >> /\ todo[1].do = "body" /\ t = << >> \o Tail(todo)
        /\ g = set_insert_point(h, todo[1].endBB)
    BY <1>0, <1>2, <1>22, <2>1 DEF FinishBody
  <2>3. h = JumpUnlessTerminated(
                fn, IF todo[1].do = "else" THEN todo[1].endBB ELSE todo[1].judgeBB)
    BY <2>1, <2>2
  <2>4. HasRanks(g, t)
    BY <1>1, <1>3, <2>2, <2>3, RankedGoOn
  <2> QED BY <2>4
<1>23. CASE UNCHANGED bvars
  BY <1>23 DEF bvars, OrderInv
<1> QED
  BY <1>4, <1>5, <1>6, <1>7, <1>8, <1>9, <1>10, <1>11, <1>12, <1>13, <1>14,
     <1>15, <1>16, <1>17, <1>18, <1>19, <1>20, <1>21, <1>22, <1>23 DEF BNext

LEMMA OrderHolds == BSpec => []OrderInv
<1>1. BInit => OrderInv
  BY OrderStarts
<1>2. BSpec => []BInv
  BY InvariantHolds
<1>3. OrderInv /\ BInv /\ BInv' /\ [BNext]_bvars => OrderInv'
  BY OrderKeeps
<1> QED BY <1>1, <1>2, <1>3, PTL DEF BSpec

LEMMA BuiltOrder ==
  ASSUME NEW f, GoodFunction(f), HasRanks(f, << >>)
  PROVE  Structured(f)
<1>1. PICK r : Ranked(f, << >>, r)
  BY DEF HasRanks
<1> DEFINE M == Members(f.blocks)
<1>2. M \subseteq Block /\ Len(<< >>) = 0 /\ 1..0 = {}
  BY BlocksTyped
<1>3. /\ r \in [Block -> Nat]
      /\ \A u, v \in Block : r[u] = r[v] /\ r[u] # 0 => u = v
      /\ \A u \in Block : r[u] = 0 \/ r[1] <= r[u]
      /\ r[f.insert] # 0 /\ f.insert \in Block
  BY <1>1 DEF Ranked, Ranks
<1>4. (\A b \in Block \ M : r[b] = 0) /\ \A b \in M : r[b] # 0
  BY <1>1, <1>2 DEF Ranked, Unranked
<1>5. Entry(f) = 1
  <2>1. f.insert \in M
    BY <1>3, <1>4
  <2>2. f.blocks # << >>
    BY <2>1, MembersOfEmpty
  <2> QED BY <2>2 DEF GoodFunction, Entry
<1>6. ASSUME NEW a \in M, NEW b \in M, Step(f, a, b), r[b] <= r[a]
      PROVE  b # 1 /\ Enclosed(f, r, b, a)
  <2>1. Linked(f, a) /\ f.succ[a] # << >>
    BY <1>2, <1>6, MembersOfEmpty DEF GoodFunction, Step
  <2>2. b # 1
    BY <1>6, <2>1 DEF Linked, Step
  <2>3. Closing(f, r, b, a)
    BY <1>1, <1>2, <1>4, <1>6 DEF Ranked, RankedEdges
  <2> QED BY <1>2, <2>2, <2>3 DEF Closing, Enclosed
<1>7. ASSUME NEW b \in M, f.pre[b] # << >>
      PROVE  f.pre[b][1] \in M /\ r[f.pre[b][1]] < r[b]
  BY <1>1, <1>2, <1>4, <1>7 DEF Ranked, RankedEdges
<1>8. RankedBy(f, r)
  BY <1>2, <1>3, <1>4, <1>5, <1>6, <1>7 DEF RankedBy
<1> QED BY <1>8 DEF Structured

LEMMA BuiltStructured == BSpec => [](Built => Structured(fn))
<1>1. OrderInv /\ BInv => (Built => Structured(fn))
  <2> SUFFICES ASSUME OrderInv, BInv, Built PROVE Structured(fn)
    OBVIOUS
  <2>1. GoodFunction(fn) /\ HasRanks(fn, << >>)
    BY DEF OrderInv, BInv, Inv, Built
  <2> QED BY <2>1, BuiltOrder
<1>2. BSpec => []OrderInv
  BY OrderHolds
<1>3. BSpec => []BInv
  BY InvariantHolds
<1> QED BY <1>1, <1>2, <1>3, PTL

LEMMA BuiltGraph ==
  ASSUME NEW f, NEW d, NEW c, NEW x, Inv(f, << >>, d, c, x)
  PROVE  /\ GoodFunction(f) /\ Graph(f)
         /\ f.blocks \in Seq(Block) /\ Members(f.blocks) \subseteq Block
<1>1. GoodFunction(f) /\ f \in FunctionType /\ f.insert \in Members(f.blocks)
  BY DEF Inv, InsertFits, GoodFunction
<1>2. /\ f.blocks # << >> /\ f.blocks \in Seq(Block)
      /\ f.blocks \in Seq(Members(f.blocks)) /\ Members(f.blocks) \subseteq Block
  <2>1. f.blocks # << >> /\ f.blocks \in Seq(Block)
    BY <1>1, MembersOfEmpty DEF FunctionType
  <2> QED BY <2>1, SeqOfMembers, MembersOfSeq
<1>3. ASSUME NEW b \in Members(f.blocks)
      PROVE  f.succ[b] \in Seq(Members(f.blocks))
  <2>1. b \in Block
    BY <1>2, MembersOfSeq
  <2>2. f.succ[b] \in Seq(Block)
    BY <1>1, <2>1 DEF FunctionType
  <2>3. Linked(f, b)
    BY <1>1, <2>1 DEF GoodFunction
  <2>4. Members(f.succ[b]) \subseteq Members(f.blocks)
    <3>1. CASE f.succ[b] = << >>
      BY <3>1, MembersOfEmpty
    <3>2. CASE f.succ[b] # << >>
      BY <2>3, <3>2 DEF Linked
    <3> QED BY <3>1, <3>2
  <2> QED BY <2>2, <2>4, SeqOfMembers
<1> QED BY <1>1, <1>2, <1>3 DEF Graph

(* Every block has its place in the order in which they were gone on in,   *)
(* and whoever comes back to a block of his own path comes back to one     *)
(* that dominates him: a loop is entered at its head and nowhere else,     *)
(* whatever returns and array accesses stand in it.                        *)
LoopsHaveHeads(f) ==
    \A a, b, w : Leads(f, w, {}, a) /\ Step(f, a, b) /\ b \in Members(w) =>
                  Dominates(f, b, a)

THEOREM BuiltReducible == BSpec => [](Built => LoopsHaveHeads(fn))
<1>1. ASSUME BInv, Built, Structured(fn) PROVE LoopsHaveHeads(fn)
  <2>1. Graph(fn)
    BY <1>1, BuiltGraph DEF BInv, Built
  <2>2. ASSUME NEW a, NEW b, NEW w, Leads(fn, w, {}, a), Step(fn, a, b), b \in Members(w)
        PROVE  Dominates(fn, b, a)
    BY <1>1, <2>1, <2>2, ClosesALoop DEF Retreats
  <2> QED BY <2>2 DEF LoopsHaveHeads
<1>2. BInv /\ (Built => Structured(fn)) => (Built => LoopsHaveHeads(fn))
  BY <1>1
<1> QED BY <1>2, InvariantHolds, BuiltStructured, PTL
=============================================================================
