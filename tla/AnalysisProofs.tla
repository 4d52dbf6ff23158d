--------------------------- MODULE AnalysisProofs ---------------------------
(***************************************************************************)
(* What the dominance analysis shows of every function that the builder    *)
(* can emit, whatever the bounds: the depth-first search numbers exactly   *)
(* the reachable blocks, dominators after what they dominate.  Where no    *)
(* dead block jumps to a live one it also ends with the immediate          *)
(* dominators, the frontiers and the tree of the definitions, and reads no *)
(* dominator that is undefined on the way there.                           *)
(***************************************************************************)
EXTENDS Analysis, CfgProofs

-----------------------------------------------------------------------------
(* The depth-first search of f: the blocks on its stack are a walk, what   *)
(* it has finished, in order, has been explored, and every dominator of a  *)
(* finished block is on the stack or finished later.                       *)
Trail(s) == [k \in 1..Len(s) |-> s[k].bb]

FramesOf(f) == [bb : Members(f.blocks), next : Nat \ {0}]

Explored(f, s, v) ==
    \A k \in 1..Len(s) : \A m \in 1..Len(f.succ[s[k].bb]) :
        m < s[k].next => f.succ[s[k].bb][m] \in v

LaterOrOn(s, d, n, x) == x \in Members(Trail(s)) \/ \E m \in (n + 1)..Len(d) : d[m] = x

DominatorsLater(f, s, d) ==
    \A n \in 1..Len(d) : \A x : Dominates(f, x, d[n]) /\ x # d[n] => LaterOrOn(s, d, n, x)

Searching(f, s, v, d) ==
    /\ s \in Seq(FramesOf(f)) /\ (s # << >> => Walk(f, Trail(s), {}))
    /\ d \in Seq(Members(f.blocks)) /\ Distinct(d)
    /\ v = Members(Trail(s)) \cup Members(d) /\ Members(Trail(s)) \cap Members(d) = {}
    /\ Entry(f) \in v /\ v \subseteq Reachable(f)
    /\ \A b \in Members(d) : Members(f.succ[b]) \subseteq v
    /\ Explored(f, s, v) /\ DominatorsLater(f, s, d)

LEMMA TrailIs ==
  ASSUME NEW f, NEW s \in Seq(FramesOf(f))
  PROVE  /\ Len(s) \in Nat
         /\ Trail(s) \in Seq(Members(f.blocks)) /\ Len(Trail(s)) = Len(s)
         /\ \A k \in 1..Len(s) : Trail(s)[k] = s[k].bb
<1>1. Len(s) \in Nat /\ \A k \in 1..Len(s) : s[k].bb \in Members(f.blocks)
  <2>1. Len(s) \in Nat /\ \A k \in 1..Len(s) : s[k] \in FramesOf(f)
    OBVIOUS
  <2>2. \A fr \in FramesOf(f) : fr.bb \in Members(f.blocks)
    BY DEF FramesOf
  <2> QED BY <2>1, <2>2
<1> DEFINE n == Len(s)
<1>2. n \in Nat /\ Trail(s) = [k \in 1..n |-> s[k].bb]
  BY <1>1 DEF Trail
<1> HIDE DEF n
<1>3. Trail(s) \in Seq(Members(f.blocks)) /\ Len(Trail(s)) = n
  BY <1>1, <1>2 DEF n
<1> QED BY <1>1, <1>2, <1>3 DEF n

LEMMA SearchBegins ==
  ASSUME NEW f, Graph(f), NEW s, s = <<[bb |-> Entry(f), next |-> 1]>>
  PROVE  Searching(f, s, {Entry(f)}, << >>)
<1> DEFINE x == Entry(f)
           fr == [bb |-> x, next |-> 1]
           w == <<x>>
<1>1. x \in Members(f.blocks)
  <2>1. Len(f.blocks) \in Nat \ {0}
    BY DEF Graph
  <2> QED BY <2>1 DEF Entry, Members
<1>2. s \in Seq(FramesOf(f)) /\ Len(s) = 1 /\ s[1].bb = x /\ s[1].next = 1 /\ s # << >>
  <2>1. fr \in FramesOf(f) /\ fr.bb = x /\ fr.next = 1
    BY <1>1 DEF FramesOf
  <2> HIDE DEF fr, x
  <2> QED BY <2>1 DEF fr, x
<1>3. Trail(s) = w
  <2>1. Trail(s) \in Seq(Members(f.blocks)) /\ Len(Trail(s)) = 1 /\ Trail(s)[1] = x
    <3>1. 1 \in 1..1
      OBVIOUS
    <3> QED BY <1>2, <3>1, TrailIs
  <2> HIDE DEF x
  <2> QED BY <2>1
<1>4. Leads(f, w, {}, x)
  <2> HIDE DEF w
  <2> QED BY EntryWalk DEF w
<1>5. Members(w) = {x} /\ Members(<< >>) = {}
  <2>1. Len(w) = 1 /\ w[1] = x /\ 1..1 = {1}
    OBVIOUS
  <2> HIDE DEF w
  <2> QED BY <2>1, MembersOfEmpty DEF Members
<1>6. x \in Reachable(f)
  BY <1>4, ReachByWalk DEF Reachable
<1>7. Explored(f, s, {x})
  BY <1>2 DEF Explored
<1>8. << >> \in Seq(Members(f.blocks)) /\ Distinct(<< >>) /\ DominatorsLater(f, s, << >>)
  BY DEF Distinct, DominatorsLater
<1> QED BY <1>2, <1>3, <1>4, <1>5, <1>6, <1>7, <1>8 DEF Searching, Leads

(* The iterator of the top frame moves on.                                 *)
Advance(s) == [s EXCEPT ![Len(s)].next = @ + 1]

Advanced(f, s, r) ==
    /\ r \in Seq(FramesOf(f)) /\ Len(r) = Len(s) /\ Len(s) \in Nat \ {0}
    /\ \A k \in 1..Len(s) : r[k].bb = s[k].bb
    /\ \A k \in 1..Len(s) : s[k].next \in Nat \ {0}
    /\ \A k \in 1..Len(s) : r[k].next = IF k = Len(s) THEN s[k].next + 1 ELSE s[k].next
    /\ Trail(r) = Trail(s)

LEMMA AdvancedIs ==
  ASSUME NEW f, NEW s \in Seq(FramesOf(f)), s # << >>, NEW r, r = Advance(s)
  PROVE  Advanced(f, s, r)
<1> DEFINE n == Len(s)
<1>1. n \in Nat \ {0} /\ \A k \in 1..n : s[k] \in FramesOf(f)
  OBVIOUS
<1>2. \A fr \in FramesOf(f) : /\ fr.bb \in Members(f.blocks) /\ fr.next \in Nat \ {0}
                              /\ fr = [bb |-> fr.bb, next |-> fr.next]
  BY DEF FramesOf
<1> DEFINE top == s[n]
           up == [bb |-> top.bb, next |-> top.next + 1]
<1>3. top \in FramesOf(f)
  BY <1>1
<1>4. up \in FramesOf(f) /\ up.bb = top.bb /\ up.next = top.next + 1
  BY <1>2, <1>3 DEF FramesOf
<1>5. [top EXCEPT !.next = top.next + 1] = up
  <2>1. top = [bb |-> top.bb, next |-> top.next]
    BY <1>2, <1>3
  <2> HIDE DEF top
  <2> QED BY <2>1
<1>6. r = [s EXCEPT ![n] = up]
  BY <1>5 DEF Advance
<1> HIDE DEF up, top, n
<1>7. r \in Seq(FramesOf(f)) /\ Len(r) = n /\ \A k \in 1..n : r[k] = IF k = n THEN up ELSE s[k]
  BY <1>1, <1>4, <1>6 DEF n
<1>8. /\ \A k \in 1..n : r[k].bb = s[k].bb
      /\ \A k \in 1..n : r[k].next = IF k = n THEN s[k].next + 1 ELSE s[k].next
  BY <1>4, <1>7 DEF top
<1>9. Trail(r) = Trail(s)
  BY <1>7, <1>8 DEF Trail, n
<1> QED BY <1>1, <1>2, <1>7, <1>8, <1>9 DEF n, Advanced

LEMMA SearchAdvances ==
  ASSUME NEW f, Graph(f), NEW s, NEW v, NEW d, Searching(f, s, v, d), s # << >>,
         NEW at, at = s[Len(s)].next, f.succ[s[Len(s)].bb][at] \in v,
         NEW r, r = Advance(s)
  PROVE  Searching(f, r, v, d)
<1>1. s \in Seq(FramesOf(f)) /\ Explored(f, s, v) /\ DominatorsLater(f, s, d)
  BY DEF Searching
<1> DEFINE n == Len(s)
<1>2. /\ r \in Seq(FramesOf(f)) /\ Len(r) = n /\ n \in Nat \ {0}
      /\ \A k \in 1..n : r[k].bb = s[k].bb
      /\ \A k \in 1..n : s[k].next \in Nat \ {0}
      /\ \A k \in 1..n : r[k].next = IF k = n THEN s[k].next + 1 ELSE s[k].next
      /\ Trail(r) = Trail(s)
  <2>1. Advanced(f, s, r)
    BY <1>1, AdvancedIs
  <2> QED BY <2>1 DEF Advanced
<1>3. f.succ[s[n].bb][at] \in v /\ at = s[n].next
  OBVIOUS
<1> HIDE DEF n
<1>4. Explored(f, r, v)
  <2> SUFFICES ASSUME NEW k \in 1..n, NEW m \in 1..Len(f.succ[s[k].bb]), m < r[k].next
               PROVE  f.succ[s[k].bb][m] \in v
    BY <1>2 DEF Explored
  <2>1. CASE m < s[k].next
    BY <1>1, <2>1 DEF Explored, n
  <2>2. CASE ~(m < s[k].next)
    <3>1. k = n /\ m = s[k].next
      <4> DEFINE a == s[k].next
                 b == r[k].next
      <4>1. a \in Nat /\ m \in Int /\ b = (IF k = n THEN a + 1 ELSE a) /\ m < b /\ ~(m < a)
        BY <1>2, <2>2
      <4> HIDE DEF a, b
      <4>2. k = n /\ m = a
        BY <4>1
      <4> QED BY <4>2 DEF a
    <3> QED BY <1>3, <3>1
  <2> QED BY <2>1, <2>2
<1>5. DominatorsLater(f, r, d)
  BY <1>1, <1>2 DEF DominatorsLater, LaterOrOn
<1>6. r # << >>
  BY <1>2
<1> QED BY <1>2, <1>4, <1>5, <1>6 DEF Searching

LEMMA AppendFacts ==
  ASSUME NEW S, NEW s \in Seq(S), NEW e \in S
  PROVE  /\ Append(s, e) \in Seq(S) /\ Len(s) \in Nat /\ Len(Append(s, e)) = Len(s) + 1
         /\ \A k \in 1..Len(s) : Append(s, e)[k] = s[k]
         /\ Append(s, e)[Len(s) + 1] = e
OBVIOUS

LEMMA SameSequence ==
  ASSUME NEW S, NEW s \in Seq(S), NEW w \in Seq(S), NEW n, Len(s) = n, Len(w) = n,
         \A k \in 1..n : s[k] = w[k]
  PROVE  s = w
OBVIOUS

Deepened(s, y) == Append(Advance(s), [bb |-> y, next |-> 1])

OneOnTop(f, r, a, y, n) ==
    /\ r \in Seq(FramesOf(f)) /\ Len(r) = n + 1
    /\ r[n + 1].bb = y /\ r[n + 1].next = 1
    /\ \A k \in 1..n : r[k] = a[k]

LEMMA PushedIs ==
  ASSUME NEW f, NEW s \in Seq(FramesOf(f)), s # << >>, NEW y \in Members(f.blocks),
         NEW a, a = Advance(s), NEW r, r = Deepened(s, y), NEW n, n = Len(s)
  PROVE  OneOnTop(f, r, a, y, n)
<1>1. a \in Seq(FramesOf(f)) /\ Len(a) = n
  BY AdvancedIs DEF Advanced
<1> DEFINE F == FramesOf(f)
           fr == [bb |-> y, next |-> 1]
<1>2. fr \in F /\ fr.bb = y /\ fr.next = 1
  BY DEF FramesOf
<1>3. a \in Seq(F) /\ r = Append(a, fr)
  BY <1>1 DEF Deepened
<1> HIDE DEF fr, F
<1>4. /\ Append(a, fr) \in Seq(F) /\ Len(Append(a, fr)) = Len(a) + 1
      /\ (\A k \in 1..Len(a) : Append(a, fr)[k] = a[k])
      /\ Append(a, fr)[Len(a) + 1] = fr
  BY <1>2, <1>3, AppendFacts
<1> QED BY <1>1, <1>2, <1>3, <1>4 DEF F, OneOnTop

LEMMA ExploredIs ==
  ASSUME NEW f, NEW r, NEW u, NEW l, Len(r) = l,
         \A k \in 1..l : \A m \in 1..Len(f.succ[r[k].bb]) :
            m < r[k].next => f.succ[r[k].bb][m] \in u
  PROVE  Explored(f, r, u)
BY DEF Explored

(* The top frame of s finds y, which is not in v.                          *)
Finds(f, s, v, y) ==
    LET top == s[Len(s)]
    IN  /\ s # << >> /\ top.next <= Len(f.succ[top.bb])
        /\ y = f.succ[top.bb][top.next] /\ y \notin v

LEMMA SearchDeepens ==
  ASSUME NEW f, Graph(f), NEW s, NEW v, NEW d, Searching(f, s, v, d),
         NEW y, Finds(f, s, v, y),
         NEW r, r = Deepened(s, y), NEW u, u = v \cup {y}
  PROVE  Searching(f, r, u, d)
<1> DEFINE a == Advance(s)
           n == Len(s)
           x == s[n].bb
           at == s[n].next
           t == Trail(s)
<1>0. s # << >> /\ at <= Len(f.succ[x]) /\ y = f.succ[x][at] /\ y \notin v
  BY DEF Finds
<1>1. /\ s \in Seq(FramesOf(f)) /\ Explored(f, s, v) /\ DominatorsLater(f, s, d)
      /\ Walk(f, t, {}) /\ d \in Seq(Members(f.blocks))
      /\ v = Members(t) \cup Members(d)
  BY <1>0 DEF Searching
<1>2. Advanced(f, s, a)
  <2> HIDE DEF a
  <2> QED BY <1>0, <1>1, AdvancedIs DEF a
<1>3. /\ a \in Seq(FramesOf(f)) /\ Len(a) = n /\ n \in Nat \ {0} /\ Trail(a) = t
      /\ \A k \in 1..n : a[k].bb = s[k].bb /\ s[k].next \in Nat \ {0}
      /\ \A k \in 1..n : a[k].next = IF k = n THEN s[k].next + 1 ELSE s[k].next
  BY <1>2 DEF Advanced
<1>4. t \in Seq(Members(f.blocks)) /\ Len(t) = n /\ \A k \in 1..n : t[k] = s[k].bb
  BY <1>1, TrailIs
<1>5. Leads(f, t, {}, x)
  BY <1>1, <1>3, <1>4 DEF Leads
<1>6. Step(f, x, y) /\ y \in Members(f.succ[x]) /\ at \in 1..Len(f.succ[x])
  <2>1. at \in Nat \ {0}
    BY <1>3
  <2>2. f.succ[x] \in Seq(Members(f.blocks))
    <3>1. n \in 1..n /\ t[n] = x
      BY <1>3, <1>4
    <3>2. x \in Members(f.blocks)
      <4> HIDE DEF n, x, t
      <4> QED BY <1>4, <3>1
    <3> HIDE DEF x
    <3> QED BY <3>2 DEF Graph
  <2> DEFINE l == Len(f.succ[x])
  <2>3. l \in Nat
    BY <2>2
  <2>4. at <= l
    BY <1>0
  <2> HIDE DEF l, at
  <2>5. at \in 1..l
    BY <2>1, <2>3, <2>4
  <2> QED BY <1>0, <2>5 DEF Step, Members, l
<1>7. y \in Members(f.blocks) /\ y \notin Members(t)
  <2>1. x \in Members(f.blocks)
    BY <1>3, <1>4
  <2>2. f.succ[x] \in Seq(Members(f.blocks))
    BY <2>1 DEF Graph
  <2> QED BY <1>0, <1>1, <1>6, <2>2, MembersOfSeq DEF Step
<1>9. x = s[n].bb /\ at = s[n].next
  OBVIOUS
<1>10. /\ r \in Seq(FramesOf(f)) /\ Len(r) = n + 1 /\ r[n + 1].bb = y /\ r[n + 1].next = 1
       /\ \A k \in 1..n : r[k] = a[k]
  <2>1. a = Advance(s) /\ n = Len(s)
    OBVIOUS
  <2> HIDE DEF a, n, x, t, at
  <2>2. s \in Seq(FramesOf(f)) /\ s # << >> /\ y \in Members(f.blocks)
    BY <1>0, <1>1, <1>7
  <2>3. OneOnTop(f, r, a, y, n)
    BY <2>1, <2>2, PushedIs
  <2> QED BY <2>3 DEF OneOnTop
<1> HIDE DEF a, n, x, t, at
<1>11. Trail(r) = Append(t, y)
  <2>1. /\ Trail(r) \in Seq(Members(f.blocks)) /\ Len(Trail(r)) = n + 1
        /\ \A k \in 1..(n + 1) : Trail(r)[k] = r[k].bb
    BY <1>10, TrailIs
  <2>2. /\ Append(t, y) \in Seq(Members(f.blocks)) /\ Len(Append(t, y)) = n + 1
        /\ \A k \in 1..n : Append(t, y)[k] = t[k]
        /\ Append(t, y)[n + 1] = y
    BY <1>4, <1>7, AppendFacts
  <2>3. \A k \in 1..(n + 1) : Trail(r)[k] = Append(t, y)[k]
    <3> SUFFICES ASSUME NEW k \in 1..(n + 1) PROVE Trail(r)[k] = Append(t, y)[k]
      OBVIOUS
    <3>1. CASE k = n + 1
      BY <1>10, <2>1, <2>2, <3>1
    <3>2. CASE k # n + 1
      <4>1. k \in 1..n
        BY <1>3, <3>2
      <4>2. Trail(r)[k] = r[k].bb /\ r[k] = a[k] /\ a[k].bb = s[k].bb
        BY <1>3, <1>10, <2>1, <4>1
      <4>3. Append(t, y)[k] = t[k] /\ t[k] = s[k].bb
        BY <1>4, <2>2, <4>1
      <4> QED BY <4>2, <4>3
    <3> QED BY <3>1, <3>2
  <2> QED BY <2>1, <2>2, <2>3, SameSequence
<1>12. Leads(f, Trail(r), {}, y)
  <2> DEFINE path == Trail(r)
  <2>1. path = Append(t, y) /\ y \notin {}
    BY <1>11
  <2> HIDE DEF path
  <2>2. Leads(f, path, {}, y)
    BY <1>5, <1>6, <1>7, <2>1, WalkAppend
  <2> QED BY <2>2 DEF path
<1>13. Members(Trail(r)) = Members(t) \cup {y}
  BY <1>4, <1>11, AppendMembers
<1>14. y \in Reachable(f)
  BY <1>12, ReachByWalk DEF Reachable
<1>15. Explored(f, r, u)
  <2>1. ASSUME NEW k \in 1..(n + 1), NEW m \in 1..Len(f.succ[r[k].bb]), m < r[k].next
        PROVE  f.succ[r[k].bb][m] \in u
    <3>1. CASE k = n + 1
      <4> DEFINE l == Len(f.succ[r[k].bb])
                 h == r[k].next
      <4>1. h = 1 /\ m \in 1..l /\ m < h
        BY <1>10, <2>1, <3>1
      <4> HIDE DEF l, h
      <4>2. FALSE
        BY <4>1
      <4> QED BY <4>2
    <3>2. CASE k # n + 1
      <4>1. k \in 1..n
        BY <1>3, <3>2
      <4>2. r[k].bb = s[k].bb /\ r[k].next = IF k = n THEN s[k].next + 1 ELSE s[k].next
        BY <1>3, <1>10, <4>1
      <4>3. CASE m < s[k].next
        BY <1>1, <4>1, <4>2, <4>3 DEF Explored, n
      <4>4. CASE ~(m < s[k].next)
        <5> DEFINE g == s[k].next
                   h == r[k].next
        <5>1. g \in Nat
          BY <1>3, <4>1
        <5>2. m \in Int
          OBVIOUS
        <5>3. h = (IF k = n THEN g + 1 ELSE g) /\ m < h /\ ~(m < g)
          BY <2>1, <4>2, <4>4
        <5> HIDE DEF g, h
        <5>4. k = n /\ m = g
          BY <5>1, <5>2, <5>3
        <5>5. k = n /\ m = at /\ r[k].bb = x
          BY <1>9, <4>2, <5>4 DEF g
        <5> QED BY <1>0, <5>5
      <4> QED BY <4>3, <4>4
    <3> QED BY <3>1, <3>2
  <2>2. Len(r) = n + 1
    BY <1>10
  <2> QED BY <2>1, <2>2, ExploredIs
<1>16. DominatorsLater(f, r, d)
  BY <1>1, <1>13 DEF DominatorsLater, LaterOrOn, t
<1>17. /\ Distinct(d) /\ Entry(f) \in v /\ v \subseteq Reachable(f)
       /\ \A b \in Members(d) : Members(f.succ[b]) \subseteq v
       /\ Members(t) \cap Members(d) = {} /\ y \notin Members(d)
  BY <1>0, <1>1 DEF Searching, t
<1>18. /\ u = Members(Trail(r)) \cup Members(d) /\ Members(Trail(r)) \cap Members(d) = {}
       /\ Entry(f) \in u /\ u \subseteq Reachable(f)
       /\ \A b \in Members(d) : Members(f.succ[b]) \subseteq u
  BY <1>1, <1>13, <1>14, <1>17
<1> QED BY <1>1, <1>10, <1>12, <1>15, <1>16, <1>17, <1>18 DEF Searching, Leads

(* The top frame is done.                                                  *)
LEMMA SearchRetreats ==
  ASSUME NEW f, Graph(f), NEW s, NEW v, NEW d, Searching(f, s, v, d), s # << >>,
         NEW n, n = Len(s), NEW x, x = s[n].bb, ~(s[n].next <= Len(f.succ[x])),
         NEW r, r = SubSeq(s, 1, n - 1), NEW e, e = Append(d, x)
  PROVE  Searching(f, r, v, e)
<1> DEFINE t == Trail(s)
<1>1. /\ s \in Seq(FramesOf(f)) /\ Explored(f, s, v) /\ DominatorsLater(f, s, d)
      /\ Walk(f, t, {}) /\ d \in Seq(Members(f.blocks)) /\ Distinct(d)
      /\ v = Members(t) \cup Members(d) /\ Members(t) \cap Members(d) = {}
      /\ Entry(f) \in v /\ v \subseteq Reachable(f)
      /\ \A b \in Members(d) : Members(f.succ[b]) \subseteq v
  BY DEF Searching
<1>2. t \in Seq(Members(f.blocks)) /\ Len(t) = n /\ \A k \in 1..n : t[k] = s[k].bb
  BY <1>1, TrailIs
<1>3. n \in Nat \ {0} /\ t[n] = x /\ Distinct(t)
  <2>1. n \in Nat \ {0}
    BY <1>1
  <2> QED BY <1>1, <1>2, <2>1 DEF Walk
<1>4. r \in Seq(FramesOf(f)) /\ Len(r) = n - 1 /\ \A k \in 1..(n - 1) : r[k] = s[k]
  BY <1>1, <1>3
<1> DEFINE w == [k \in 1..(n - 1) |-> t[k]]
<1> HIDE DEF t
<1>5. Trail(r) = w
  <2>1. \A k \in 1..(n - 1) : k \in 1..n
    BY <1>3
  <2>2. Trail(r) = [k \in 1..(n - 1) |-> r[k].bb]
    BY <1>4 DEF Trail
  <2>3. \A k \in 1..(n - 1) : r[k].bb = t[k]
    BY <1>2, <1>4, <2>1
  <2> QED BY <2>2, <2>3
<1>6. Members(t) = Members(w) \cup {x} /\ x \notin Members(w)
  <2>1. Len(w) = n - 1 /\ \A k \in 1..(n - 1) : w[k] = t[k]
    BY <1>3
  <2>2. \A k \in 1..n : k \in 1..(n - 1) \/ k = n
    BY <1>3
  <2>3. \A k \in 1..(n - 1) : k \in 1..n /\ k # n
    BY <1>3
  <2>4. n \in 1..n
    BY <1>3
  <2> HIDE DEF w
  <2>5. Members(t) \subseteq Members(w) \cup {x}
    BY <1>2, <1>3, <2>1, <2>2 DEF Members
  <2>6. Members(w) \cup {x} \subseteq Members(t)
    BY <1>2, <1>3, <2>1, <2>3, <2>4 DEF Members
  <2>7. x \notin Members(w)
    <3>1. \A j, k \in 1..n : t[j] = t[k] => j = k
      BY <1>2, <1>3 DEF Distinct
    <3>2. ASSUME NEW k \in 1..(n - 1), w[k] = x PROVE FALSE
      <4>1. k \in 1..n /\ k # n /\ t[k] = t[n]
        BY <1>3, <2>1, <2>3, <3>2
      <4> QED BY <2>4, <3>1, <4>1
    <3> QED BY <2>1, <3>2 DEF Members
  <2> QED BY <2>5, <2>6, <2>7
<1>7. r # << >> => Walk(f, w, {})
  <2> SUFFICES ASSUME r # << >> PROVE Walk(f, w, {})
    OBVIOUS
  <2> DEFINE m == n - 1
  <2>1. m \in 1..Len(t) /\ w = [k \in 1..m |-> t[k]]
    BY <1>2, <1>3, <1>4
  <2> HIDE DEF m, w
  <2> QED BY <1>1, <2>1, WalkCut
<1> HIDE DEF w
<1>8. x \in Members(f.blocks) /\ x \in Members(t) /\ x \notin Members(d)
  <2>1. x \in Members(t)
    BY <1>6
  <2>2. x \in Members(f.blocks)
    BY <1>2, <2>1, MembersOfSeq
  <2> QED BY <1>1, <2>1, <2>2
<1>9. /\ e \in Seq(Members(f.blocks)) /\ Members(e) = Members(d) \cup {x}
      /\ Len(d) \in Nat /\ Len(e) = Len(d) + 1 /\ e[Len(d) + 1] = x
      /\ \A k \in 1..Len(d) : e[k] = d[k]
  BY <1>1, <1>8, AppendMembers
<1>10. Distinct(e)
  <2> DEFINE l == Len(d)
  <2>1. \A k \in 1..l : d[k] # x
    BY <1>8 DEF Members
  <2>2. /\ l \in Nat /\ Len(e) = l + 1 /\ e[l + 1] = x /\ (\A k \in 1..l : e[k] = d[k])
        /\ \A j, k \in 1..l : d[j] = d[k] => j = k
    BY <1>1, <1>9 DEF Distinct
  <2> HIDE DEF l
  <2>3. \A k \in 1..(l + 1) : k \in 1..l \/ k = l + 1
    BY <2>2
  <2> QED BY <2>1, <2>2, <2>3 DEF Distinct
<1>11. Members(f.succ[x]) \subseteq v
  <2> SUFFICES ASSUME NEW m \in 1..Len(f.succ[x]) PROVE f.succ[x][m] \in v
    BY DEF Members
  <2>1. n \in 1..Len(s)
    BY <1>3
  <2>2. m < s[n].next
    <3> DEFINE g == s[n].next
               l == Len(f.succ[x])
    <3>1. s[n] \in FramesOf(f)
      BY <1>1, <2>1
    <3>2. g \in Nat
      BY <3>1 DEF FramesOf
    <3>3. l \in Nat
      <4>1. f.succ[x] \in Seq(Members(f.blocks))
        BY <1>8 DEF Graph
      <4> QED BY <4>1
    <3>4. ~(g <= l) /\ m \in 1..l
      OBVIOUS
    <3> HIDE DEF g, l
    <3>5. m < g
      BY <3>2, <3>3, <3>4
    <3> QED BY <3>5 DEF g
  <2> QED BY <1>1, <2>1, <2>2 DEF Explored
<1>12. Explored(f, r, v)
  <2>1. \A k \in 1..(n - 1) : k \in 1..n
    BY <1>3
  <2> QED BY <1>1, <1>4, <2>1 DEF Explored
<1>13. DominatorsLater(f, r, e)
  <2> DEFINE l == Len(d)
  <2>0. /\ l \in Nat /\ Len(e) = l + 1 /\ e[l + 1] = x /\ (\A k \in 1..l : e[k] = d[k])
    BY <1>9
  <2> SUFFICES ASSUME NEW k \in 1..(l + 1), NEW z, Dominates(f, z, e[k]), z # e[k]
               PROVE  LaterOrOn(r, e, k, z)
    BY <2>0 DEF DominatorsLater
  <2>1. CASE k = l + 1
    <3>1. Leads(f, t, {}, x)
      BY <1>1, <1>2, <1>3 DEF Leads, t
    <3>2. z \in Members(t)
      BY <2>0, <2>1, <3>1, OnTheWalk
    <3> QED BY <1>5, <1>6, <2>0, <2>1, <3>2 DEF LaterOrOn
  <2>2. CASE k # l + 1
    <3>1. k \in 1..l /\ e[k] = d[k]
      BY <2>0, <2>2
    <3>2. LaterOrOn(s, d, k, z)
      BY <1>1, <3>1 DEF DominatorsLater, l
    <3>3. CASE z \in Members(t)
      <4>1. CASE z = x
        <5>1. l + 1 \in (k + 1)..(l + 1)
          BY <2>0, <3>1
        <5> QED BY <2>0, <4>1, <5>1 DEF LaterOrOn
      <4>2. CASE z # x
        BY <1>5, <1>6, <3>3, <4>2 DEF LaterOrOn
      <4> QED BY <4>1, <4>2
    <3>4. CASE \E m \in (k + 1)..l : d[m] = z
      <4>1. PICK m \in (k + 1)..l : d[m] = z
        BY <3>4
      <4>2. m \in (k + 1)..(l + 1) /\ m \in 1..l
        BY <2>0, <3>1
      <4> QED BY <2>0, <4>1, <4>2 DEF LaterOrOn
    <3> QED BY <3>2, <3>3, <3>4 DEF LaterOrOn, t, l
  <2> HIDE DEF l
  <2> QED BY <2>1, <2>2
<1>14. /\ v = Members(Trail(r)) \cup Members(e) /\ Members(Trail(r)) \cap Members(e) = {}
       /\ \A b \in Members(e) : Members(f.succ[b]) \subseteq v
  BY <1>1, <1>5, <1>6, <1>8, <1>9, <1>11 DEF t
<1> QED BY <1>1, <1>4, <1>5, <1>7, <1>9, <1>10, <1>12, <1>13, <1>14 DEF Searching
-----------------------------------------------------------------------------
(* The finished search: d lists the reachable blocks, once each, a block   *)
(* before the blocks that dominate it.                                     *)
Ordered(f, d) ==
    /\ d \in Seq(Members(f.blocks)) /\ Distinct(d)
    /\ Members(d) = Reachable(f) /\ Len(d) = Cardinality(Reachable(f))
    /\ \A n \in 1..Len(d) : \A x :
         Dominates(f, x, d[n]) /\ x # d[n] => \E m \in (n + 1)..Len(d) : d[m] = x

LEMMA SearchEnds ==
  ASSUME NEW f, Graph(f), NEW s, s = << >>, NEW v, NEW d, Searching(f, s, v, d)
  PROVE  Ordered(f, d) /\ v = Members(d)
<1>1. /\ d \in Seq(Members(f.blocks)) /\ Distinct(d)
      /\ v = Members(Trail(s)) \cup Members(d)
      /\ Entry(f) \in v /\ v \subseteq Reachable(f)
      /\ \A b \in Members(d) : Members(f.succ[b]) \subseteq v
      /\ DominatorsLater(f, s, d)
  BY DEF Searching
<1>2. Members(Trail(s)) = {}
  <2>1. s \in Seq(FramesOf(f)) /\ Len(s) = 0
    OBVIOUS
  <2>2. Len(Trail(s)) = 0
    BY <2>1, TrailIs
  <2> QED BY <2>2 DEF Members
<1>3. v = Members(d)
  BY <1>1, <1>2
<1>4. Reachable(f) \subseteq Members(d)
  <2>1. Len(f.blocks) \in Nat
    BY DEF Graph
  <2> DEFINE S == Members(d)
             cut == {}
  <2>2. Entry(f) \in S \cup cut /\ \A a \in S : Members(f.succ[a]) \subseteq S \cup cut
    BY <1>1, <1>3
  <2> HIDE DEF S, cut
  <2>3. ReachAvoiding(f, cut) \subseteq S
    BY <2>1, <2>2, ReachIsLeast
  <2> QED BY <2>3 DEF Reachable, S, cut
<1>5. Members(d) = Reachable(f)
  BY <1>1, <1>3, <1>4
<1>6. Len(d) = Cardinality(Reachable(f))
  <2>1. Cardinality(Members(d)) = Len(d)
    BY <1>1, DistinctCardinality
  <2> QED BY <1>5, <2>1
<1>7. ASSUME NEW n \in 1..Len(d), NEW x, Dominates(f, x, d[n]) /\ x # d[n]
      PROVE  \E m \in (n + 1)..Len(d) : d[m] = x
  <2>1. LaterOrOn(s, d, n, x)
    BY <1>1, <1>7 DEF DominatorsLater
  <2> QED BY <1>2, <2>1 DEF LaterOrOn
<1> QED BY <1>1, <1>3, <1>5, <1>6, <1>7 DEF Ordered

NumberOf(d) ==
    [b \in Block |-> IF b \in Members(d) THEN CHOOSE n \in 0..(Len(d) - 1) : d[n + 1] = b ELSE 0]

(* The numbers are the positions in d, from 0.                             *)
NumbersOf(d, g, l) ==
    /\ l = Len(d) /\ l \in 1..MaxBlocks
    /\ g \in [Block -> 0..(l - 1)]
    /\ \A k \in 0..(l - 1) : d[k + 1] \in Block /\ g[d[k + 1]] = k
    /\ \A b \in Members(d) : b \in Block /\ d[g[b] + 1] = b

LEMMA NumbersAre ==
  ASSUME NEW f, Graph(f), Members(f.blocks) \subseteq Block, NEW d, Ordered(f, d),
         NEW g, g = NumberOf(d), NEW l, l = Len(d)
  PROVE  NumbersOf(d, g, l)
<1>1. d \in Seq(Members(f.blocks)) /\ Distinct(d) /\ Members(d) = Reachable(f)
  BY DEF Ordered
<1>2. Members(d) \subseteq Block /\ d \in Seq(Block) /\ l \in Nat
  <2>1. Members(d) \subseteq Members(f.blocks)
    BY <1>1, MembersOfSeq
  <2> QED BY <1>1, <2>1
<1>3. l # 0
  <2>1. Entry(f) \in Reachable(f)
    <3> DEFINE cut == {}
    <3>1. Entry(f) \notin cut
      OBVIOUS
    <3> HIDE DEF cut
    <3>2. Entry(f) \in ReachAvoiding(f, cut)
      BY <3>1, ReachClosed
    <3> QED BY <3>2 DEF Reachable, cut
  <2>2. PICK k \in 1..Len(d) : d[k] = Entry(f)
    BY <1>1, <2>1 DEF Members
  <2> QED BY <1>2, <2>2
<1>4. l <= MaxBlocks
  <2>1. IsFiniteSet(Members(d)) /\ Cardinality(Members(d)) = l
    BY <1>1, DistinctCardinality
  <2>2. IsFiniteSet(Block) /\ Cardinality(Block) = MaxBlocks
    <3>1. MaxBlocks \in Nat
      BY BoundsTyped
    <3>2. IsFiniteSet(1..MaxBlocks)
          /\ Cardinality(1..MaxBlocks) = IF 1 > MaxBlocks THEN 0 ELSE MaxBlocks - 1 + 1
      BY <3>1, FS_Interval
    <3> QED BY <3>1, <3>2 DEF Block
  <2>3. Cardinality(Members(d)) <= Cardinality(Block)
    BY <1>2, <2>2, FS_Subset
  <2> QED BY <2>1, <2>2, <2>3
<1>5. l \in 1..MaxBlocks
  BY <1>2, <1>3, <1>4, BoundsTyped
<1>6. ASSUME NEW b \in Members(d) PROVE g[b] \in 0..(l - 1) /\ d[g[b] + 1] = b
  <2>1. PICK k \in 1..l : d[k] = b
    BY DEF Members
  <2>2. k - 1 \in 0..(l - 1) /\ d[(k - 1) + 1] = b
    BY <1>2, <2>1
  <2>3. g[b] = CHOOSE n \in 0..(l - 1) : d[n + 1] = b
    BY <1>2 DEF NumberOf
  <2> HIDE DEF NumberOf
  <2> QED BY <2>2, <2>3
<1>7. g \in [Block -> 0..(l - 1)]
  <2>1. \A b \in Block : b \notin Members(d) => g[b] = 0
    BY DEF NumberOf
  <2>2. 0 \in 0..(l - 1)
    BY <1>2, <1>3
  <2>3. \A b \in Block : g[b] \in 0..(l - 1)
    BY <1>6, <2>1, <2>2
  <2>4. g = [b \in Block |-> g[b]]
    BY DEF NumberOf
  <2> QED BY <2>3, <2>4
<1>8. ASSUME NEW k \in 0..(l - 1) PROVE d[k + 1] \in Block /\ g[d[k + 1]] = k
  <2> DEFINE b == d[k + 1]
             n == g[b]
  <2>1. k + 1 \in 1..l /\ k \in Nat
    BY <1>2
  <2>2. b \in Members(d)
    BY <2>1 DEF Members
  <2>3. n \in 0..(l - 1) /\ d[n + 1] = d[k + 1]
    BY <1>6, <2>2
  <2> HIDE DEF n
  <2>4. n + 1 \in 1..l /\ n \in Nat
    BY <1>2, <2>3
  <2>5. n + 1 = k + 1
    BY <1>1, <2>1, <2>3, <2>4 DEF Distinct
  <2>6. n = k
    BY <2>1, <2>4, <2>5
  <2> QED BY <1>2, <2>2, <2>6 DEF n
<1>9. \A b \in Members(d) : b \in Block /\ d[g[b] + 1] = b
  BY <1>2, <1>6
<1> QED BY <1>5, <1>7, <1>8, <1>9 DEF NumbersOf

(* A block has a smaller number than the blocks that strictly dominate it. *)
LEMMA DominatorsNumbered ==
  ASSUME NEW f, Graph(f), NEW d, Ordered(f, d), NEW g, NEW l, NumbersOf(d, g, l),
         NEW x, NEW y, Dominates(f, x, y), x # y
  PROVE  g[y] < g[x]
<1>1. y \in Members(d) /\ l = Len(d) /\ l \in Nat
  BY DEF Dominates, Ordered, NumbersOf
<1>2. PICK n \in 1..l : d[n] = y
  BY <1>1 DEF Members
<1>3. PICK m \in (n + 1)..l : d[m] = x
  BY <1>1, <1>2 DEF Ordered
<1>4. /\ n - 1 \in 0..(l - 1) /\ (n - 1) + 1 = n /\ n \in Nat
      /\ m - 1 \in 0..(l - 1) /\ (m - 1) + 1 = m /\ m \in Nat /\ n < m
  BY <1>1, <1>2, <1>3
<1>5. \A k \in 0..(l - 1) : g[d[k + 1]] = k
  BY DEF NumbersOf
<1>6. g[d[(n - 1) + 1]] = n - 1 /\ g[d[(m - 1) + 1]] = m - 1
  BY <1>4, <1>5
<1>7. g[y] = n - 1 /\ g[x] = m - 1
  BY <1>2, <1>3, <1>4, <1>6
<1> QED BY <1>4, <1>7

-----------------------------------------------------------------------------
(* The inductive invariant of the analysis, part by part.                  *)
Looking(f, phase, s, v, d) ==
    /\ phase = "start" => s = << >> /\ v = {} /\ d = << >>
    /\ phase = "dfs" => Searching(f, s, v, d)
    /\ phase \notin {"start", "dfs"} => Ordered(f, d) /\ s = << >> /\ v = Members(d)

NumberingOf(phase, d, g, m) ==
    IF phase \in {"start", "dfs"}
    THEN g = [b \in Block |-> 0] /\ m = << >>
    ELSE g = NumberOf(d) /\ m \in [0..(Len(d) - 1) -> -1..(Len(d) - 1)]

FingersOf(phase, d, j, a, new, f1, f2) ==
    /\ j \in -1..MaxBlocks /\ a \in Nat \ {0}
    /\ new \in -1..MaxBlocks /\ f1 \in -1..MaxBlocks /\ f2 \in -1..MaxBlocks
    /\ phase \in {"preds", "intersect"} =>
         j \in -1..(Len(d) - 2) /\ new \in -1..(Len(d) - 1)
    /\ phase = "intersect" => f1 \in -1..(Len(d) - 1) /\ f2 \in -1..(Len(d) - 1)

MapsOf(above, frontier, tree) ==
    /\ above \in [Block \cup {NULL} -> Block \cup {NULL}]
    /\ frontier \in [Block \cup {NULL} -> SUBSET Block]
    /\ tree \in [Block \cup {NULL} -> SUBSET Block]

WalkOf(f, phase, position, pred, x) ==
    /\ position \in Nat \ {0} /\ pred \in Nat /\ x \in Block \cup {NULL}
    /\ phase = "runner" => position <= Len(f.blocks)

Phase == {"start", "dfs", "round", "preds", "intersect", "frontier", "runner", "done"}

AInv ==
    /\ BInv /\ pc \in Phase /\ (pc # "start" => Built)
    /\ Looking(fn, pc, stack, visited, dfn)
    /\ NumberingOf(pc, dfn, postorder, doms)
    /\ FingersOf(pc, dfn, i, p, new_idom, b1, b2)
    /\ MapsOf(idom, dom_frontier, dom_tree_succ)
    /\ WalkOf(fn, pc, bi, q, runner)

(* The operators of the instance are those of CFG.                         *)
LEMMA SameOperators ==
  /\ \A s : Dom!Members(s) = Members(s)
  /\ \A f : Dom!Entry(f) = Entry(f)
  /\ \A f, cut : Dom!ReachAvoiding(f, cut) = ReachAvoiding(f, cut)
  /\ \A f : Dom!Reachable(f) = Reachable(f)
  /\ \A f : Dom!Dominance(f) = Dominance(f)
  /\ \A D : Dom!Strict(D) = Strict(D)
  BY DEF Dom!Dominance, Dominance, Dom!Reachable, Reachable, Dom!ReachAvoiding, ReachAvoiding,
         Dom!Entry, Entry, Dom!Members, Members, Dom!Strict, Strict

LEMMA SameCardinality == \A S : Dom!Cardinality(S) = Cardinality(S)
  BY DEF Dom!Cardinality, Cardinality, Dom!IsFiniteSet, IsFiniteSet

LEMMA AnalysisBegins == Init => AInv
<1> SUFFICES ASSUME Init PROVE AInv
  OBVIOUS
<1>1. BInit /\ Dom!DInit
  BY DEF Init
<1>2. BInv
  BY <1>1, InitKeeps
<1>3. /\ pc = "start" /\ stack = << >> /\ visited = {} /\ dfn = << >>
      /\ postorder = [b \in Block |-> 0] /\ doms = << >>
      /\ i = 0 /\ p = 1 /\ new_idom = -1 /\ b1 = 0 /\ b2 = 0
      /\ idom = [b \in Block \cup {NULL} |-> NULL]
      /\ dom_frontier = [b \in Block \cup {NULL} |-> {}]
      /\ dom_tree_succ = [b \in Block \cup {NULL} |-> {}]
      /\ bi = 1 /\ q = 0 /\ runner = NULL
  BY <1>1 DEF Dom!DInit, Dom!BlockOrNull, Dom!Block, Block
<1>4. Looking(fn, pc, stack, visited, dfn) /\ NumberingOf(pc, dfn, postorder, doms)
  BY <1>3 DEF Looking, NumberingOf
<1>5. FingersOf(pc, dfn, i, p, new_idom, b1, b2)
  BY <1>3, BoundsTyped DEF FingersOf
<1>6. MapsOf(idom, dom_frontier, dom_tree_succ)
  BY <1>3 DEF MapsOf
<1>7. WalkOf(fn, pc, bi, q, runner)
  BY <1>3 DEF WalkOf
<1> QED BY <1>2, <1>3, <1>4, <1>5, <1>6, <1>7 DEF AInv, Phase

(* While the function is being built nothing is analysed.                  *)
LEMMA BuildGoesOn ==
  ASSUME AInv, Build
  PROVE  pc = "start" /\ pc' = "start" /\ UNCHANGED dvars
<1>1. todo # << >> /\ UNCHANGED dvars
  BY DEF Build, BNext, Doing, VisitFunDeclaration, FinishFunction, CloseFunction, VisitCompoundStmt,
    NextStatement, LeaveCompoundStmt, LeaveScope, EndOfStatements, StatementsGoOn,
    StatementIsCompound, VisitExpressionStmt, VisitReturnVoid, VisitReturnValue, FinishReturn,
    VisitIndexedVar, FinishExpression, VisitSelectionStmt, BranchIf, FinishThen, FinishElse,
    VisitIterationStmt, BranchLoop, FinishBody
<1>2. pc = "start"
  BY <1>1 DEF AInv, Built
<1> QED BY <1>1, <1>2 DEF dvars

LEMMA BuildKeeps == AInv /\ Build /\ BInv' => AInv'
<1> SUFFICES ASSUME AInv, Build, BInv' PROVE AInv'
  OBVIOUS
<1>1. pc = "start" /\ UNCHANGED dvars
  BY BuildGoesOn
<1> QED BY <1>1 DEF AInv, dvars, Looking, NumberingOf, FingersOf, MapsOf, WalkOf

LEMMA GraphHere ==
  ASSUME AInv, Built
  PROVE  /\ Graph(fn) /\ GoodFunction(fn)
         /\ fn.blocks \in Seq(Block) /\ Members(fn.blocks) \subseteq Block
<1>1. Inv(fn, << >>, depth, control, index)
  BY DEF AInv, BInv, Built
<1> QED BY <1>1, BuiltGraph

(* The depth-first search.                                                 *)
Still == UNCHANGED <<fn, postorder, doms, changed, i, p, new_idom, b1, b2, outside,
                     idom, dom_frontier, dom_tree_succ, bi, q, runner>>

LEMMA BeginSearchStep ==
  ASSUME AInv, Built, Dom!BeginSearch
  PROVE  pc = "start" /\ pc' = "dfs" /\ Still /\ Searching(fn', stack', visited', dfn')
<1>1. /\ pc = "start" /\ pc' = "dfs" /\ Still /\ dfn' = dfn
      /\ stack' = <<[bb |-> Entry(fn), next |-> 1]>> /\ visited' = {Entry(fn)}
  BY SameOperators DEF Dom!BeginSearch, Still, Dom!Frame, Dom!fixpoint, Dom!result, Dom!walk
<1>2. dfn' = << >> /\ fn' = fn
  BY <1>1 DEF AInv, Looking, Still
<1> DEFINE s == stack'
<1>3. Searching(fn, s, {Entry(fn)}, << >>)
  <2>1. s = <<[bb |-> Entry(fn), next |-> 1]>>
    BY <1>1
  <2> HIDE DEF s
  <2> QED BY <2>1, GraphHere, SearchBegins
<1> QED BY <1>1, <1>2, <1>3

LEMMA VisitStep ==
  ASSUME AInv, Built, Dom!VisitSuccessor
  PROVE  pc = "dfs" /\ pc' = "dfs" /\ Still /\ Searching(fn', stack', visited', dfn')
<1> DEFINE top == stack[Len(stack)]
           y == fn.succ[top.bb][top.next]
<1>1. /\ pc = "dfs" /\ pc' = "dfs" /\ Still /\ dfn' = dfn /\ fn' = fn
      /\ stack # << >> /\ top.next <= Len(fn.succ[top.bb])
      /\ IF y \in visited
         THEN stack' = Advance(stack) /\ visited' = visited
         ELSE /\ stack' = Append(Advance(stack), [bb |-> y, next |-> 1])
              /\ visited' = visited \cup {y}
  BY DEF Dom!VisitSuccessor, Still, Dom!Frame, Dom!fixpoint, Dom!result, Dom!walk, Dom!Top, Advance
<1>2. Searching(fn, stack, visited, dfn) /\ Graph(fn)
  BY <1>1, GraphHere DEF AInv, Looking
<1>3. CASE y \in visited
  <2>1. stack' = Advance(stack) /\ visited' = visited
    BY <1>1, <1>3
  <2> DEFINE s == stack'
             at == top.next
  <2>2. s = Advance(stack) /\ at = stack[Len(stack)].next
        /\ fn.succ[stack[Len(stack)].bb][at] \in visited
    BY <1>3, <2>1
  <2> HIDE DEF s, at
  <2>3. Searching(fn, s, visited, dfn)
    BY <1>1, <1>2, <2>2, SearchAdvances
  <2> QED BY <1>1, <2>1, <2>3 DEF s
<1>4. CASE y \notin visited
  <2>1. stack' = Deepened(stack, y) /\ visited' = visited \cup {y}
    BY <1>1, <1>4 DEF Deepened
  <2>2. Finds(fn, stack, visited, y)
    BY <1>1, <1>4 DEF Finds
  <2> DEFINE s == stack'
             v == visited'
  <2>3. s = Deepened(stack, y) /\ v = visited \cup {y}
    BY <2>1
  <2> HIDE DEF s, v, y
  <2>4. Searching(fn, s, v, dfn)
    BY <1>2, <2>2, <2>3, SearchDeepens
  <2> QED BY <1>1, <2>4 DEF s, v
<1> QED BY <1>3, <1>4

LEMMA FinishStep ==
  ASSUME AInv, Built, Dom!FinishBlock
  PROVE  pc = "dfs" /\ pc' = "dfs" /\ Still /\ Searching(fn', stack', visited', dfn')
<1> DEFINE n == Len(stack)
           x == stack[n].bb
           s == stack'
           d == dfn'
<1>1. /\ pc = "dfs" /\ pc' = "dfs" /\ Still /\ visited' = visited /\ fn' = fn
      /\ stack # << >> /\ stack[n].next > Len(fn.succ[x])
      /\ s = SubSeq(stack, 1, n - 1) /\ d = Append(dfn, x)
  BY DEF Dom!FinishBlock, Dom!Finish, Still, Dom!fixpoint, Dom!result, Dom!walk, Dom!Top, Dom!Pop
<1>2. Searching(fn, stack, visited, dfn) /\ Graph(fn)
  BY <1>1, GraphHere DEF AInv, Looking
<1>3. ~(stack[n].next <= Len(fn.succ[x]))
  <2> DEFINE g == stack[n].next
             l == Len(fn.succ[x])
  <2>1. stack \in Seq(FramesOf(fn)) /\ n \in Nat \ {0}
    BY <1>1, <1>2 DEF Searching
  <2>2. stack[n] \in FramesOf(fn)
    BY <2>1
  <2>3. g \in Nat /\ x \in Members(fn.blocks)
    BY <2>2 DEF FramesOf
  <2>4. l \in Nat
    <3>1. fn.succ[x] \in Seq(Members(fn.blocks))
      BY <1>2, <2>3 DEF Graph
    <3> QED BY <3>1
  <2>5. g > l
    BY <1>1
  <2> HIDE DEF g, l
  <2>6. ~(g <= l)
    BY <2>3, <2>4, <2>5
  <2> QED BY <2>6 DEF g, l
<1>4. Searching(fn, s, visited, d)
  <2>1. n = Len(stack) /\ x = stack[n].bb
    OBVIOUS
  <2> HIDE DEF n, x, s, d
  <2> QED BY <1>1, <1>2, <1>3, <2>1, SearchRetreats
<1> QED BY <1>1, <1>4

LEMMA NumberStep ==
  ASSUME AInv, Built, Dom!NumberBlocks
  PROVE  /\ pc = "dfs" /\ pc' = "round" /\ UNCHANGED <<fn, stack, visited, dfn>>
         /\ UNCHANGED <<i, p, new_idom, b1, b2, idom, dom_frontier, dom_tree_succ, bi, q, runner>>
         /\ Looking(fn', pc', stack', visited', dfn')
         /\ NumberingOf(pc', dfn', postorder', doms')
<1>1. /\ pc = "dfs" /\ pc' = "round" /\ UNCHANGED <<fn, stack, visited, dfn>>
      /\ UNCHANGED <<i, p, new_idom, b1, b2, idom, dom_frontier, dom_tree_succ, bi, q, runner>>
      /\ stack = << >>
      /\ postorder' = [b \in Block |->
            IF b \in Members(dfn)
            THEN CHOOSE n \in 0..(Len(dfn) - 1) : dfn[n + 1] = b ELSE 0]
      /\ doms' = [n \in 0..(Len(dfn) - 1) |-> IF n = Len(dfn) - 1 THEN n ELSE -1]
  BY SameOperators
     DEF Dom!NumberBlocks, Dom!result, Dom!walk, Dom!Numbers, Dom!BbNum, Dom!Numbered,
         Dom!Block, Block
<1>2. Ordered(fn, dfn) /\ visited = Members(dfn)
  BY <1>1, GraphHere, SearchEnds DEF AInv, Looking
<1>3. postorder' = NumberOf(dfn)
  BY <1>1 DEF NumberOf
<1>4. doms' \in [0..(Len(dfn) - 1) -> -1..(Len(dfn) - 1)]
  <2> DEFINE l == Len(dfn)
  <2>1. l \in Nat
    BY <1>2 DEF Ordered
  <2>2. doms' = [n \in 0..(l - 1) |-> IF n = l - 1 THEN n ELSE -1]
    BY <1>1
  <2> HIDE DEF l
  <2>3. doms' \in [0..(l - 1) -> -1..(l - 1)]
    BY <2>1, <2>2
  <2> QED BY <2>3 DEF l
<1> QED BY <1>1, <1>2, <1>3, <1>4 DEF Looking, NumberingOf

(* From the numbering on, everything is numbered.                          *)
Later == {"round", "preds", "intersect", "frontier", "runner", "done"}

LEMMA Numbered ==
  ASSUME AInv, Built, pc \in Later
  PROVE  /\ Ordered(fn, dfn) /\ NumbersOf(dfn, postorder, Len(dfn))
         /\ Len(dfn) \in 1..MaxBlocks /\ MaxBlocks \in Nat
         /\ doms \in [0..(Len(dfn) - 1) -> -1..(Len(dfn) - 1)]
<1>1. Ordered(fn, dfn) /\ postorder = NumberOf(dfn)
      /\ doms \in [0..(Len(dfn) - 1) -> -1..(Len(dfn) - 1)]
  BY DEF AInv, Looking, NumberingOf, Later
<1>2. NumbersOf(dfn, postorder, Len(dfn))
  BY <1>1, GraphHere, NumbersAre
<1> QED BY <1>1, <1>2, BoundsTyped DEF NumbersOf

(* The numbers of the predecessors of the block in hand.                   *)
LEMMA PredecessorNumbered ==
  ASSUME AInv, Built, pc \in Later, i \in 0..(Len(dfn) - 1)
  PROVE  /\ Dom!Preds = fn.pre[dfn[i + 1]] /\ Dom!Preds \in Seq(Block)
         /\ p \in 1..Len(Dom!Preds) => /\ Dom!Preds[p] \in Block
                                       /\ Dom!PredNum = postorder[Dom!Preds[p]]
                                       /\ Dom!PredNum \in 0..(Len(dfn) - 1)
<1>1. NumbersOf(dfn, postorder, Len(dfn)) /\ GoodFunction(fn)
  BY GraphHere, Numbered
<1>2. dfn[i + 1] \in Block
  BY <1>1 DEF NumbersOf
<1>3. Dom!Preds = fn.pre[dfn[i + 1]] /\ fn.pre[dfn[i + 1]] \in Seq(Block)
  BY <1>1, <1>2 DEF Dom!Preds, Dom!Numbered, GoodFunction, FunctionType
<1>4. ASSUME p \in 1..Len(Dom!Preds) PROVE Dom!Preds[p] \in Block
  BY <1>3, <1>4
<1> QED BY <1>1, <1>3, <1>4 DEF NumbersOf, Dom!PredNum

Kept5 == UNCHANGED <<fn, stack, visited, dfn, postorder>>
KeptResults == UNCHANGED <<idom, dom_frontier, dom_tree_succ, bi, q, runner>>

Iterating ==
    /\ pc \in Later /\ pc' \in {"round", "preds", "intersect"}
    /\ Kept5 /\ KeptResults
    /\ doms' \in [0..(Len(dfn) - 1) -> -1..(Len(dfn) - 1)]
    /\ FingersOf(pc', dfn, i', p', new_idom', b1', b2')

LEMMA RoundStep ==
  ASSUME AInv, Built, Dom!BeginRound
  PROVE  Iterating
<1>1. /\ pc = "round" /\ pc' = "preds" /\ Kept5 /\ KeptResults /\ doms' = doms
      /\ i' = Len(dfn) - 2 /\ p' = 1 /\ new_idom' = -1 /\ UNCHANGED <<b1, b2>>
  BY DEF Dom!BeginRound, Dom!BeginBlock, Dom!search, Dom!result, Dom!walk, Kept5, KeptResults,
         Dom!BbNum
<1>2. Len(dfn) \in 1..MaxBlocks /\ MaxBlocks \in Nat
      /\ doms \in [0..(Len(dfn) - 1) -> -1..(Len(dfn) - 1)]
  BY <1>1, Numbered DEF Later
<1>3. FingersOf(pc, dfn, i, p, new_idom, b1, b2)
  BY DEF AInv
<1>4. FingersOf("preds", dfn, i', p', new_idom', b1', b2')
  <2> DEFINE l == Len(dfn)
  <2>1. l \in 1..MaxBlocks /\ MaxBlocks \in Nat /\ i' = l - 2
    BY <1>1, <1>2
  <2> HIDE DEF l
  <2>2. i' \in -1..MaxBlocks /\ i' \in -1..(l - 2) /\ -1 \in -1..MaxBlocks /\ -1 \in -1..(l - 1)
    BY <2>1
  <2> QED BY <1>1, <1>3, <2>2 DEF FingersOf, l
<1> QED BY <1>1, <1>2, <1>4 DEF Iterating, Later

LEMMA InHand ==
  ASSUME AInv, Built, pc \in {"preds", "intersect"}, i >= 0
  PROVE  /\ i \in 0..(Len(dfn) - 2) /\ i \in 0..(Len(dfn) - 1) /\ p \in Nat \ {0}
         /\ pc \in Later /\ Len(Dom!Preds) \in Nat
         /\ p <= Len(Dom!Preds) => Dom!PredNum \in 0..(Len(dfn) - 1)
<1>1. FingersOf(pc, dfn, i, p, new_idom, b1, b2) /\ pc \in Later
  BY DEF AInv, Later
<1>2. Len(dfn) \in 1..MaxBlocks /\ MaxBlocks \in Nat
  BY <1>1, Numbered
<1> DEFINE l == Len(dfn)
<1>3. i \in -1..(l - 2) /\ p \in Nat \ {0}
  BY <1>1 DEF FingersOf
<1> HIDE DEF l
<1>4. i \in 0..(l - 2) /\ i \in 0..(l - 1)
  BY <1>2, <1>3 DEF l
<1>5. Dom!Preds \in Seq(Block)
  BY <1>1, <1>4, PredecessorNumbered DEF l
<1> DEFINE m == Len(Dom!Preds)
<1>6. m \in Nat
  BY <1>5
<1>7. ASSUME p <= m PROVE Dom!PredNum \in 0..(l - 1)
  <2> HIDE DEF m
  <2>1. p \in 1..m
    BY <1>3, <1>6, <1>7
  <2> QED BY <1>1, <1>4, <2>1, PredecessorNumbered DEF l, m
<1> QED BY <1>1, <1>3, <1>4, <1>6, <1>7 DEF l

LEMMA PredecessorStep ==
  ASSUME AInv, Built, Dom!TakePredecessor \/ Dom!BeginIntersect
  PROVE  Iterating
<1>1. /\ pc = "preds" /\ pc' \in {"preds", "intersect"} /\ Kept5 /\ KeptResults /\ doms' = doms
      /\ i >= 0 /\ p <= Len(Dom!Preds) /\ i' = i
      /\ \/ /\ pc' = "preds" /\ new_idom' \in {new_idom, Dom!PredNum} /\ p' = p + 1
            /\ UNCHANGED <<b1, b2>>
         \/ /\ pc' = "intersect" /\ b1' = Dom!PredNum /\ b2' = new_idom
            /\ UNCHANGED <<new_idom, p>>
  <2>1. CASE Dom!TakePredecessor
    BY <2>1 DEF Dom!TakePredecessor, Dom!search, Dom!result, Dom!walk, Kept5, KeptResults
  <2>2. CASE Dom!BeginIntersect
    BY <2>2 DEF Dom!BeginIntersect, Dom!Intersect, Dom!search, Dom!result, Dom!walk, Kept5,
                KeptResults
  <2> QED BY <2>1, <2>2
<1>2. /\ i \in 0..(Len(dfn) - 2) /\ p \in Nat \ {0} /\ Dom!PredNum \in 0..(Len(dfn) - 1)
      /\ pc \in Later /\ FingersOf(pc, dfn, i, p, new_idom, b1, b2)
  BY <1>1, InHand DEF AInv
<1>3. Len(dfn) \in 1..MaxBlocks /\ MaxBlocks \in Nat
      /\ doms \in [0..(Len(dfn) - 1) -> -1..(Len(dfn) - 1)]
  BY <1>2, Numbered
<1> DEFINE l == Len(dfn)
           n == Dom!PredNum
<1>4. /\ new_idom \in -1..(l - 1) /\ b1 \in -1..MaxBlocks /\ b2 \in -1..MaxBlocks
      /\ i \in -1..MaxBlocks
  BY <1>1, <1>2 DEF FingersOf
<1>5. l \in 1..MaxBlocks /\ MaxBlocks \in Nat /\ n \in 0..(l - 1) /\ i \in 0..(l - 2)
  BY <1>2, <1>3
<1> HIDE DEF l, n
<1>6. /\ n \in -1..(l - 1) /\ n \in -1..MaxBlocks /\ new_idom \in -1..MaxBlocks
      /\ i \in -1..(l - 2) /\ p + 1 \in Nat \ {0}
  BY <1>2, <1>4, <1>5
<1>7. FingersOf(pc', dfn, i', p', new_idom', b1', b2')
  BY <1>1, <1>2, <1>4, <1>6 DEF FingersOf, l, n
<1> QED BY <1>1, <1>2, <1>3, <1>7 DEF Iterating

LEMMA FingerStep ==
  ASSUME AInv, Built, Dom!MoveFinger \/ Dom!FingersMeet
  PROVE  Iterating
<1>1. pc = "intersect" /\ pc \in Later /\ FingersOf(pc, dfn, i, p, new_idom, b1, b2)
  BY DEF Dom!MoveFinger, Dom!FingersMeet, Dom!Meet, AInv, Later
<1>2. Len(dfn) \in 1..MaxBlocks /\ MaxBlocks \in Nat
      /\ doms \in [0..(Len(dfn) - 1) -> -1..(Len(dfn) - 1)]
  BY <1>1, Numbered
<1> DEFINE l == Len(dfn)
<1>3. \A n \in Int : Dom!Reads(n) \subseteq -1..(l - 1)
  BY <1>2 DEF Dom!Reads, Dom!Numbers, Dom!BbNum
<1>4. /\ b1 \in -1..(l - 1) /\ b2 \in -1..(l - 1) /\ new_idom \in -1..(l - 1)
      /\ i \in -1..(l - 2) /\ p \in Nat \ {0}
      /\ l \in 1..MaxBlocks /\ MaxBlocks \in Nat
  BY <1>1, <1>2 DEF FingersOf
<1>5. /\ Kept5 /\ KeptResults /\ doms' = doms /\ i' = i
      /\ \/ /\ pc' = "intersect" /\ UNCHANGED <<new_idom, p>>
            /\ (b1' \in Dom!Reads(b1) /\ b2' = b2) \/ (b2' \in Dom!Reads(b2) /\ b1' = b1)
         \/ pc' = "preds" /\ new_idom' = b1 /\ p' = p + 1 /\ UNCHANGED <<b1, b2>>
  <2>1. CASE Dom!MoveFinger
    BY <1>1, <2>1 DEF Dom!MoveFinger, Dom!search, Dom!result, Dom!walk, Kept5, KeptResults
  <2>2. CASE Dom!FingersMeet
    BY <2>2 DEF Dom!FingersMeet, Dom!Meet, Dom!search, Dom!result, Dom!walk, Kept5, KeptResults
  <2> QED BY <2>1, <2>2
<1> HIDE DEF l
<1>6. b1 \in Int /\ b2 \in Int /\ \A x \in -1..(l - 1) : x \in -1..MaxBlocks
  BY <1>4
<1>7. /\ b1' \in -1..(l - 1) /\ b2' \in -1..(l - 1) /\ new_idom' \in -1..(l - 1)
      /\ i' \in -1..(l - 2) /\ p' \in Nat \ {0} /\ i' \in -1..MaxBlocks
  <2>1. b1' \in -1..(l - 1) /\ b2' \in -1..(l - 1)
    BY <1>3, <1>4, <1>5, <1>6
  <2>2. new_idom' \in -1..(l - 1) /\ p' \in Nat \ {0}
    BY <1>4, <1>5
  <2>3. i' \in -1..(l - 2) /\ i' \in -1..MaxBlocks
    BY <1>4, <1>5
  <2> QED BY <2>1, <2>2, <2>3
<1>8. FingersOf(pc', dfn, i', p', new_idom', b1', b2')
  BY <1>6, <1>7 DEF FingersOf, l
<1> QED BY <1>1, <1>2, <1>5, <1>8 DEF Iterating

LEMMA SetStep ==
  ASSUME AInv, Built, Dom!SetDoms
  PROVE  Iterating
<1>1. /\ pc = "preds" /\ pc' = "preds" /\ Kept5 /\ KeptResults /\ i >= 0
      /\ doms' = [doms EXCEPT ![i] = new_idom]
      /\ i' = i - 1 /\ p' = 1 /\ new_idom' = -1 /\ UNCHANGED <<b1, b2>>
  BY DEF Dom!SetDoms, Dom!BeginBlock, Dom!search, Dom!result, Dom!walk, Kept5, KeptResults
<1>2. /\ i \in 0..(Len(dfn) - 2) /\ i \in 0..(Len(dfn) - 1)
      /\ pc \in Later /\ FingersOf(pc, dfn, i, p, new_idom, b1, b2)
  BY <1>1, InHand DEF AInv
<1>3. Len(dfn) \in 1..MaxBlocks /\ MaxBlocks \in Nat
      /\ doms \in [0..(Len(dfn) - 1) -> -1..(Len(dfn) - 1)]
  BY <1>2, Numbered
<1> DEFINE l == Len(dfn)
<1>4. /\ new_idom \in -1..(l - 1) /\ b1 \in -1..MaxBlocks /\ b2 \in -1..MaxBlocks
      /\ l \in 1..MaxBlocks /\ MaxBlocks \in Nat /\ i \in 0..(l - 2)
  BY <1>1, <1>2, <1>3 DEF FingersOf
<1>5. doms' \in [0..(l - 1) -> -1..(l - 1)]
  BY <1>1, <1>3, <1>4
<1> HIDE DEF l
<1>6. i' \in -1..(l - 2) /\ i' \in -1..MaxBlocks /\ -1 \in -1..MaxBlocks /\ -1 \in -1..(l - 1)
  BY <1>1, <1>4
<1>7. FingersOf("preds", dfn, i', p', new_idom', b1', b2')
  BY <1>1, <1>4, <1>6 DEF FingersOf, l
<1> QED BY <1>1, <1>2, <1>5, <1>7 DEF Iterating, l

LEMMA AgainStep ==
  ASSUME AInv, Built, Dom!AnotherRound
  PROVE  Iterating
<1>1. /\ pc = "preds" /\ pc' = "round" /\ Kept5 /\ KeptResults
      /\ UNCHANGED <<doms, i, p, new_idom, b1, b2>>
  BY DEF Dom!AnotherRound, Dom!search, Dom!result, Dom!walk, Dom!fixpoint, Kept5, KeptResults
<1>2. doms \in [0..(Len(dfn) - 1) -> -1..(Len(dfn) - 1)] /\ pc \in Later
  BY <1>1, Numbered DEF Later
<1>3. FingersOf("round", dfn, i', p', new_idom', b1', b2')
  BY <1>1 DEF AInv, FingersOf
<1> QED BY <1>1, <1>2, <1>3 DEF Iterating

KeptFixpoint == UNCHANGED <<doms, i, p, new_idom, b1, b2>>

Deriving ==
    /\ pc \in Later /\ pc' \in {"frontier", "runner", "done"}
    /\ Kept5 /\ KeptFixpoint
    /\ MapsOf(idom', dom_frontier', dom_tree_succ')
    /\ WalkOf(fn, pc', bi', q', runner')

(* The last loop of create_idom; wild is what it reads outside of doms.    *)
StoredMap(wild) ==
    [b \in Block \cup {NULL} |->
       IF b \notin Members(dfn) THEN idom[b]
       ELSE IF doms[postorder[b]] = -1 THEN wild ELSE dfn[doms[postorder[b]] + 1]]

LEMMA StoreIdomIs ==
  ASSUME Dom!StoreIdom
  PROVE  \E wild \in Block \cup {NULL} : idom' = StoredMap(wild)
<1>1. \E wild \in Dom!BlockOrNull :
         idom' = [b \in Dom!BlockOrNull |->
            IF b \notin Dom!Members(dfn) THEN idom[b]
            ELSE LET d == doms[postorder[b]] IN IF d = -1 THEN wild ELSE Dom!Numbered(d)]
  <2>1. NULL \in Dom!BlockOrNull
    BY DEF Dom!BlockOrNull
  <2> QED BY <2>1 DEF Dom!StoreIdom
<1>2. Dom!Members(dfn) = Members(dfn) /\ Dom!BlockOrNull = Block \cup {NULL}
  BY SameOperators DEF Dom!BlockOrNull, Dom!Block, Block
<1>3. \A n : Dom!Numbered(n) = dfn[n + 1]
  BY DEF Dom!Numbered
<1> QED BY <1>1, <1>2, <1>3 DEF StoredMap

LEMMA StoreStep ==
  ASSUME AInv, Built, Dom!StoreIdom
  PROVE  Deriving
<1>1. /\ pc = "preds" /\ pc' = "frontier" /\ Kept5 /\ KeptFixpoint
      /\ UNCHANGED <<dom_frontier, dom_tree_succ, bi, q, runner>>
  BY DEF Dom!StoreIdom, Dom!search, Dom!walk, Kept5, KeptFixpoint
<1>2. /\ NumbersOf(dfn, postorder, Len(dfn)) /\ pc \in Later
      /\ Len(dfn) \in 1..MaxBlocks
      /\ doms \in [0..(Len(dfn) - 1) -> -1..(Len(dfn) - 1)]
  BY <1>1, Numbered DEF Later
<1>3. MapsOf(idom, dom_frontier, dom_tree_succ) /\ WalkOf(fn, pc, bi, q, runner)
  BY DEF AInv
<1> DEFINE l == Len(dfn)
<1>4. ASSUME NEW b \in Members(dfn), doms[postorder[b]] # -1
      PROVE  dfn[doms[postorder[b]] + 1] \in Block
  <2>1. postorder[b] \in 0..(l - 1)
    BY <1>2 DEF NumbersOf
  <2> DEFINE d == doms[postorder[b]]
  <2>2. d \in -1..(l - 1) /\ d # -1 /\ l \in Int
    BY <1>2, <1>4, <2>1
  <2> HIDE DEF d, l
  <2>3. d \in 0..(l - 1)
    BY <2>2
  <2>4. dfn[d + 1] \in Block
    BY <1>2, <2>3 DEF NumbersOf, l
  <2> QED BY <2>4 DEF d
<1>5. idom' \in [Block \cup {NULL} -> Block \cup {NULL}]
  <2>1. PICK wild \in Block \cup {NULL} : idom' = StoredMap(wild)
    BY StoreIdomIs
  <2>2. \A b \in Block \cup {NULL} : idom[b] \in Block \cup {NULL}
    BY <1>3 DEF MapsOf
  <2> QED BY <1>4, <2>1, <2>2 DEF StoredMap
<1>6. MapsOf(idom', dom_frontier', dom_tree_succ')
  BY <1>1, <1>3, <1>5 DEF MapsOf
<1>7. WalkOf(fn, pc', bi', q', runner')
  BY <1>1, <1>3 DEF WalkOf
<1> QED BY <1>1, <1>2, <1>6, <1>7 DEF Deriving

LEMMA FrontierStep ==
  ASSUME AInv, Built, Dom!NextBlock \/ Dom!StartRunner \/ Dom!RunnerMeets
  PROVE  Deriving
<1>1. /\ pc \in {"frontier", "runner"} /\ pc' \in {"frontier", "runner"} /\ Kept5 /\ KeptFixpoint
      /\ UNCHANGED <<idom, dom_frontier, dom_tree_succ>>
      /\ \/ pc' = "frontier" /\ bi' = bi + 1 /\ q' = 0 /\ runner' = runner
         \/ pc' = "frontier" /\ UNCHANGED <<bi, q, runner>>
         \/ /\ pc' = "runner" /\ bi' = bi /\ bi <= Len(fn.blocks)
            /\ q < Len(fn.pre[fn.blocks[bi]])
            /\ q' = q + 1 /\ runner' = fn.pre[fn.blocks[bi]][q + 1]
  <2>1. CASE Dom!NextBlock
    BY <2>1 DEF Dom!NextBlock, Dom!search, Dom!fixpoint, Dom!result, Kept5, KeptFixpoint
  <2>2. CASE Dom!StartRunner
    BY <2>2 DEF Dom!StartRunner, Dom!search, Dom!fixpoint, Dom!result, Dom!FrontierBlock, Kept5,
                KeptFixpoint
  <2>3. CASE Dom!RunnerMeets
    BY <2>3 DEF Dom!RunnerMeets, Dom!search, Dom!fixpoint, Dom!result, Dom!walk, Kept5,
                KeptFixpoint
  <2> QED BY <2>1, <2>2, <2>3
<1>2. MapsOf(idom, dom_frontier, dom_tree_succ) /\ WalkOf(fn, pc, bi, q, runner)
  BY DEF AInv
<1>3. bi \in Nat \ {0} /\ q \in Nat /\ runner \in Block \cup {NULL}
  BY <1>2 DEF WalkOf
<1>4. WalkOf(fn, pc', bi', q', runner')
  <2>1. CASE pc' = "frontier" /\ bi' = bi + 1 /\ q' = 0 /\ runner' = runner
    BY <1>3, <2>1 DEF WalkOf
  <2>2. CASE pc' = "frontier" /\ UNCHANGED <<bi, q, runner>>
    BY <1>3, <2>2 DEF WalkOf
  <2>3. CASE /\ pc' = "runner" /\ bi' = bi /\ bi <= Len(fn.blocks)
             /\ q < Len(fn.pre[fn.blocks[bi]])
             /\ q' = q + 1 /\ runner' = fn.pre[fn.blocks[bi]][q + 1]
    <3> DEFINE s == fn.pre[fn.blocks[bi]]
    <3>1. fn.blocks[bi] \in Block
      <4>1. fn.blocks \in Seq(Block)
        BY GraphHere
      <4> QED BY <1>3, <2>3, <4>1
    <3>2. s \in Seq(Block)
      BY <3>1, GraphHere DEF GoodFunction, FunctionType
    <3> HIDE DEF s
    <3>3. q < Len(s) /\ runner' = s[q + 1]
      BY <2>3 DEF s
    <3>4. runner' \in Block
      BY <1>3, <3>2, <3>3
    <3> QED BY <1>3, <2>3, <3>4 DEF WalkOf
  <2> QED BY <1>1, <2>1, <2>2, <2>3
<1> QED BY <1>1, <1>2, <1>4 DEF Deriving, Later

LEMMA ClimbStep ==
  ASSUME AInv, Built, Dom!ClimbRunner
  PROVE  Deriving
<1>1. /\ pc = "runner" /\ pc' = "runner" /\ Kept5 /\ KeptFixpoint
      /\ UNCHANGED <<idom, dom_tree_succ, bi, q>>
      /\ runner' = idom[runner]
      /\ dom_frontier' = [dom_frontier EXCEPT ![runner] = @ \cup {fn.blocks[bi]}]
  BY DEF Dom!ClimbRunner, Dom!Climb, Dom!search, Dom!fixpoint, Dom!FrontierBlock, Kept5,
         KeptFixpoint
<1>2. MapsOf(idom, dom_frontier, dom_tree_succ) /\ WalkOf(fn, pc, bi, q, runner)
  BY DEF AInv
<1>3. fn.blocks[bi] \in Block
  <2>1. fn.blocks \in Seq(Block)
    BY GraphHere
  <2>2. bi \in Nat \ {0} /\ bi <= Len(fn.blocks)
    BY <1>1, <1>2 DEF WalkOf
  <2> QED BY <2>1, <2>2
<1>4. runner \in Block \cup {NULL} /\ idom[runner] \in Block \cup {NULL}
  BY <1>2 DEF MapsOf, WalkOf
<1>5. MapsOf(idom', dom_frontier', dom_tree_succ')
  <2> DEFINE S == Block \cup {NULL}
             b == fn.blocks[bi]
  <2>1. /\ dom_frontier \in [S -> SUBSET Block] /\ b \in Block /\ runner \in S
        /\ dom_frontier' = [dom_frontier EXCEPT ![runner] = @ \cup {b}]
    BY <1>1, <1>2, <1>3, <1>4 DEF MapsOf
  <2> HIDE DEF S, b
  <2>2. dom_frontier' \in [S -> SUBSET Block]
    BY <2>1
  <2> QED BY <1>1, <1>2, <2>2 DEF MapsOf, S
<1>6. WalkOf(fn, pc', bi', q', runner')
  BY <1>1, <1>2, <1>4 DEF WalkOf
<1> QED BY <1>1, <1>5, <1>6 DEF Deriving, Later

LEMMA TreeStep ==
  ASSUME AInv, Built, Dom!BuildTree
  PROVE  Deriving
<1>1. /\ pc = "frontier" /\ pc' = "done" /\ Kept5 /\ KeptFixpoint
      /\ UNCHANGED <<idom, dom_frontier, bi, q, runner>>
      /\ dom_tree_succ' = [d \in Block \cup {NULL} |->
            {b \in Members(fn.blocks) \ {Entry(fn)} : idom[b] # NULL /\ idom[b] = d}]
  BY SameOperators
     DEF Dom!BuildTree, Dom!Tree, Dom!search, Dom!fixpoint, Dom!walk, Kept5, KeptFixpoint,
         Dom!BlockOrNull, Dom!Block, Block
<1>2. MapsOf(idom, dom_frontier, dom_tree_succ) /\ WalkOf(fn, pc, bi, q, runner)
  BY DEF AInv
<1>3. Members(fn.blocks) \subseteq Block
  BY GraphHere
<1>4. MapsOf(idom', dom_frontier', dom_tree_succ')
  BY <1>1, <1>2, <1>3 DEF MapsOf
<1>5. WalkOf(fn, pc', bi', q', runner')
  BY <1>1, <1>2 DEF WalkOf
<1> QED BY <1>1, <1>4, <1>5 DEF Deriving, Later

-----------------------------------------------------------------------------
LEMMA AnalyseKeeps == AInv /\ Analyse /\ BInv' => AInv'
<1> SUFFICES ASSUME AInv, Analyse, BInv' PROVE AInv'
  OBVIOUS
<1>1. Built /\ Built' /\ Dom!DNext
  BY DEF Analyse, Built
<1>2. CASE Dom!BeginSearch \/ Dom!VisitSuccessor \/ Dom!FinishBlock
  <2>1. pc \in {"start", "dfs"} /\ pc' = "dfs" /\ Still /\ Searching(fn', stack', visited', dfn')
    BY <1>1, <1>2, BeginSearchStep, VisitStep, FinishStep
  <2>2. Looking(fn, pc, stack, visited, dfn)' 
    BY <2>1 DEF Looking
  <2>3. NumberingOf(pc, dfn, postorder, doms)'
    BY <2>1 DEF AInv, NumberingOf, Still
  <2>4. FingersOf(pc, dfn, i, p, new_idom, b1, b2)'
    BY <2>1 DEF AInv, FingersOf, Still
  <2>5. MapsOf(idom, dom_frontier, dom_tree_succ)' /\ WalkOf(fn, pc, bi, q, runner)'
    BY <2>1 DEF AInv, MapsOf, WalkOf, Still
  <2> QED BY <1>1, <2>1, <2>2, <2>3, <2>4, <2>5 DEF AInv, Phase
<1>3. CASE Dom!NumberBlocks
  <2>1. FingersOf(pc, dfn, i, p, new_idom, b1, b2)'
    BY <1>1, <1>3, NumberStep DEF AInv, FingersOf
  <2>2. MapsOf(idom, dom_frontier, dom_tree_succ)' /\ WalkOf(fn, pc, bi, q, runner)'
    BY <1>1, <1>3, NumberStep DEF AInv, MapsOf, WalkOf
  <2> QED BY <1>1, <1>3, NumberStep, <2>1, <2>2 DEF AInv, Phase
<1>4. CASE Iterating
  <2>1. Looking(fn, pc, stack, visited, dfn)'
    BY <1>4 DEF Iterating, AInv, Looking, Later, Kept5
  <2>2. NumberingOf(pc, dfn, postorder, doms)'
    BY <1>4 DEF Iterating, AInv, NumberingOf, Later, Kept5
  <2>3. FingersOf(pc, dfn, i, p, new_idom, b1, b2)'
    BY <1>4 DEF Iterating, Kept5
  <2>4. MapsOf(idom, dom_frontier, dom_tree_succ)' /\ WalkOf(fn, pc, bi, q, runner)'
    BY <1>4 DEF Iterating, AInv, MapsOf, WalkOf, Kept5, KeptResults
  <2> QED BY <1>1, <1>4, <2>1, <2>2, <2>3, <2>4 DEF Iterating, AInv, Phase
<1>5. CASE Deriving
  <2>1. Looking(fn, pc, stack, visited, dfn)'
    BY <1>5 DEF Deriving, AInv, Looking, Later, Kept5
  <2>2. NumberingOf(pc, dfn, postorder, doms)'
    BY <1>5 DEF Deriving, AInv, NumberingOf, Later, Kept5, KeptFixpoint
  <2>3. FingersOf(pc, dfn, i, p, new_idom, b1, b2)'
    BY <1>5 DEF Deriving, AInv, FingersOf, Kept5, KeptFixpoint
  <2>4. MapsOf(idom, dom_frontier, dom_tree_succ)' /\ WalkOf(fn, pc, bi, q, runner)'
    BY <1>5 DEF Deriving, Kept5
  <2> QED BY <1>1, <1>5, <2>1, <2>2, <2>3, <2>4 DEF Deriving, AInv, Phase
<1>6. CASE \/ Dom!BeginRound \/ Dom!TakePredecessor \/ Dom!BeginIntersect \/ Dom!MoveFinger
           \/ Dom!FingersMeet \/ Dom!SetDoms \/ Dom!AnotherRound
  BY <1>1, <1>4, <1>6, RoundStep, PredecessorStep, FingerStep, SetStep, AgainStep
<1>7. CASE \/ Dom!StoreIdom \/ Dom!NextBlock \/ Dom!StartRunner \/ Dom!ClimbRunner
           \/ Dom!RunnerMeets \/ Dom!BuildTree
  BY <1>1, <1>5, <1>7, StoreStep, FrontierStep, ClimbStep, TreeStep
<1> QED BY <1>1, <1>2, <1>3, <1>6, <1>7 DEF Dom!DNext

(* The analysis changes nothing of the builder: the system implements it.  *)
THEOREM AnalysisLeavesTheFunction == Spec => BSpec
<1>1. Init => BInit
  BY DEF Init
<1>2. [Next]_vars => [BNext]_bvars
  BY DEF Next, vars, Build, Analyse, bvars, Dom!DNext, Dom!BeginSearch, Dom!VisitSuccessor,
    Dom!FinishBlock, Dom!Finish, Dom!NumberBlocks, Dom!BeginRound, Dom!TakePredecessor,
    Dom!BeginIntersect, Dom!Intersect, Dom!MoveFinger, Dom!FingersMeet, Dom!Meet, Dom!SetDoms,
    Dom!AnotherRound, Dom!StoreIdom, Dom!NextBlock, Dom!StartRunner, Dom!ClimbRunner, Dom!Climb,
    Dom!RunnerMeets, Dom!BuildTree, Dom!Tree
<1> QED BY <1>1, <1>2, PTL DEF Spec, BSpec

(* So what holds of every function built holds of every function analysed: *)
(* nothing follows a terminator, edges are mirrored, every block ends in   *)
(* one, and the scopes are balanced.                                       *)
THEOREM AnalysedIsWellFormed ==
  Spec => []NothingAfterTerminator /\ []EdgesMirrored /\ []WellFormedWhenBuilt /\ []ScopesBalanced
BY AnalysisLeavesTheFunction, NothingFollowsTerminator, EdgesAgree, FunctionWellFormed,
   ScopesMatch, PTL

LEMMA AnalysisInvariant == Spec => []AInv
<1>1. Init => AInv
  BY AnalysisBegins
<1>2. AInv /\ [Next]_vars => AInv'
  <2> SUFFICES ASSUME AInv, [Next]_vars PROVE AInv'
    OBVIOUS
  <2>1. [BNext]_bvars => BInv'
    BY StepKeeps DEF AInv
  <2>2. CASE Build
    BY <2>1, <2>2, BuildKeeps DEF Build
  <2>3. CASE Analyse
    <3>1. UNCHANGED bvars
      BY <2>3 DEF Analyse, bvars, Dom!DNext, Dom!BeginSearch, Dom!VisitSuccessor,
        Dom!FinishBlock, Dom!Finish, Dom!NumberBlocks, Dom!BeginRound, Dom!TakePredecessor,
        Dom!BeginIntersect, Dom!Intersect, Dom!MoveFinger, Dom!FingersMeet, Dom!Meet, Dom!SetDoms,
        Dom!AnotherRound, Dom!StoreIdom, Dom!NextBlock, Dom!StartRunner, Dom!ClimbRunner,
        Dom!Climb, Dom!RunnerMeets, Dom!BuildTree, Dom!Tree
    <3> QED BY <2>1, <2>3, <3>1, AnalyseKeeps
  <2>4. CASE UNCHANGED vars
    <3>1. UNCHANGED bvars /\ UNCHANGED dvars
      BY <2>4 DEF vars
    <3>2. BInv'
      BY <2>1, <3>1
    <3> QED BY <3>1, <3>2
            DEF AInv, bvars, dvars, Built, Looking, NumberingOf, FingersOf, MapsOf, WalkOf
  <2> QED BY <2>2, <2>3, <2>4 DEF Next
<1> QED BY <1>1, <1>2, PTL DEF Spec

(* The depth-first search of Dominators::dfs numbers exactly the blocks    *)
(* that the entry reaches, once each, and every block before the blocks    *)
(* that strictly dominate it, in every function the builder can emit.      *)
THEOREM SearchNumbersSoundly == Spec => []PostorderSound
<1>1. AInv => PostorderSound
  <2> SUFFICES ASSUME AInv, pc = "round"
               PROVE  /\ Members(dfn) = Reachable(fn)
                      /\ Len(dfn) = Cardinality(Reachable(fn))
                      /\ \A d \in Strict(Dominance(fn)) : postorder[d[2]] < postorder[d[1]]
    BY SameOperators, SameCardinality DEF PostorderSound, Dom!PostorderSound
  <2>1. /\ Built /\ Graph(fn) /\ Ordered(fn, dfn) /\ NumbersOf(dfn, postorder, Len(dfn))
    BY GraphHere, Numbered DEF AInv, Later
  <2>2. ASSUME NEW d \in Strict(Dominance(fn)) PROVE postorder[d[2]] < postorder[d[1]]
    <3>1. d \in Dominance(fn) /\ d[1] # d[2]
      BY DEF Strict
    <3>2. PICK x, y : d = <<x, y>> /\ Dominates(fn, x, y)
      BY <2>1, <3>1, DominancePairs
    <3>3. d[1] = x /\ d[2] = y
      BY <3>2
    <3> QED BY <2>1, <3>1, <3>2, <3>3, DominatorsNumbered
  <2> QED BY <2>1, <2>2 DEF Ordered
<1> QED BY <1>1, AnalysisInvariant, PTL

(* The maps and lists of the builder and of the analysis keep their shape: *)
(* what is on the stack, visited, numbered and stored is a block, numbers  *)
(* and fingers stay within the numbering.                                  *)
THEOREM AnalysisTyped == Spec => []TypeOK
<1>1. AInv /\ BTypeOK => TypeOK
  <2> SUFFICES ASSUME AInv PROVE Dom!DTypeOK
    BY DEF TypeOK
  <2>1. pc \in Phase
    BY DEF AInv
  <2>2. \A j \in 1..Len(stack) : stack[j].bb \in Block /\ stack[j].next \in Nat
    <3>1. CASE pc = "dfs"
      <4>1. stack \in Seq(FramesOf(fn)) /\ Built
        BY <3>1 DEF AInv, Looking, Searching
      <4>2. Members(fn.blocks) \subseteq Block
        BY <4>1, GraphHere
      <4>3. \A fr \in FramesOf(fn) : fr.bb \in Block /\ fr.next \in Nat
        BY <4>2 DEF FramesOf
      <4> QED BY <4>1, <4>3
    <3>2. CASE pc # "dfs"
      BY <3>2 DEF AInv, Looking
    <3> QED BY <3>1, <3>2
  <2>3. visited \subseteq Block /\ Members(dfn) \subseteq Block
    <3>1. CASE pc = "start"
      BY <3>1, MembersOfEmpty DEF AInv, Looking
    <3>2. CASE pc # "start"
      <4>1. Built /\ Graph(fn)
        BY <3>2, GraphHere DEF AInv
      <4>2. Members(fn.blocks) \subseteq Block /\ Reachable(fn) \subseteq Members(fn.blocks)
        BY <4>1, GraphHere, ReachByWalk DEF Reachable
      <4>3. visited \subseteq Members(fn.blocks) /\ Members(dfn) \subseteq Members(fn.blocks)
        BY <3>2, <4>2 DEF AInv, Looking, Searching, Ordered
      <4> QED BY <4>2, <4>3
    <3> QED BY <3>1, <3>2
  <2>4. postorder \in [Block -> Nat] /\ \A n \in DOMAIN doms : doms[n] \in -1..(Len(dfn) - 1)
    <3>1. CASE pc \in {"start", "dfs"}
      BY <3>1 DEF AInv, NumberingOf
    <3>2. CASE pc \notin {"start", "dfs"}
      <4>1. /\ NumbersOf(dfn, postorder, Len(dfn)) /\ Len(dfn) \in 1..MaxBlocks
            /\ doms \in [0..(Len(dfn) - 1) -> -1..(Len(dfn) - 1)]
        BY <2>1, <3>2, Numbered DEF AInv, Later, Phase
      <4> QED BY <4>1 DEF NumbersOf
    <3> QED BY <3>1, <3>2
  <2>5. {i, new_idom, b1, b2} \subseteq -1..MaxBlocks
    BY DEF AInv, FingersOf
  <2>6. MapsOf(idom, dom_frontier, dom_tree_succ) /\ runner \in Block \cup {NULL}
    BY DEF AInv, WalkOf
  <2> QED BY <2>1, <2>2, <2>3, <2>4, <2>5, <2>6, SameOperators
          DEF Dom!DTypeOK, Phase, MapsOf, Dom!BlockOrNull, Dom!Block, Block, Dom!BbNum
<1> QED BY <1>1, AnalysisInvariant, AnalysisLeavesTheFunction, BuilderTyped, PTL

-----------------------------------------------------------------------------
(* From here on: functions without dead jumps.  The graph of such a        *)
(* function, and the numbers along its edges.                              *)

(* The graph of a built function without dead jumps.                       *)
Mirrored(f) ==
    \A b \in Members(f.blocks) :
        /\ f.pre[b] \in Seq(Members(f.blocks))
        /\ \A a : a \in Members(f.pre[b]) <=> a \in Members(f.blocks) /\ Step(f, a, b)

FlowGraph(f) ==
    /\ Graph(f) /\ Structured(f) /\ Mirrored(f) /\ f.pre[Entry(f)] = << >>
    /\ \A b \in Reachable(f) : Members(f.pre[b]) \subseteq Reachable(f)

LEMMA BuiltFlowGraph ==
  ASSUME AInv, Built, Structured(fn), LivePredecessors(fn)
  PROVE  FlowGraph(fn)
<1>1. Graph(fn) /\ GoodFunction(fn) /\ Members(fn.blocks) \subseteq Block
  BY GraphHere
<1>2. fn.pre[Entry(fn)] = << >>
  <2>1. Inv(fn, << >>, depth, control, index)
    BY DEF AInv, BInv, Built
  <2> QED BY <2>1, ClosedWhenBuilt
<1>3. ASSUME NEW b \in Members(fn.blocks), NEW a
      PROVE  a \in Members(fn.pre[b]) <=> a \in Members(fn.blocks) /\ Step(fn, a, b)
  <2>0. fn.pre[b] \in Seq(Block) /\ b \in Block
    BY <1>1 DEF GoodFunction, FunctionType
  <2>1. ASSUME a \in Block
        PROVE  a \in Members(fn.pre[b]) <=> b \in Members(fn.succ[a])
    <3>1. fn.succ[a] \in Seq(Block) /\ Occurrences(fn.succ[a], b) = Occurrences(fn.pre[b], a)
      BY <1>1, <2>0, <2>1 DEF GoodFunction, FunctionType, Linked
    <3> QED BY <2>0, <3>1, OccursIffMember
  <2>2. ASSUME a \in Block, b \in Members(fn.succ[a]) PROVE a \in Members(fn.blocks)
    <3>1. a \notin Members(fn.blocks) => fn.succ[a] = << >>
      BY <1>1, <2>2 DEF GoodFunction, Unused
    <3> QED BY <2>2, <3>1, MembersOfEmpty
  <2>3. Members(fn.pre[b]) \subseteq Block
    BY <2>0, MembersOfSeq
  <2> QED BY <1>1, <2>1, <2>2, <2>3 DEF Step
<1>4. Mirrored(fn)
  <2>1. ASSUME NEW b \in Members(fn.blocks) PROVE fn.pre[b] \in Seq(Members(fn.blocks))
    <3>1. fn.pre[b] \in Seq(Block)
      BY <1>1 DEF GoodFunction, FunctionType
    <3>2. Members(fn.pre[b]) \subseteq Members(fn.blocks)
      BY <1>3
    <3> QED BY <3>1, <3>2, SeqOfMembers
  <2> QED BY <1>3, <2>1 DEF Mirrored
<1> QED BY <1>1, <1>2, <1>4 DEF FlowGraph, LivePredecessors

(* A predecessor of a reachable block is reachable, and the other way.     *)
LEMMA Predecessors ==
  ASSUME NEW f, FlowGraph(f), NEW b \in Reachable(f)
  PROVE  /\ b \in Members(f.blocks) /\ f.pre[b] \in Seq(Members(f.blocks))
         /\ \A a : a \in Members(f.pre[b]) <=> a \in Reachable(f) /\ Step(f, a, b)
         /\ \A y : Step(f, b, y) => y \in Reachable(f)
         /\ Len(f.pre[b]) \in Nat
         /\ \A k \in 1..Len(f.pre[b]) : f.pre[b][k] \in Reachable(f) /\ Step(f, f.pre[b][k], b)
<1>1. Graph(f) /\ Reachable(f) \subseteq Members(f.blocks)
  BY EntryIn DEF FlowGraph, Reachable
<1>2. \A a : a \in Members(f.pre[b]) <=> a \in Reachable(f) /\ Step(f, a, b)
  BY <1>1 DEF FlowGraph, Mirrored
<1>3. f.pre[b] \in Seq(Members(f.blocks))
  BY <1>1 DEF FlowGraph, Mirrored
<1>4. \A y : Step(f, b, y) => y \in Reachable(f)
  <2> DEFINE cut == {}
  <2>1. b \in ReachAvoiding(f, cut)
    BY DEF Reachable
  <2> HIDE DEF cut
  <2>2. Members(f.succ[b]) \subseteq ReachAvoiding(f, cut) \cup cut
    BY <1>1, <2>1, ReachClosed
  <2> QED BY <2>2 DEF Reachable, Step, cut
<1>5. \A k \in 1..Len(f.pre[b]) : f.pre[b][k] \in Members(f.pre[b])
  BY DEF Members
<1>6. Len(f.pre[b]) \in Nat
  BY <1>3
<1> QED BY <1>1, <1>2, <1>3, <1>4, <1>5, <1>6

(* Every edge leads to a block finished earlier, or closes a loop.         *)
EdgesDescend(f, d) ==
    \A n \in 1..Len(d) : \A y : Step(f, d[n], y) =>
        Retreats(f, d[n], y) \/ \E m \in 1..(n - 1) : d[m] = y

LEMMA DescendStarts == ASSUME NEW f PROVE EdgesDescend(f, << >>)
BY DEF EdgesDescend

LEMMA DescendKeeps ==
  ASSUME NEW f, Graph(f), Structured(f), NEW s, NEW v, NEW d, Searching(f, s, v, d), s # << >>,
         NEW n, n = Len(s), NEW x, x = s[n].bb, EdgesDescend(f, d),
         NEW r, NEW e, e = Append(d, x), r = SubSeq(s, 1, n - 1), Searching(f, r, v, e)
  PROVE  EdgesDescend(f, e)
<1> DEFINE t == Trail(s)
<1>1. /\ s \in Seq(FramesOf(f)) /\ Walk(f, t, {}) /\ d \in Seq(Members(f.blocks))
      /\ v = Members(t) \cup Members(d)
  BY DEF Searching
<1>2. t \in Seq(Members(f.blocks)) /\ Len(t) = n /\ t[n] = x /\ n \in Nat \ {0}
  <2>1. n \in Nat \ {0}
    BY <1>1
  <2> QED BY <1>1, <2>1, TrailIs
<1> HIDE DEF t
<1>3. x \in Members(f.blocks)
  BY <1>2
<1>4. /\ Members(e) = Members(d) \cup {x}
      /\ Len(d) \in Nat /\ Len(e) = Len(d) + 1 /\ e[Len(d) + 1] = x
      /\ \A k \in 1..Len(d) : e[k] = d[k]
  BY <1>1, <1>3, AppendMembers
<1>5. Members(f.succ[x]) \subseteq v
  <2>1. \A b \in Members(e) : Members(f.succ[b]) \subseteq v
    BY DEF Searching
  <2> QED BY <1>4, <2>1
<1>6. Leads(f, t, {}, x)
  BY <1>1, <1>2 DEF Leads
<1>7. ASSUME NEW y, Step(f, x, y)
      PROVE  Retreats(f, x, y) \/ \E m \in 1..Len(d) : d[m] = y
  <2>1. y \in Members(t) \/ y \in Members(d)
    BY <1>1, <1>5, <1>7 DEF Step
  <2>2. y \in Members(t) => Retreats(f, x, y)
    BY <1>6, <1>7, ClosesALoop
  <2> QED BY <2>1, <2>2 DEF Members
<1> DEFINE l == Len(d)
<1>8. ASSUME NEW k \in 1..(l + 1), NEW y, Step(f, e[k], y)
      PROVE  Retreats(f, e[k], y) \/ \E m \in 1..(k - 1) : e[m] = y
  <2>1. CASE k = l + 1
    <3>1. e[k] = x /\ k - 1 = l
      BY <1>4, <2>1
    <3> QED BY <1>4, <1>7, <1>8, <3>1
  <2>2. CASE k # l + 1
    <3>1. k \in 1..l /\ e[k] = d[k] /\ \A m \in 1..(k - 1) : e[m] = d[m]
      BY <1>4, <2>2
    <3>2. Step(f, d[k], y)
      BY <1>8, <3>1
    <3>3. Retreats(f, d[k], y) \/ \E m \in 1..(k - 1) : d[m] = y
      BY <3>1, <3>2 DEF EdgesDescend
    <3> QED BY <3>1, <3>3
  <2> QED BY <2>1, <2>2
<1>9. Len(e) = l + 1
  BY <1>4
<1> HIDE DEF l
<1> QED BY <1>8, <1>9 DEF EdgesDescend

(* The numbering d of f, with the number g[b] of each of the l reachable   *)
(* blocks; the entry has the last one.                                     *)
Numbering(f, d, g, l) ==
    /\ FlowGraph(f) /\ Ordered(f, d) /\ NumbersOf(d, g, l) /\ EdgesDescend(f, d)

LEMMA NumberingIs ==
  ASSUME NEW f, NEW d, NEW g, NEW l, Numbering(f, d, g, l)
  PROVE  /\ l \in Nat \ {0} /\ Graph(f)
         /\ \A b \in Reachable(f) : g[b] \in 0..(l - 1) /\ d[g[b] + 1] = b
         /\ \A n \in 0..(l - 1) : d[n + 1] \in Reachable(f) /\ g[d[n + 1]] = n
         /\ \A x, y : Dominates(f, x, y) => g[y] <= g[x]
         /\ \A x, y : StrictlyDominates(f, x, y) => g[y] < g[x]
         /\ Entry(f) \in Reachable(f) /\ g[Entry(f)] = l - 1
<1>1. /\ l \in Nat \ {0} /\ Graph(f) /\ Ordered(f, d) /\ Members(d) = Reachable(f) /\ l = Len(d)
      /\ NumbersOf(d, g, l)
  BY DEF Numbering, FlowGraph, Ordered, NumbersOf
<1>2. \A b \in Reachable(f) : g[b] \in 0..(l - 1) /\ d[g[b] + 1] = b
  BY <1>1 DEF NumbersOf
<1>3. ASSUME NEW n \in 0..(l - 1) PROVE d[n + 1] \in Reachable(f) /\ g[d[n + 1]] = n
  <2>1. n + 1 \in 1..l
    BY <1>1
  <2>2. d[n + 1] \in Members(d)
    BY <1>1, <2>1 DEF Members
  <2> QED BY <1>1, <2>2 DEF NumbersOf
<1>4. \A x, y : StrictlyDominates(f, x, y) => g[y] < g[x]
  BY <1>1, DominatorsNumbered DEF StrictlyDominates
<1>5. ASSUME NEW x, NEW y, Dominates(f, x, y) PROVE g[y] <= g[x]
  <2>1. x \in Reachable(f) /\ y \in Reachable(f)
    BY <1>5 DEF Dominates
  <2>2. g[x] \in 0..(l - 1) /\ g[y] \in 0..(l - 1)
    BY <1>2, <2>1
  <2>3. CASE x = y
    <3>1. g[x] \in Int
      BY <2>2
    <3> QED BY <2>3, <3>1
  <2>4. CASE x # y
    <3>1. g[y] < g[x]
      BY <1>4, <1>5, <2>4 DEF StrictlyDominates
    <3> QED BY <2>2, <3>1
  <2> QED BY <2>3, <2>4
<1>6. Entry(f) \in Reachable(f)
  <2> DEFINE cut == {}
  <2>1. Entry(f) \notin cut
    OBVIOUS
  <2> HIDE DEF cut
  <2>2. Entry(f) \in ReachAvoiding(f, cut)
    BY <1>1, <2>1, ReachClosed
  <2> QED BY <2>2 DEF Reachable, cut
<1>7. g[Entry(f)] = l - 1
  <2> DEFINE n == l - 1
             e == g[Entry(f)]
  <2>1. n \in 0..(l - 1)
    BY <1>1
  <2>2. d[n + 1] \in Reachable(f) /\ g[d[n + 1]] = n
    BY <1>3, <2>1
  <2>3. Dominates(f, Entry(f), d[n + 1])
    BY <1>1, <2>2, EntryDominates
  <2>4. n <= e
    BY <1>5, <2>2, <2>3
  <2>5. e \in 0..(l - 1)
    BY <1>2, <1>6
  <2> QED BY <1>1, <2>4, <2>5
<1> QED BY <1>1, <1>2, <1>3, <1>4, <1>5, <1>6, <1>7

(* An edge leads to a smaller number, or back to a block that dominates.   *)
LEMMA EdgesNumbered ==
  ASSUME NEW f, NEW d, NEW g, NEW l, Numbering(f, d, g, l), NEW a \in Reachable(f),
         NEW b, Step(f, a, b)
  PROVE  g[b] < g[a] \/ Retreats(f, a, b)
<1>1. /\ l \in Nat \ {0} /\ g[a] \in 0..(l - 1) /\ d[g[a] + 1] = a
      /\ \A n \in 0..(l - 1) : g[d[n + 1]] = n
  BY NumberingIs
<1> DEFINE n == g[a]
<1>2. n \in 0..(l - 1) /\ d[n + 1] = a
  BY <1>1
<1>3. EdgesDescend(f, d) /\ Len(d) = l
  BY DEF Numbering, NumbersOf
<1> HIDE DEF n
<1>4. n + 1 \in 1..l /\ n \in Nat
  BY <1>1, <1>2
<1>5. Retreats(f, a, b) \/ \E m \in 1..((n + 1) - 1) : d[m] = b
  BY <1>2, <1>3, <1>4 DEF EdgesDescend
<1>6. ASSUME NEW m \in 1..((n + 1) - 1), d[m] = b PROVE g[b] < n
  <2>1. m - 1 \in 0..(l - 1) /\ (m - 1) + 1 = m /\ m - 1 < n
    BY <1>1, <1>2, <1>4
  <2>2. g[d[(m - 1) + 1]] = m - 1
    BY <1>1, <2>1
  <2> QED BY <1>6, <2>1, <2>2
<1> QED BY <1>5, <1>6 DEF n

(* The first predecessor of a block has a larger number, so that the       *)
(* search has found the block through it.                                  *)
LEMMA FirstPredecessor ==
  ASSUME NEW f, NEW d, NEW g, NEW l, Numbering(f, d, g, l), NEW b \in Reachable(f),
         b # Entry(f)
  PROVE  /\ Len(f.pre[b]) \in Nat \ {0}
         /\ f.pre[b][1] \in Reachable(f) /\ Step(f, f.pre[b][1], b)
         /\ g[b] < g[f.pre[b][1]] /\ ~Dominates(f, b, f.pre[b][1])
<1>1. FlowGraph(f) /\ Graph(f)
  BY DEF Numbering, FlowGraph
<1>2. PICK w : Leads(f, w, {}, b)
  BY <1>1, SomeWalk
<1>3. Len(w) \in Nat \ {0} /\ w \in Seq(Members(f.blocks)) /\ w[Len(w)] = b /\ w[1] = Entry(f)
      /\ \A k \in 1..(Len(w) - 1) : Step(f, w[k], w[k + 1])
  BY <1>2 DEF Leads, Walk
<1> DEFINE n == Len(w)
<1>4. n # 1
  BY <1>3
<1>5. n - 1 \in 1..(n - 1) /\ (n - 1) + 1 = n /\ n - 1 \in 1..n
  BY <1>3, <1>4
<1>6. Step(f, w[n - 1], b)
  BY <1>3, <1>5
<1>7. w[n - 1] \in Members(f.blocks)
  BY <1>3, <1>5
<1>8. w[n - 1] \in Members(f.pre[b])
  <2>1. b \in Members(f.blocks)
    BY <1>1, Predecessors
  <2> QED BY <1>1, <1>6, <1>7, <2>1 DEF FlowGraph, Mirrored
<1> DEFINE m == Len(f.pre[b])
           a == f.pre[b][1]
<1>9. m \in Nat /\ \A k \in 1..m : f.pre[b][k] \in Reachable(f) /\ Step(f, f.pre[b][k], b)
  BY <1>1, Predecessors
<1>10. m # 0
  BY <1>8, <1>9 DEF Members
<1>11. f.pre[b] # << >>
  BY <1>8, MembersOfEmpty
<1>12. 1 \in 1..m
  BY <1>9, <1>10
<1>13. a \in Reachable(f) /\ Step(f, a, b)
  BY <1>9, <1>12
<1>14. ~Retreats(f, a, b)
  BY <1>11 DEF Retreats
<1>15. g[b] < g[a]
  BY <1>13, <1>14, EdgesNumbered
<1>16. ~Dominates(f, b, a)
  <2> SUFFICES ASSUME Dominates(f, b, a) PROVE FALSE
    OBVIOUS
  <2> DEFINE ga == g[a]
             gb == g[b]
  <2>1. ga <= gb /\ ga \in 0..(l - 1) /\ gb \in 0..(l - 1) /\ l \in Nat
    BY <1>13, NumberingIs
  <2>2. gb < ga
    BY <1>15
  <2> HIDE DEF ga, gb
  <2> QED BY <2>1, <2>2
<1> QED BY <1>9, <1>10, <1>13, <1>15, <1>16

(* What dominates all ways into a block, but those from behind it,         *)
(* dominates the block.                                                    *)
LEMMA DominatesByPredecessors ==
  ASSUME NEW f, Graph(f), NEW x \in Reachable(f), NEW b \in Reachable(f), b # Entry(f),
         \A a \in Reachable(f) : Step(f, a, b) => Dominates(f, x, a) \/ Dominates(f, b, a)
  PROVE  Dominates(f, x, b)
<1> SUFFICES ASSUME b \in ReachAvoiding(f, {x}) PROVE FALSE
  BY DEF Dominates
<1> DEFINE cut == {x}
           E == ReachAvoiding(f, cut)
           S == {y \in E : ~Dominates(f, b, y)}
<1>1. /\ Entry(f) \notin cut => Entry(f) \in E
      /\ \A a \in E : Members(f.succ[a]) \subseteq E \cup cut
  <2> HIDE DEF cut
  <2> QED BY ReachClosed
<1>2. Reachable(f) \subseteq Members(f.blocks) /\ Len(f.blocks) \in Nat
  BY EntryIn DEF Graph, Reachable
<1>3. E \subseteq Reachable(f)
  <2>1. \A y \in E : \E w : Leads(f, w, cut, y)
    BY ReachByWalk
  <2>2. \A y, w : Leads(f, w, cut, y) => Leads(f, w, {}, y)
    BY DEF Leads, Walk
  <2> QED BY <2>1, <2>2, ReachByWalk DEF Reachable
<1>4. \A a \in E : ~Dominates(f, x, a)
  BY DEF Dominates
<1>5. b \notin S /\ b \in E
  BY DominatesItself
<1>6. Entry(f) \in S \cup cut
  <2> SUFFICES ASSUME Entry(f) # x PROVE ~Dominates(f, b, Entry(f)) /\ Entry(f) \in E
    OBVIOUS
  <2>1. Dominates(f, Entry(f), b)
    BY EntryDominates
  <2> QED BY <1>1, <2>1, DominatesOneWay
<1>7. ASSUME NEW a \in S, NEW y \in Members(f.succ[a]) PROVE y \in S \cup cut
  <2>1. a \in Reachable(f) /\ Step(f, a, y) /\ ~Dominates(f, b, a) /\ ~Dominates(f, x, a)
    BY <1>3, <1>4 DEF Step
  <2>2. y # b
    BY <2>1
  <2>3. y \in E \cup cut
    BY <1>1
  <2>4. ~Dominates(f, b, y)
    <3> SUFFICES ASSUME Dominates(f, b, y) PROVE FALSE
      OBVIOUS
    <3>1. StrictlyDominates(f, b, y)
      BY <2>2 DEF StrictlyDominates
    <3> QED BY <2>1, <3>1, DominatesPredecessor
  <2> QED BY <2>3, <2>4
<1>8. E \subseteq S
  <2>1. \A a \in S : Members(f.succ[a]) \subseteq S \cup cut
    BY <1>7
  <2> HIDE DEF S, cut
  <2> QED BY <1>2, <1>6, <2>1, ReachIsLeast
<1> QED BY <1>5, <1>8

AllAbove(f, b, x) == \A s : StrictlyDominates(f, s, b) => Dominates(f, s, x)

(* What intersect returns for all predecessors is the immediate dominator. *)
LEMMA MeetIsIdom ==
  ASSUME NEW f, NEW d, NEW g, NEW l, Numbering(f, d, g, l), NEW b \in Reachable(f),
         b # Entry(f), NEW x \in Reachable(f), AllAbove(f, b, x),
         \A k \in 1..Len(f.pre[b]) :
            Dominates(f, x, f.pre[b][k]) \/ Dominates(f, b, f.pre[b][k])
  PROVE  IsIdom(Dominance(f), x, b)
<1>1. FlowGraph(f) /\ Graph(f)
  BY DEF Numbering, FlowGraph
<1> DEFINE a == f.pre[b][1]
<1>2. /\ Len(f.pre[b]) \in Nat \ {0} /\ a \in Reachable(f) /\ g[b] < g[a] /\ ~Dominates(f, b, a)
  BY FirstPredecessor
<1>3. 1 \in 1..Len(f.pre[b])
  BY <1>2
<1>4. Dominates(f, x, a)
  BY <1>2, <1>3
<1>5. x # b
  BY <1>2, <1>4
<1>6. \A y \in Reachable(f) : Step(f, y, b) => Dominates(f, x, y) \/ Dominates(f, b, y)
  <2>1. \A y \in Members(f.pre[b]) : Dominates(f, x, y) \/ Dominates(f, b, y)
    BY DEF Members
  <2> QED BY <1>1, <2>1, Predecessors
<1>7. Dominates(f, x, b)
  BY <1>1, <1>6, DominatesByPredecessors
<1> QED BY <1>1, <1>5, <1>7, IdomIs DEF AllAbove, StrictlyDominates

LEMMA OneIdom ==
  ASSUME NEW f, Graph(f), NEW x, NEW y, NEW b, IsIdom(Dominance(f), x, b),
         IsIdom(Dominance(f), y, b)
  PROVE  x = y
<1>1. Dominates(f, x, y) /\ Dominates(f, y, x)
  BY IdomIs
<1> QED BY <1>1, DominatesOneWay

-----------------------------------------------------------------------------
(* What intersect does, on numbers: while dominators are stored from the   *)
(* entry on, whatever is stored is the immediate dominator at once,        *)
(* because a structured graph has been searched through the first          *)
(* predecessor of every block.                                             *)

(* The dominators stored so far are immediate dominators, the entry is its *)
(* own, and what is defined lies above what is not.                        *)
StoredIdoms(f, d, m, l) ==
    /\ m \in [0..(l - 1) -> -1..(l - 1)] /\ m[l - 1] = l - 1
    /\ \A n \in 0..(l - 2) : m[n] # -1 => IsIdom(Dominance(f), d[m[n] + 1], d[n + 1])
    /\ \A n, k \in 0..(l - 1) : n <= k /\ m[n] # -1 => m[k] # -1

DefinedAbove(m, l, j) == \A n \in 0..(l - 1) : j < n => m[n] # -1

(* A number that lies between b and its strict dominators on the one side, *)
(* and y on the other: no finger climbs past a common dominator.           *)
Finger(f, d, m, l, b, n, y) ==
    n \in 0..(l - 1) /\ m[n] # -1 /\ AllAbove(f, b, d[n + 1]) /\ Dominates(f, d[n + 1], y)

(* new is what the predecessors of b before the a-th have given.           *)
Candidate(f, d, m, l, b, a, new) ==
    /\ a \in Nat \ {0} /\ (a = 1 <=> new = -1)
    /\ new # -1 => new \in 0..(l - 1) /\ m[new] # -1 /\ AllAbove(f, b, d[new + 1])
    /\ new # -1 => \A k \in 1..(a - 1) :
            Dominates(f, d[new + 1], f.pre[b][k]) \/ Dominates(f, b, f.pre[b][k])

LEMMA FingerClimbs ==
  ASSUME NEW f, NEW d, NEW g, NEW l, Numbering(f, d, g, l), NEW m, StoredIdoms(f, d, m, l),
         NEW b, NEW n, NEW y, Finger(f, d, m, l, b, n, y),
         NEW k, NEW z, Finger(f, d, m, l, b, k, z), n < k, NEW o, o = m[n]
  PROVE  Finger(f, d, m, l, b, o, y) /\ n < o
<1> DEFINE X == d[n + 1]
           Y == d[o + 1]
           Z == d[k + 1]
<1>1. /\ n \in 0..(l - 1) /\ k \in 0..(l - 1) /\ m[n] # -1
      /\ AllAbove(f, b, X) /\ AllAbove(f, b, Z) /\ Dominates(f, X, y)
  BY DEF Finger
<1>2. /\ l \in Nat \ {0} /\ Graph(f)
      /\ \A j \in 0..(l - 1) : d[j + 1] \in Reachable(f) /\ g[d[j + 1]] = j
      /\ \A s, t : Dominates(f, s, t) => g[t] <= g[s]
      /\ \A s, t : StrictlyDominates(f, s, t) => g[t] < g[s]
  BY NumberingIs
<1>3. n \in 0..(l - 2) /\ n <= l - 1
  BY <1>1, <1>2
<1>4. o \in -1..(l - 1) /\ o # -1
  BY <1>1 DEF StoredIdoms
<1>5. o \in 0..(l - 1)
  BY <1>2, <1>4
<1>6. IsIdom(Dominance(f), Y, X)
  BY <1>1, <1>3 DEF StoredIdoms
<1>7. StrictlyDominates(f, Y, X) /\ \A s : StrictlyDominates(f, s, X) => Dominates(f, s, Y)
  BY <1>2, <1>6, IdomIs
<1>8. g[X] = n /\ g[Y] = o /\ g[Z] = k
  BY <1>1, <1>2, <1>5
<1>9. n < o
  BY <1>2, <1>7, <1>8
<1>10. m[o] # -1
  <2>1. n <= o
    BY <1>1, <1>5, <1>9
  <2> QED BY <1>1, <1>5, <2>1 DEF StoredIdoms
<1>11. AllAbove(f, b, Y)
  <2> SUFFICES ASSUME NEW s, StrictlyDominates(f, s, b) PROVE Dominates(f, s, Y)
    BY DEF AllAbove
  <2>1. Dominates(f, s, X) /\ Dominates(f, s, Z)
    BY <1>1 DEF AllAbove
  <2>2. s # X
    <3> SUFFICES ASSUME s = X PROVE FALSE
      OBVIOUS
    <3>1. g[Z] <= g[X]
      BY <1>2, <2>1
    <3>2. k <= n
      BY <1>8, <3>1
    <3> QED BY <1>1, <3>2
  <2> QED BY <1>7, <2>1, <2>2 DEF StrictlyDominates
<1>12. Dominates(f, Y, y)
  BY <1>1, <1>2, <1>7, DominatesThrough DEF StrictlyDominates
<1> QED BY <1>5, <1>9, <1>10, <1>11, <1>12 DEF Finger

(* The block with number j is in hand, the larger numbers are defined.     *)
InTurn(f, d, g, l, m, j, b) ==
    /\ Numbering(f, d, g, l) /\ StoredIdoms(f, d, m, l)
    /\ j \in 0..(l - 2) /\ b = d[j + 1] /\ DefinedAbove(m, l, j)

LEMMA InTurnIs ==
  ASSUME NEW f, NEW d, NEW g, NEW l, NEW m, NEW j, NEW b, InTurn(f, d, g, l, m, j, b)
  PROVE  /\ b \in Reachable(f) /\ b # Entry(f) /\ g[b] = j /\ Graph(f) /\ FlowGraph(f)
         /\ l \in Nat \ {0} /\ j \in 0..(l - 1)
<1>1. /\ l \in Nat \ {0} /\ Graph(f) /\ FlowGraph(f)
      /\ \A n \in 0..(l - 1) : d[n + 1] \in Reachable(f) /\ g[d[n + 1]] = n
      /\ g[Entry(f)] = l - 1
  BY NumberingIs DEF InTurn, Numbering
<1>2. j \in 0..(l - 1) /\ j # l - 1
  BY <1>1 DEF InTurn
<1> QED BY <1>1, <1>2 DEF InTurn

LEMMA PredecessorAt ==
  ASSUME NEW f, NEW d, NEW g, NEW l, NEW m, NEW j, NEW b, InTurn(f, d, g, l, m, j, b),
         NEW a \in 1..Len(f.pre[b]), NEW n, n = g[f.pre[b][a]]
  PROVE  /\ n \in 0..(l - 1) /\ d[n + 1] = f.pre[b][a] /\ AllAbove(f, b, f.pre[b][a])
         /\ m[n] # -1 => Finger(f, d, m, l, b, n, f.pre[b][a])
         /\ m[n] = -1 => Dominates(f, b, f.pre[b][a])
<1> DEFINE x == f.pre[b][a]
<1>1. b \in Reachable(f) /\ g[b] = j /\ Graph(f) /\ FlowGraph(f)
  BY InTurnIs
<1>2. x \in Reachable(f) /\ Step(f, x, b)
  BY <1>1, Predecessors
<1>3. n \in 0..(l - 1) /\ d[n + 1] = x
  BY <1>2, NumberingIs DEF InTurn
<1>4. AllAbove(f, b, x)
  BY <1>1, <1>2, DominatesPredecessor DEF AllAbove
<1>5. Dominates(f, x, x)
  BY <1>1, <1>2, DominatesItself
<1>6. ASSUME m[n] = -1 PROVE Dominates(f, b, x)
  <2>1. ~(j < n)
    BY <1>3, <1>6 DEF InTurn, DefinedAbove
  <2>2. g[b] < g[x] \/ Retreats(f, x, b)
    BY <1>2, EdgesNumbered DEF InTurn
  <2>3. Retreats(f, x, b)
    BY <1>1, <2>1, <2>2
  <2> QED BY <2>3 DEF Retreats
<1> QED BY <1>3, <1>4, <1>5, <1>6 DEF Finger

LEMMA FirstCandidate ==
  ASSUME NEW f, NEW d, NEW g, NEW l, NEW m, NEW j, NEW b, InTurn(f, d, g, l, m, j, b),
         NEW n, n = g[f.pre[b][1]]
  PROVE  Candidate(f, d, m, l, b, 2, n)
<1>1. b \in Reachable(f) /\ b # Entry(f) /\ g[b] = j /\ Graph(f) /\ l \in Nat \ {0}
  BY InTurnIs
<1>2. Len(f.pre[b]) \in Nat \ {0} /\ g[b] < g[f.pre[b][1]]
  BY <1>1, FirstPredecessor DEF InTurn
<1>3. 1 \in 1..Len(f.pre[b])
  BY <1>2
<1>4. n \in 0..(l - 1) /\ d[n + 1] = f.pre[b][1] /\ AllAbove(f, b, f.pre[b][1])
  BY <1>3, PredecessorAt
<1>5. m[n] # -1
  BY <1>1, <1>2, <1>4 DEF InTurn, DefinedAbove
<1>6. f.pre[b][1] \in Reachable(f)
  BY <1>1, FirstPredecessor DEF InTurn
<1>7. Dominates(f, d[n + 1], f.pre[b][1])
  BY <1>1, <1>4, <1>6, DominatesItself
<1>8. n # -1 /\ \A k \in 1..(2 - 1) : k = 1
  BY <1>1, <1>4
<1> QED BY <1>4, <1>5, <1>7, <1>8 DEF Candidate

LEMMA CandidateStays ==
  ASSUME NEW f, NEW d, NEW g, NEW l, NEW m, NEW j, NEW b, InTurn(f, d, g, l, m, j, b),
         NEW a \in 1..Len(f.pre[b]), NEW n, n = g[f.pre[b][a]], m[n] = -1,
         NEW new, new # -1, Candidate(f, d, m, l, b, a, new), NEW o, o = a + 1
  PROVE  Candidate(f, d, m, l, b, o, new)
<1>1. Dominates(f, b, f.pre[b][a])
  BY PredecessorAt
<1>2. a \in Nat \ {0}
  BY DEF Candidate
<1>3. o \in Nat \ {0} /\ o # 1 /\ \A k \in 1..(o - 1) : k \in 1..(a - 1) \/ k = a
  BY <1>2
<1> QED BY <1>1, <1>3 DEF Candidate

LEMMA CandidateMeets ==
  ASSUME NEW f, NEW d, NEW g, NEW l, NEW m, NEW j, NEW b, InTurn(f, d, g, l, m, j, b),
         NEW a \in 1..Len(f.pre[b]), NEW new, new # -1, Candidate(f, d, m, l, b, a, new),
         NEW n, Finger(f, d, m, l, b, n, f.pre[b][a]), Finger(f, d, m, l, b, n, d[new + 1]),
         NEW o, o = a + 1
  PROVE  Candidate(f, d, m, l, b, o, n)
<1>1. a \in Nat \ {0} /\ l \in Nat \ {0} /\ Graph(f)
  BY InTurnIs DEF Candidate
<1>2. n \in 0..(l - 1) /\ m[n] # -1 /\ AllAbove(f, b, d[n + 1])
      /\ Dominates(f, d[n + 1], f.pre[b][a]) /\ Dominates(f, d[n + 1], d[new + 1])
  BY DEF Finger
<1>3. o \in Nat \ {0} /\ o # 1 /\ n # -1 /\ \A k \in 1..(o - 1) : k \in 1..(a - 1) \/ k = a
  BY <1>1, <1>2
<1>4. ASSUME NEW k \in 1..(o - 1)
      PROVE  Dominates(f, d[n + 1], f.pre[b][k]) \/ Dominates(f, b, f.pre[b][k])
  <2>1. CASE k \in 1..(a - 1)
    <3>1. Dominates(f, d[new + 1], f.pre[b][k]) \/ Dominates(f, b, f.pre[b][k])
      BY <2>1 DEF Candidate
    <3> QED BY <1>1, <1>2, <3>1, DominatesThrough
  <2>2. CASE k = a
    BY <1>2, <2>2
  <2> QED BY <1>3, <2>1, <2>2
<1> QED BY <1>2, <1>3, <1>4 DEF Candidate

LEMMA CandidateIsIdom ==
  ASSUME NEW f, NEW d, NEW g, NEW l, NEW m, NEW j, NEW b, InTurn(f, d, g, l, m, j, b),
         NEW a, a > Len(f.pre[b]), NEW new, Candidate(f, d, m, l, b, a, new)
  PROVE  new \in 0..(l - 1) /\ IsIdom(Dominance(f), d[new + 1], b)
<1>1. b \in Reachable(f) /\ b # Entry(f) /\ Numbering(f, d, g, l)
  BY InTurnIs DEF InTurn
<1> DEFINE c == Len(f.pre[b])
<1>2. c \in Nat \ {0}
  BY <1>1, FirstPredecessor
<1>3. a \in Nat \ {0} /\ (a = 1 <=> new = -1) /\ a > c
  BY DEF Candidate
<1> HIDE DEF c
<1>4. new # -1 /\ \A k \in 1..c : k \in 1..(a - 1)
  BY <1>2, <1>3
<1>5. /\ new \in 0..(l - 1) /\ AllAbove(f, b, d[new + 1])
      /\ \A k \in 1..c : Dominates(f, d[new + 1], f.pre[b][k]) \/ Dominates(f, b, f.pre[b][k])
  BY <1>4 DEF Candidate
<1>6. d[new + 1] \in Reachable(f)
  BY <1>1, <1>5, NumberingIs
<1> QED BY <1>1, <1>5, <1>6, MeetIsIdom DEF c

(* Storing it keeps what is stored, and a block in later rounds keeps its  *)
(* dominator.                                                              *)
Put(m, j, n) == [m EXCEPT ![j] = n]

LEMMA StoredKeeps ==
  ASSUME NEW f, NEW d, NEW g, NEW l, NEW m, NEW j, NEW b, InTurn(f, d, g, l, m, j, b),
         NEW new \in 0..(l - 1), IsIdom(Dominance(f), d[new + 1], b),
         NEW r, r = Put(m, j, new), NEW h, h = j - 1
  PROVE  /\ StoredIdoms(f, d, r, l) /\ DefinedAbove(r, l, h)
         /\ m[j] \in {-1, new} /\ \A n \in 0..(l - 1) : r[n] >= m[n]
<1>1. /\ l \in Nat \ {0} /\ Graph(f) /\ Numbering(f, d, g, l) /\ j \in 0..(l - 1)
      /\ j \in 0..(l - 2) /\ b = d[j + 1]
  BY InTurnIs DEF InTurn
<1>2. m \in [0..(l - 1) -> -1..(l - 1)] /\ m[l - 1] = l - 1
  BY DEF InTurn, StoredIdoms
<1>3. /\ r \in [0..(l - 1) -> -1..(l - 1)] /\ r[j] = new
      /\ \A n \in 0..(l - 1) : n # j => r[n] = m[n]
  <2>1. new \in -1..(l - 1)
    BY <1>1
  <2> QED BY <1>1, <1>2, <2>1 DEF Put
<1>4. r[l - 1] = l - 1
  BY <1>1, <1>2, <1>3
<1>5. \A n \in 0..(l - 2) : r[n] # -1 => IsIdom(Dominance(f), d[r[n] + 1], d[n + 1])
  <2> SUFFICES ASSUME NEW n \in 0..(l - 2), r[n] # -1
               PROVE  IsIdom(Dominance(f), d[r[n] + 1], d[n + 1])
    OBVIOUS
  <2>1. CASE n = j
    BY <1>1, <1>3, <2>1
  <2>2. CASE n # j
    <3>1. n \in 0..(l - 1)
      BY <1>1
    <3>2. r[n] = m[n]
      BY <1>3, <2>2, <3>1
    <3> QED BY <3>2 DEF InTurn, StoredIdoms
  <2> QED BY <2>1, <2>2
<1>6. new # -1
  BY <1>1
<1>7. DefinedAbove(r, l, h)
  <2> SUFFICES ASSUME NEW n \in 0..(l - 1), h < n PROVE r[n] # -1
    BY DEF DefinedAbove
  <2>1. n = j \/ (n # j /\ j < n)
    BY <1>1
  <2> QED BY <1>3, <1>6, <2>1 DEF InTurn, DefinedAbove
<1>8. \A n, k \in 0..(l - 1) : n <= k /\ r[n] # -1 => r[k] # -1
  <2> SUFFICES ASSUME NEW n \in 0..(l - 1), NEW k \in 0..(l - 1), n <= k, r[n] # -1
               PROVE  r[k] # -1
    OBVIOUS
  <2>1. CASE h < k
    BY <1>7, <2>1 DEF DefinedAbove
  <2>2. CASE ~(h < k)
    <3>1. n # j /\ k # j
      BY <1>1, <2>2
    <3>2. m[n] # -1 /\ r[k] = m[k]
      BY <1>3, <3>1
    <3> QED BY <3>2 DEF InTurn, StoredIdoms
  <2> QED BY <2>1, <2>2
<1>9. m[j] \in {-1, new}
  <2> SUFFICES ASSUME m[j] # -1 PROVE m[j] = new
    OBVIOUS
  <2> DEFINE o == m[j]
  <2>1. o \in 0..(l - 1)
    <3>1. o \in -1..(l - 1) /\ o # -1
      BY <1>1, <1>2
    <3> HIDE DEF o
    <3> QED BY <1>1, <3>1
  <2>2. IsIdom(Dominance(f), d[o + 1], b)
    BY <1>1 DEF InTurn, StoredIdoms
  <2> HIDE DEF o
  <2>3. d[o + 1] = d[new + 1]
    BY <1>1, <2>2, OneIdom
  <2>4. g[d[o + 1]] = o /\ g[d[new + 1]] = new
    BY <1>1, <2>1, NumberingIs
  <2> QED BY <2>3, <2>4 DEF o
<1>10. \A n \in 0..(l - 1) : r[n] >= m[n]
  <2> SUFFICES ASSUME NEW n \in 0..(l - 1) PROVE r[n] >= m[n]
    OBVIOUS
  <2>1. r[n] \in Int /\ m[n] \in Int
    BY <1>2, <1>3
  <2>2. CASE n = j
    <3>1. m[n] \in {-1, new} /\ r[n] = new
      BY <1>3, <1>9, <2>2
    <3> QED BY <1>1, <3>1
  <2>3. CASE n # j
    BY <1>3, <2>1, <2>3
  <2> QED BY <2>2, <2>3
<1> QED BY <1>2, <1>3, <1>4, <1>5, <1>7, <1>8, <1>9, <1>10 DEF StoredIdoms

-----------------------------------------------------------------------------
(* The inductive invariant of create_idom.                                 *)

(* The invariant of create_idom, phase by phase.                           *)
Iterates(f, d, m, l, phase, j, a, new, f1, f2) ==
    /\ phase \in {"round", "preds", "intersect"} => StoredIdoms(f, d, m, l)
    /\ phase \in {"preds", "intersect"} => DefinedAbove(m, l, j)
    /\ phase = "preds" /\ j >= 0 => Candidate(f, d, m, l, d[j + 1], a, new)
    /\ phase = "intersect" =>
         /\ j >= 0 /\ new # -1 /\ a \in 1..Len(f.pre[d[j + 1]])
         /\ Candidate(f, d, m, l, d[j + 1], a, new)
         /\ Finger(f, d, m, l, d[j + 1], f1, f.pre[d[j + 1]][a])
         /\ Finger(f, d, m, l, d[j + 1], f2, d[new + 1])

Underived == {"start", "dfs", "round", "preds", "intersect"}

(* The map of the results: nothing before the rounds have ended, then the  *)
(* immediate dominators.                                                   *)
IdomMap(f, above) ==
    \A b \in Block \cup {NULL} :
        /\ b \in Reachable(f) /\ b # Entry(f) => IsIdom(Dominance(f), above[b], b)
        /\ b \notin Reachable(f) => above[b] = NULL

Stored(f, phase, above) ==
    IF phase \in Underived THEN above = [b \in Block \cup {NULL} |-> NULL] ELSE IdomMap(f, above)

IterInv ==
    /\ ~outside /\ EdgesDescend(fn, dfn)
    /\ pc # "start" => LivePredecessors(fn)
    /\ Iterates(fn, dfn, doms, Len(dfn), pc, i, p, new_idom, b1, b2)
    /\ Stored(fn, pc, idom)

LEMMA IterBegins == Init => IterInv
<1> SUFFICES ASSUME Init PROVE IterInv
  OBVIOUS
<1>1. pc = "start" /\ dfn = << >> /\ ~outside /\ idom = [b \in Block \cup {NULL} |-> NULL]
  BY DEF Init, Dom!DInit, Dom!BlockOrNull, Dom!Block, Block
<1> QED BY <1>1, DescendStarts DEF IterInv, Iterates, Stored, Underived

LEMMA IterNumbering ==
  ASSUME AInv, Built, Structured(fn), IterInv, pc \in Later
  PROVE  /\ Numbering(fn, dfn, postorder, Len(dfn)) /\ Len(dfn) \in Nat \ {0}
         /\ doms \in [0..(Len(dfn) - 1) -> -1..(Len(dfn) - 1)]
<1>1. Ordered(fn, dfn) /\ NumbersOf(dfn, postorder, Len(dfn)) /\ Len(dfn) \in 1..MaxBlocks
      /\ MaxBlocks \in Nat /\ doms \in [0..(Len(dfn) - 1) -> -1..(Len(dfn) - 1)]
  BY Numbered
<1>2. FlowGraph(fn) /\ EdgesDescend(fn, dfn)
  BY BuiltFlowGraph DEF IterInv, Later
<1>3. Len(dfn) \in Nat \ {0}
  BY <1>1
<1> QED BY <1>1, <1>2, <1>3 DEF Numbering

LEMMA HandInTurn ==
  ASSUME AInv, Built, Structured(fn), IterInv, pc \in {"preds", "intersect"}, i >= 0
  PROVE  /\ InTurn(fn, dfn, postorder, Len(dfn), doms, i, dfn[i + 1])
         /\ Dom!Preds = fn.pre[dfn[i + 1]] /\ Len(fn.pre[dfn[i + 1]]) \in Nat
         /\ p \in Nat \ {0} /\ Len(dfn) \in Nat
         /\ p <= Len(Dom!Preds) => /\ p \in 1..Len(fn.pre[dfn[i + 1]])
                                   /\ Dom!PredNum = postorder[fn.pre[dfn[i + 1]][p]]
<1>1. /\ i \in 0..(Len(dfn) - 2) /\ i \in 0..(Len(dfn) - 1) /\ p \in Nat \ {0}
      /\ pc \in Later /\ Len(Dom!Preds) \in Nat
  BY InHand
<1>2. Numbering(fn, dfn, postorder, Len(dfn)) /\ Len(dfn) \in Nat
  BY <1>1, IterNumbering
<1>3. StoredIdoms(fn, dfn, doms, Len(dfn)) /\ DefinedAbove(doms, Len(dfn), i)
  BY DEF IterInv, Iterates
<1>4. Dom!Preds = fn.pre[dfn[i + 1]]
  BY <1>1, PredecessorNumbered
<1> DEFINE m == Len(Dom!Preds)
<1>5. ASSUME p <= m PROVE p \in 1..m /\ Dom!PredNum = postorder[Dom!Preds[p]]
  <2>1. m \in Nat
    BY <1>1
  <2> HIDE DEF m
  <2>2. p \in 1..m
    BY <1>1, <1>5, <2>1
  <2> QED BY <1>1, <2>2, PredecessorNumbered DEF m
<1> QED BY <1>1, <1>2, <1>3, <1>4, <1>5 DEF InTurn

(* The search.                                                             *)
LEMMA SearchIterates ==
  ASSUME AInv, Built, Structured(fn), IterInv, pc = "start" => LivePredecessors(fn),
         Dom!BeginSearch \/ Dom!VisitSuccessor \/ Dom!FinishBlock
  PROVE  IterInv'
<1>1. pc \in {"start", "dfs"} /\ pc' = "dfs" /\ Still
  BY BeginSearchStep, VisitStep, FinishStep
<1>2. fn' = fn /\ LivePredecessors(fn)
  BY <1>1 DEF Still, IterInv
<1>3. EdgesDescend(fn, dfn')
  <2>1. CASE Dom!BeginSearch \/ Dom!VisitSuccessor
    BY <2>1 DEF Dom!BeginSearch, Dom!VisitSuccessor, IterInv
  <2>2. CASE Dom!FinishBlock
    <3> DEFINE n == Len(stack)
               x == stack[n].bb
    <3>1. PICK s, d : s = stack' /\ d = dfn'
      OBVIOUS
    <3>2. /\ pc = "dfs" /\ stack # << >> /\ s = SubSeq(stack, 1, n - 1) /\ d = Append(dfn, x)
          /\ visited' = visited
      BY <2>2, <3>1 DEF Dom!FinishBlock, Dom!Finish, Dom!Top, Dom!Pop
    <3>3. Searching(fn, s, visited, d)
      BY <1>2, <2>2, <3>1, <3>2, FinishStep
    <3>4. Searching(fn, stack, visited, dfn) /\ Graph(fn) /\ EdgesDescend(fn, dfn)
      BY <3>2, GraphHere DEF AInv, Looking, IterInv
    <3>5. n = Len(stack) /\ x = stack[n].bb
      OBVIOUS
    <3> HIDE DEF n, x
    <3>6. EdgesDescend(fn, d)
      BY <3>2, <3>3, <3>4, <3>5, DescendKeeps
    <3> QED BY <3>1, <3>6
  <2> QED BY <2>1, <2>2
<1>4. ~outside' /\ Stored(fn', pc', idom')
  BY <1>1 DEF Still, IterInv, Stored, Underived
<1>5. Iterates(fn', dfn', doms', Len(dfn'), pc', i', p', new_idom', b1', b2')
  BY <1>1 DEF Iterates
<1> QED BY <1>1, <1>2, <1>3, <1>4, <1>5 DEF IterInv

LEMMA NumberIterates ==
  ASSUME AInv, Built, IterInv, Dom!NumberBlocks
  PROVE  IterInv'
<1>1. /\ pc = "dfs" /\ pc' = "round" /\ UNCHANGED <<fn, dfn, outside, idom>> /\ stack = << >>
      /\ doms' = [n \in 0..(Len(dfn) - 1) |-> IF n = Len(dfn) - 1 THEN n ELSE -1]
  BY DEF Dom!NumberBlocks, Dom!result, Dom!Numbers, Dom!BbNum
<1> DEFINE l == Len(dfn)
           m == doms'
<1>2. l \in Nat \ {0}
  <2>1. Ordered(fn, dfn) /\ Graph(fn) /\ Members(fn.blocks) \subseteq Block
    <3>1. Searching(fn, stack, visited, dfn) /\ Graph(fn) /\ Members(fn.blocks) \subseteq Block
      BY <1>1, GraphHere DEF AInv, Looking
    <3> QED BY <1>1, <3>1, SearchEnds
  <2>2. PICK g : g = NumberOf(dfn)
    OBVIOUS
  <2>3. NumbersOf(dfn, g, l)
    BY <2>1, <2>2, NumbersAre
  <2>4. l \in 1..MaxBlocks /\ MaxBlocks \in Nat
    BY <2>3, BoundsTyped DEF NumbersOf
  <2> QED BY <2>4
<1>3. StoredIdoms(fn, dfn, m, l)
  <2>1. m = [n \in 0..(l - 1) |-> IF n = l - 1 THEN n ELSE -1]
    BY <1>1
  <2> HIDE DEF m, l
  <2>2. m \in [0..(l - 1) -> -1..(l - 1)] /\ m[l - 1] = l - 1
    BY <1>2, <2>1
  <2>3. \A n \in 0..(l - 1) : n # l - 1 => m[n] = -1
    BY <1>2, <2>1
  <2>4. \A n \in 0..(l - 2) : m[n] = -1
    BY <1>2, <2>3
  <2>5. \A n, k \in 0..(l - 1) : n <= k /\ m[n] # -1 => m[k] # -1
    <3> SUFFICES ASSUME NEW n \in 0..(l - 1), NEW k \in 0..(l - 1), n <= k, m[n] # -1
                 PROVE  m[k] # -1
      OBVIOUS
    <3>1. n = l - 1
      BY <2>3
    <3>2. k = n
      BY <1>2, <3>1
    <3> QED BY <3>2
  <2> QED BY <2>2, <2>4, <2>5 DEF StoredIdoms
<1>4. Iterates(fn, dfn, m, l, "round", i', p', new_idom', b1', b2')
  <2> HIDE DEF m, l
  <2> QED BY <1>3 DEF Iterates
<1> QED BY <1>1, <1>4 DEF IterInv, Stored, Underived

(* The rounds.                                                             *)
Goes == UNCHANGED <<fn, dfn, outside, idom>>

LEMMA FreshCandidate ==
  ASSUME NEW f, NEW d, NEW m, NEW l, NEW b, NEW a, a = 1, NEW new, new = -1
  PROVE  Candidate(f, d, m, l, b, a, new)
<1>1. a \in Nat \ {0} /\ (a = 1 <=> new = -1) /\ ~(new # -1)
  OBVIOUS
<1> QED BY <1>1 DEF Candidate

LEMMA RoundIterates ==
  ASSUME AInv, Built, Structured(fn), IterInv, Dom!BeginRound
  PROVE  IterInv'
<1>1. /\ pc = "round" /\ pc' = "preds" /\ Goes /\ doms' = doms
      /\ i' = Len(dfn) - 2 /\ p' = 1 /\ new_idom' = -1
  BY DEF Dom!BeginRound, Dom!BeginBlock, Dom!search, Dom!result, Goes, Dom!BbNum
<1> DEFINE l == Len(dfn)
<1>2. l \in Nat \ {0} /\ StoredIdoms(fn, dfn, doms, l)
  BY <1>1, IterNumbering DEF Later, IterInv, Iterates
<1>3. DefinedAbove(doms, l, i')
  <2>1. i' = l - 2 /\ doms[l - 1] = l - 1
    BY <1>1, <1>2 DEF StoredIdoms
  <2> HIDE DEF l
  <2>2. \A n \in 0..(l - 1) : i' < n => n = l - 1
    BY <1>2, <2>1
  <2> QED BY <1>2, <2>1, <2>2 DEF DefinedAbove
<1>4. Candidate(fn, dfn, doms, l, dfn[i' + 1], p', new_idom')
  BY <1>1, FreshCandidate
<1>5. Iterates(fn, dfn, doms, l, "preds", i', p', new_idom', b1', b2')
  <2> HIDE DEF l
  <2> QED BY <1>2, <1>3, <1>4 DEF Iterates
<1> QED BY <1>1, <1>5 DEF IterInv, Stored, Underived, Goes

LEMMA TakeIterates ==
  ASSUME AInv, Built, Structured(fn), IterInv, Dom!TakePredecessor
  PROVE  IterInv'
<1>1. /\ pc = "preds" /\ pc' = "preds" /\ Goes /\ doms' = doms /\ i' = i
      /\ i >= 0 /\ p <= Len(Dom!Preds) /\ p' = p + 1
      /\ \/ new_idom = -1 /\ new_idom' = Dom!PredNum
         \/ new_idom # -1 /\ doms[Dom!PredNum] = -1 /\ new_idom' = new_idom
  BY DEF Dom!TakePredecessor, Dom!search, Dom!result, Goes
<1> DEFINE l == Len(dfn)
           b == dfn[i + 1]
<1>2. /\ InTurn(fn, dfn, postorder, l, doms, i, b) /\ p \in 1..Len(fn.pre[b])
      /\ Dom!PredNum = postorder[fn.pre[b][p]]
  BY <1>1, HandInTurn
<1>3. /\ StoredIdoms(fn, dfn, doms, l) /\ DefinedAbove(doms, l, i)
      /\ Candidate(fn, dfn, doms, l, b, p, new_idom)
  BY <1>1 DEF IterInv, Iterates
<1> HIDE DEF l, b
<1>4. PICK o, n : o = p + 1 /\ n = Dom!PredNum
  OBVIOUS
<1>5. Candidate(fn, dfn, doms, l, b, o, new_idom')
  <2>1. CASE new_idom = -1
    <3>1. p = 1 /\ new_idom' = n
      BY <1>1, <1>3, <1>4, <2>1 DEF Candidate
    <3>2. n = postorder[fn.pre[b][1]]
      BY <1>2, <1>4, <3>1
    <3>3. Candidate(fn, dfn, doms, l, b, 2, n)
      BY <1>2, <3>2, FirstCandidate
    <3>4. o = 2
      BY <1>4, <3>1
    <3> QED BY <3>1, <3>3, <3>4
  <2>2. CASE new_idom # -1
    <3>1. doms[n] = -1 /\ new_idom' = new_idom /\ n = postorder[fn.pre[b][p]]
      BY <1>1, <1>2, <1>4, <2>2
    <3> QED BY <1>2, <1>3, <1>4, <2>2, <3>1, CandidateStays
  <2> QED BY <2>1, <2>2
<1>6. Iterates(fn, dfn, doms, l, "preds", i, o, new_idom', b1', b2')
  BY <1>3, <1>5 DEF Iterates, b
<1> QED BY <1>1, <1>4, <1>6 DEF IterInv, Stored, Underived, Goes, l

LEMMA IntersectIterates ==
  ASSUME AInv, Built, Structured(fn), IterInv, Dom!BeginIntersect
  PROVE  IterInv'
<1>1. /\ pc = "preds" /\ pc' = "intersect" /\ Goes /\ doms' = doms /\ i' = i /\ p' = p
      /\ i >= 0 /\ p <= Len(Dom!Preds) /\ new_idom # -1 /\ new_idom' = new_idom
      /\ doms[Dom!PredNum] # -1 /\ b1' = Dom!PredNum /\ b2' = new_idom
  BY DEF Dom!BeginIntersect, Dom!Intersect, Dom!search, Dom!result, Goes
<1> DEFINE l == Len(dfn)
           b == dfn[i + 1]
<1>2. /\ InTurn(fn, dfn, postorder, l, doms, i, b) /\ p \in 1..Len(fn.pre[b])
      /\ Dom!PredNum = postorder[fn.pre[b][p]]
  BY <1>1, HandInTurn
<1>3. /\ StoredIdoms(fn, dfn, doms, l) /\ DefinedAbove(doms, l, i)
      /\ Candidate(fn, dfn, doms, l, b, p, new_idom)
  BY <1>1 DEF IterInv, Iterates
<1> HIDE DEF l, b
<1>4. PICK n : n = Dom!PredNum
  OBVIOUS
<1>5. Finger(fn, dfn, doms, l, b, n, fn.pre[b][p])
  BY <1>1, <1>2, <1>4, PredecessorAt
<1>6. Finger(fn, dfn, doms, l, b, new_idom, dfn[new_idom + 1])
  <2>1. new_idom \in 0..(l - 1) /\ doms[new_idom] # -1 /\ AllAbove(fn, b, dfn[new_idom + 1])
    BY <1>1, <1>3 DEF Candidate
  <2>2. dfn[new_idom + 1] \in Reachable(fn) /\ Graph(fn)
    BY <1>2, <2>1, NumberingIs, InTurnIs DEF InTurn
  <2> QED BY <2>1, <2>2, DominatesItself DEF Finger
<1>7. Iterates(fn, dfn, doms, l, "intersect", i, p, new_idom, n, new_idom)
  BY <1>1, <1>2, <1>3, <1>5, <1>6 DEF Iterates, b
<1> QED BY <1>1, <1>4, <1>7 DEF IterInv, Stored, Underived, Goes, l

LEMMA FingerIterates ==
  ASSUME AInv, Built, Structured(fn), IterInv, Dom!MoveFinger
  PROVE  IterInv'
<1>1. /\ pc = "intersect" /\ pc' = "intersect" /\ UNCHANGED <<fn, dfn, idom>>
      /\ UNCHANGED <<doms, i, p, new_idom>>
      /\ \/ /\ b1 < b2 /\ b1' \in Dom!Reads(b1) /\ b2' = b2
            /\ outside' = (outside \/ b1 \notin Dom!Numbers)
         \/ /\ b2 < b1 /\ b2' \in Dom!Reads(b2) /\ b1' = b1
            /\ outside' = (outside \/ b2 \notin Dom!Numbers)
  BY DEF Dom!MoveFinger, Dom!search, Dom!result
<1> DEFINE l == Len(dfn)
           b == dfn[i + 1]
           y == fn.pre[b][p]
           z == dfn[new_idom + 1]
<1>2. /\ i >= 0 /\ new_idom # -1 /\ p \in 1..Len(fn.pre[b])
      /\ StoredIdoms(fn, dfn, doms, l) /\ DefinedAbove(doms, l, i)
      /\ Candidate(fn, dfn, doms, l, b, p, new_idom)
      /\ Finger(fn, dfn, doms, l, b, b1, y) /\ Finger(fn, dfn, doms, l, b, b2, z)
  BY <1>1 DEF IterInv, Iterates
<1>3. Numbering(fn, dfn, postorder, l)
  BY <1>1, IterNumbering DEF Later
<1>4. ~outside
  BY DEF IterInv
<1>5. \A n \in 0..(l - 1) : n \in Dom!Numbers /\ Dom!Reads(n) = {doms[n]}
  BY DEF Dom!Numbers, Dom!Reads, Dom!BbNum
<1>6. b1 \in 0..(l - 1) /\ b2 \in 0..(l - 1)
  BY <1>2 DEF Finger
<1> HIDE DEF l, b, y, z
<1>7. ~outside' /\ Finger(fn, dfn, doms, l, b, b1', y) /\ Finger(fn, dfn, doms, l, b, b2', z)
  <2>1. CASE b1 < b2 /\ b1' \in Dom!Reads(b1) /\ b2' = b2
             /\ outside' = (outside \/ b1 \notin Dom!Numbers)
    <3>1. PICK o : o = doms[b1] /\ b1' = o
      BY <1>5, <1>6, <2>1
    <3>2. Finger(fn, dfn, doms, l, b, o, y)
      BY <1>2, <1>3, <2>1, <3>1, FingerClimbs
    <3>3. Finger(fn, dfn, doms, l, b, b1', y)
      BY <3>1, <3>2
    <3>4. Finger(fn, dfn, doms, l, b, b2', z)
      BY <1>2, <2>1
    <3> QED BY <1>4, <1>5, <1>6, <2>1, <3>3, <3>4
  <2>2. CASE b2 < b1 /\ b2' \in Dom!Reads(b2) /\ b1' = b1
             /\ outside' = (outside \/ b2 \notin Dom!Numbers)
    <3>1. PICK o : o = doms[b2] /\ b2' = o
      BY <1>5, <1>6, <2>2
    <3>2. Finger(fn, dfn, doms, l, b, o, z)
      BY <1>2, <1>3, <2>2, <3>1, FingerClimbs
    <3>3. Finger(fn, dfn, doms, l, b, b2', z)
      BY <3>1, <3>2
    <3>4. Finger(fn, dfn, doms, l, b, b1', y)
      BY <1>2, <2>2
    <3> QED BY <1>4, <1>5, <1>6, <2>2, <3>3, <3>4
  <2> QED BY <1>1, <2>1, <2>2
<1>8. PICK e1, e2 : e1 = b1' /\ e2 = b2'
  OBVIOUS
<1>9. Finger(fn, dfn, doms, l, b, e1, y) /\ Finger(fn, dfn, doms, l, b, e2, z)
  BY <1>7, <1>8
<1>10. Iterates(fn, dfn, doms, l, "intersect", i, p, new_idom, e1, e2)
  BY <1>2, <1>9 DEF Iterates, b, y, z
<1>11. Iterates(fn', dfn', doms', Len(dfn'), pc', i', p', new_idom', b1', b2')
  BY <1>1, <1>8, <1>10 DEF l
<1> QED BY <1>1, <1>7, <1>11 DEF IterInv, Stored, Underived

LEMMA MeetIterates ==
  ASSUME AInv, Built, Structured(fn), IterInv, Dom!FingersMeet
  PROVE  IterInv'
<1>1. /\ pc = "intersect" /\ pc' = "preds" /\ Goes /\ UNCHANGED <<doms, i, b1, b2>>
      /\ b1 = b2 /\ new_idom' = b1 /\ p' = p + 1
  BY DEF Dom!FingersMeet, Dom!Meet, Dom!search, Dom!result, Goes
<1> DEFINE l == Len(dfn)
           b == dfn[i + 1]
           y == fn.pre[b][p]
           z == dfn[new_idom + 1]
<1>2. /\ i >= 0 /\ new_idom # -1 /\ p \in 1..Len(fn.pre[b])
      /\ StoredIdoms(fn, dfn, doms, l) /\ DefinedAbove(doms, l, i)
      /\ Candidate(fn, dfn, doms, l, b, p, new_idom)
      /\ Finger(fn, dfn, doms, l, b, b1, y) /\ Finger(fn, dfn, doms, l, b, b2, z)
  BY <1>1 DEF IterInv, Iterates
<1>3. InTurn(fn, dfn, postorder, l, doms, i, b)
  BY <1>1, <1>2, HandInTurn
<1> HIDE DEF l, b
<1>4. PICK o, n : o = p + 1 /\ n = b1
  OBVIOUS
<1>5. Finger(fn, dfn, doms, l, b, n, fn.pre[b][p])
      /\ Finger(fn, dfn, doms, l, b, n, dfn[new_idom + 1])
  BY <1>1, <1>2, <1>4
<1>6. Candidate(fn, dfn, doms, l, b, o, n)
  BY <1>2, <1>3, <1>4, <1>5, CandidateMeets
<1>7. Iterates(fn, dfn, doms, l, "preds", i, o, n, b1, b2)
  BY <1>2, <1>6 DEF Iterates, b
<1>8. Iterates(fn', dfn', doms', Len(dfn'), pc', i', p', new_idom', b1', b2')
  BY <1>1, <1>4, <1>7 DEF l, Goes
<1> QED BY <1>1, <1>8 DEF IterInv, Stored, Underived, Goes

(* SetDoms stores the immediate dominator of the block in hand.            *)
LEMMA SetIterates ==
  ASSUME AInv, Built, Structured(fn), IterInv, Dom!SetDoms
  PROVE  /\ IterInv'
         /\ \A n \in 0..(Len(dfn) - 1) : doms'[n] >= doms[n]
<1>1. /\ pc = "preds" /\ pc' = "preds" /\ Goes /\ i >= 0 /\ p > Len(Dom!Preds)
      /\ doms' = [doms EXCEPT ![i] = new_idom]
      /\ i' = i - 1 /\ p' = 1 /\ new_idom' = -1
  BY DEF Dom!SetDoms, Dom!BeginBlock, Dom!search, Dom!result, Goes
<1> DEFINE l == Len(dfn)
           b == dfn[i + 1]
<1>2. /\ InTurn(fn, dfn, postorder, l, doms, i, b) /\ p > Len(fn.pre[b])
  BY <1>1, HandInTurn
<1>3. Candidate(fn, dfn, doms, l, b, p, new_idom)
  BY <1>1 DEF IterInv, Iterates
<1> HIDE DEF l, b
<1>4. new_idom \in 0..(l - 1) /\ IsIdom(Dominance(fn), dfn[new_idom + 1], b)
  BY <1>2, <1>3, CandidateIsIdom
<1>5. PICK m, h : m = doms' /\ h = i - 1
  OBVIOUS
<1>6. /\ StoredIdoms(fn, dfn, m, l) /\ DefinedAbove(m, l, h)
      /\ \A n \in 0..(l - 1) : m[n] >= doms[n]
  <2>1. PICK j, n : j = i /\ n = new_idom
    OBVIOUS
  <2>2. /\ m = Put(doms, j, n) /\ h = j - 1
        /\ InTurn(fn, dfn, postorder, l, doms, j, b)
        /\ n \in 0..(l - 1) /\ IsIdom(Dominance(fn), dfn[n + 1], b)
    BY <1>1, <1>2, <1>4, <1>5, <2>1 DEF Put
  <2> QED BY <2>2, StoredKeeps
<1>7. Candidate(fn, dfn, m, l, dfn[h + 1], p', new_idom')
  BY <1>1, FreshCandidate
<1>8. Iterates(fn, dfn, m, l, "preds", h, p', new_idom', b1', b2')
  BY <1>6, <1>7 DEF Iterates
<1>9. Iterates(fn', dfn', doms', Len(dfn'), pc', i', p', new_idom', b1', b2')
  BY <1>1, <1>5, <1>8 DEF l, Goes
<1>10. IterInv'
  BY <1>1, <1>9 DEF IterInv, Stored, Underived, Goes
<1> QED BY <1>5, <1>6, <1>10 DEF l

LEMMA AgainIterates ==
  ASSUME AInv, Built, Structured(fn), IterInv, Dom!AnotherRound
  PROVE  IterInv'
<1>1. pc = "preds" /\ pc' = "round" /\ Goes /\ UNCHANGED doms
  BY DEF Dom!AnotherRound, Dom!search, Dom!fixpoint, Dom!result, Goes
<1>2. StoredIdoms(fn, dfn, doms, Len(dfn))
  BY <1>1 DEF IterInv, Iterates
<1>3. Iterates(fn', dfn', doms', Len(dfn'), pc', i', p', new_idom', b1', b2')
  BY <1>1, <1>2 DEF Iterates, Goes
<1> QED BY <1>1, <1>3 DEF IterInv, Stored, Underived, Goes

(* What the rounds leave is the map of the immediate dominators.           *)
LEMMA StoreIterates ==
  ASSUME AInv, Built, Structured(fn), IterInv, Dom!StoreIdom
  PROVE  IterInv'
<1> DEFINE l == Len(dfn)
<1>1. /\ pc = "preds" /\ pc' = "frontier" /\ UNCHANGED <<fn, dfn>> /\ i < 0
      /\ outside' = (outside \/ \E n \in 0..(l - 1) : doms[n] = -1)
  BY DEF Dom!StoreIdom, Dom!search, Dom!Numbers, Dom!BbNum
<1>2. /\ Numbering(fn, dfn, postorder, l) /\ StoredIdoms(fn, dfn, doms, l)
      /\ DefinedAbove(doms, l, i)
  BY <1>1, IterNumbering DEF IterInv, Iterates, Later
<1>3. \A n \in 0..(l - 1) : doms[n] # -1
  <2>1. i \in Int
    BY BoundsTyped DEF AInv, FingersOf
  <2>2. \A n \in 0..(l - 1) : i < n
    BY <1>1, <2>1
  <2> QED BY <1>2, <2>2 DEF DefinedAbove
<1>4. PICK wild \in Block \cup {NULL} : idom' = StoredMap(wild)
  BY StoreIdomIs
<1>5. Members(dfn) = Reachable(fn) /\ Reachable(fn) \subseteq Block
  <2>1. Members(fn.blocks) \subseteq Block /\ Graph(fn) /\ Reachable(fn) \subseteq Members(fn.blocks)
    BY GraphHere, EntryIn DEF Reachable
  <2> QED BY <1>2, <2>1 DEF Numbering, Ordered
<1>6. ASSUME NEW b \in Reachable(fn), b # Entry(fn)
      PROVE  IsIdom(Dominance(fn), idom'[b], b)
  <2> DEFINE n == postorder[b]
             o == doms[n]
  <2>1. /\ n \in 0..(l - 1) /\ dfn[n + 1] = b /\ l \in Nat \ {0}
        /\ postorder[Entry(fn)] = l - 1 /\ Entry(fn) \in Reachable(fn)
        /\ \A x \in Reachable(fn) : dfn[postorder[x] + 1] = x
    BY <1>2, NumberingIs
  <2>2. n # l - 1
    BY <1>6, <2>1
  <2> HIDE DEF n, l
  <2>3. n \in 0..(l - 2) /\ o # -1
    BY <1>3, <2>1, <2>2
  <2>4. IsIdom(Dominance(fn), dfn[o + 1], b)
    BY <1>2, <2>1, <2>3 DEF StoredIdoms
  <2>5. idom'[b] = dfn[o + 1]
    BY <1>4, <1>5, <2>3 DEF n, StoredMap
  <2> QED BY <2>4, <2>5
<1>7. ASSUME NEW b \in Block \cup {NULL}, b \notin Reachable(fn)
      PROVE  idom'[b] = NULL
  <2>1. idom'[b] = idom[b]
    BY <1>4, <1>5, <1>7 DEF StoredMap
  <2>2. idom = [x \in Block \cup {NULL} |-> NULL]
    BY <1>1 DEF IterInv, Stored, Underived
  <2> QED BY <2>1, <2>2
<1>8. IdomMap(fn, idom')
  BY <1>6, <1>7 DEF IdomMap
<1>9. ~outside'
  BY <1>1, <1>3 DEF IterInv
<1>10. Iterates(fn', dfn', doms', Len(dfn'), pc', i', p', new_idom', b1', b2')
  BY <1>1 DEF Iterates
<1> QED BY <1>1, <1>8, <1>9, <1>10 DEF IterInv, Stored, Underived

Derived == {"frontier", "runner", "done"}

LEMMA DerivedKeeps ==
  ASSUME AInv, Built, IterInv,
         \/ Dom!NextBlock \/ Dom!StartRunner \/ Dom!ClimbRunner \/ Dom!RunnerMeets
         \/ Dom!BuildTree
  PROVE  /\ IterInv' /\ pc \in Derived /\ pc' \in Derived
         /\ UNCHANGED <<fn, dfn, doms, outside, idom>>
<1>1. /\ pc \in Derived /\ pc' \in Derived
      /\ UNCHANGED <<fn, dfn, doms, outside, idom>>
  BY DEF Dom!NextBlock, Dom!StartRunner, Dom!ClimbRunner, Dom!Climb, Dom!RunnerMeets,
         Dom!BuildTree, Dom!Tree, Dom!search, Dom!fixpoint, Dom!result, Derived
<1>2. Iterates(fn', dfn', doms', Len(dfn'), pc', i', p', new_idom', b1', b2')
  BY <1>1 DEF Iterates, Derived
<1> QED BY <1>1, <1>2 DEF IterInv, Stored, Underived, Derived

-----------------------------------------------------------------------------
(* What create_idom guarantees.                                            *)

LEMMA IterKeeps ==
  ASSUME DeadJumps = FALSE, AInv, Built => Structured(fn), IterInv, [Next]_vars
  PROVE  IterInv'
<1>1. CASE Build
  <2>1. pc = "start" /\ pc' = "start" /\ UNCHANGED dvars
    BY <1>1, BuildGoesOn
  <2>2. dfn = << >> /\ dfn' = << >> /\ UNCHANGED <<outside, idom>>
    BY <2>1 DEF AInv, Looking, dvars
  <2> QED BY <2>1, <2>2, DescendStarts DEF IterInv, Iterates, Stored, Underived
<1>2. CASE UNCHANGED vars
  <2>1. UNCHANGED <<fn, pc, dfn, doms, outside, idom, i, p, new_idom, b1, b2>>
    BY <1>2 DEF vars, bvars, dvars
  <2> QED BY <2>1 DEF IterInv
<1>3. CASE Analyse
  <2>1. Built /\ Dom!DNext /\ Structured(fn)
    BY <1>3 DEF Analyse
  <2>2. pc = "start" => LivePredecessors(fn)
    BY <1>3 DEF Analyse, Analysed
  <2>3. CASE Dom!BeginSearch \/ Dom!VisitSuccessor \/ Dom!FinishBlock
    BY <2>1, <2>2, <2>3, SearchIterates
  <2>4. CASE Dom!NumberBlocks
    BY <2>1, <2>4, NumberIterates
  <2>5. CASE Dom!BeginRound \/ Dom!TakePredecessor \/ Dom!BeginIntersect
    BY <2>1, <2>5, RoundIterates, TakeIterates, IntersectIterates
  <2>6. CASE Dom!MoveFinger \/ Dom!FingersMeet \/ Dom!SetDoms
    BY <2>1, <2>6, FingerIterates, MeetIterates, SetIterates
  <2>7. CASE Dom!AnotherRound \/ Dom!StoreIdom
    BY <2>1, <2>7, AgainIterates, StoreIterates
  <2>8. CASE \/ Dom!NextBlock \/ Dom!StartRunner \/ Dom!ClimbRunner \/ Dom!RunnerMeets
             \/ Dom!BuildTree
    BY <2>1, <2>8, DerivedKeeps
  <2> QED BY <2>1, <2>3, <2>4, <2>5, <2>6, <2>7, <2>8 DEF Dom!DNext
<1> QED BY <1>1, <1>2, <1>3 DEF Next

LEMMA AnalysisStructured == Spec => [](Built => Structured(fn))
BY AnalysisLeavesTheFunction, BuiltStructured, PTL

LEMMA IterationInvariant == DeadJumps = FALSE /\ Spec => []IterInv
<1> SUFFICES ASSUME DeadJumps = FALSE PROVE Spec => []IterInv
  OBVIOUS
<1>1. AInv /\ (Built => Structured(fn)) /\ IterInv /\ [Next]_vars => IterInv'
  BY IterKeeps
<1> QED BY <1>1, IterBegins, AnalysisInvariant, AnalysisStructured, PTL DEF Spec

(* The comment of create_idom, "if doms[pred_num] is not undefined", holds *)
(* of every number that intersect follows and of every number that the     *)
(* last loop stores: the analysis never reads doms outside its bounds.     *)
THEOREM UndefinedNeverRead == DeadJumps = FALSE /\ Spec => []NoUndefinedRead
<1> SUFFICES ASSUME DeadJumps = FALSE PROVE Spec => []NoUndefinedRead
  OBVIOUS
<1>1. IterInv => NoUndefinedRead
  BY DEF IterInv, NoUndefinedRead, Dom!NoUndefinedRead
<1> QED BY <1>1, IterationInvariant, PTL

(* Between two numbers of a round, a dominator that is defined is a larger *)
(* number, and what is stored is at or below every block that really       *)
(* dominates: no finger of intersect has climbed past a common dominator.  *)
THEOREM FingersStayBelow == DeadJumps = FALSE /\ Spec => []NeverAboveTheIdom
<1> SUFFICES ASSUME DeadJumps = FALSE PROVE Spec => []NeverAboveTheIdom
  OBVIOUS
<1>1. AInv /\ (Built => Structured(fn)) /\ IterInv => NeverAboveTheIdom
  <2> SUFFICES ASSUME AInv, Built => Structured(fn), IterInv, pc = "preds"
               PROVE  /\ \A n \in 0..(Len(dfn) - 1) :
                           n < Len(dfn) - 1 /\ doms[n] # -1 => doms[n] > n
                      /\ \A d \in Strict(Dominance(fn)) :
                           doms[postorder[d[2]]] <= postorder[d[1]]
    BY SameOperators DEF NeverAboveTheIdom, Dom!NeverAboveTheIdom, Dom!Numbers, Dom!BbNum
  <2> DEFINE l == Len(dfn)
  <2>1. Numbering(fn, dfn, postorder, l) /\ StoredIdoms(fn, dfn, doms, l)
    BY IterNumbering DEF IterInv, Iterates, Later, AInv
  <2> HIDE DEF l
  <2>2. /\ l \in Nat \ {0} /\ Graph(fn)
        /\ \A b \in Reachable(fn) : postorder[b] \in 0..(l - 1) /\ dfn[postorder[b] + 1] = b
        /\ \A n \in 0..(l - 1) : dfn[n + 1] \in Reachable(fn) /\ postorder[dfn[n + 1]] = n
        /\ \A x, y : Dominates(fn, x, y) => postorder[y] <= postorder[x]
        /\ \A x, y : StrictlyDominates(fn, x, y) => postorder[y] < postorder[x]
    BY <2>1, NumberingIs
  <2>3. ASSUME NEW n \in 0..(l - 2), doms[n] # -1
        PROVE  /\ doms[n] \in 0..(l - 1) /\ doms[n] > n
               /\ \A s : StrictlyDominates(fn, s, dfn[n + 1]) => doms[n] <= postorder[s]
    <3> DEFINE o == doms[n]
    <3>1. n \in 0..(l - 1)
      BY <2>2
    <3>2. o \in -1..(l - 1)
      BY <2>1, <3>1 DEF StoredIdoms
    <3>3. IsIdom(Dominance(fn), dfn[o + 1], dfn[n + 1])
      BY <2>1, <2>3 DEF StoredIdoms
    <3> HIDE DEF o
    <3>4. o \in 0..(l - 1)
      BY <2>2, <2>3, <3>2 DEF o
    <3>5. /\ StrictlyDominates(fn, dfn[o + 1], dfn[n + 1])
          /\ \A s : StrictlyDominates(fn, s, dfn[n + 1]) => Dominates(fn, s, dfn[o + 1])
      BY <2>2, <3>3, IdomIs
    <3>6. postorder[dfn[o + 1]] = o /\ postorder[dfn[n + 1]] = n
      BY <2>2, <3>1, <3>4
    <3>7. n < o
      BY <2>2, <3>5, <3>6
    <3>8. \A s : StrictlyDominates(fn, s, dfn[n + 1]) => o <= postorder[s]
      BY <2>2, <3>5, <3>6
    <3>9. o > n
      BY <2>2, <3>1, <3>4, <3>7
    <3> QED BY <3>4, <3>8, <3>9 DEF o
  <2>4. ASSUME NEW n \in 0..(l - 1), n < l - 1, doms[n] # -1 PROVE doms[n] > n
    <3>1. n \in 0..(l - 2)
      BY <2>2, <2>4
    <3> QED BY <2>3, <2>4, <3>1
  <2>5. ASSUME NEW d \in Strict(Dominance(fn)) PROVE doms[postorder[d[2]]] <= postorder[d[1]]
    <3>1. PICK x, y : d = <<x, y>> /\ Dominates(fn, x, y)
      BY <2>2, <2>5, DominancePairs DEF Strict
    <3>2. d[1] = x /\ d[2] = y
      BY <3>1
    <3>3. StrictlyDominates(fn, x, y)
      BY <2>5, <3>1, <3>2 DEF Strict, StrictlyDominates
    <3>4. x \in Reachable(fn) /\ y \in Reachable(fn)
      BY <3>1 DEF Dominates
    <3> DEFINE n == postorder[y]
               k == postorder[x]
    <3>5. n \in 0..(l - 1) /\ k \in 0..(l - 1) /\ n < k /\ dfn[n + 1] = y
      BY <2>2, <3>3, <3>4
    <3> HIDE DEF n, k
    <3>6. n \in 0..(l - 2)
      BY <2>2, <3>5
    <3>7. doms[n] = -1 => doms[n] <= k
      BY <2>2, <3>5
    <3>8. doms[n] # -1 => doms[n] <= k
      BY <2>3, <3>3, <3>5, <3>6 DEF k
    <3> QED BY <3>2, <3>7, <3>8 DEF n, k
  <2> QED BY <2>4, <2>5 DEF l
<1> QED BY <1>1, IterationInvariant, AnalysisInvariant, AnalysisStructured, PTL

(* A dominator once found only moves up the tree, which is why the loop of *)
(* create_idom ends.                                                       *)
THEOREM DominatorsOnlyRise == DeadJumps = FALSE /\ Spec => DomsOnlyRise
<1> SUFFICES ASSUME DeadJumps = FALSE PROVE Spec => DomsOnlyRise
  OBVIOUS
<1> DEFINE Rise == pc = "preds" => \A n \in 0..(Len(dfn) - 1) : doms'[n] >= doms[n]
<1>1. ASSUME AInv, Built => Structured(fn), IterInv, [Next]_vars
      PROVE  [Rise]_<<pc, doms>>
  <2>1. CASE Build \/ UNCHANGED vars
    <3>1. UNCHANGED dvars
      BY <1>1, <2>1 DEF Build, vars
    <3> QED BY <3>1 DEF dvars
  <2>2. CASE Analyse
    <3> SUFFICES ASSUME pc = "preds" PROVE \A n \in 0..(Len(dfn) - 1) : doms'[n] >= doms[n]
      OBVIOUS
    <3>1. Built /\ Dom!DNext /\ Structured(fn) /\ pc \in Later
      BY <1>1, <2>2 DEF Analyse, Later
    <3>2. CASE UNCHANGED doms
      <4> DEFINE l == Len(dfn)
      <4>1. l \in Nat \ {0} /\ doms \in [0..(l - 1) -> -1..(l - 1)]
        BY <1>1, <3>1, IterNumbering
      <4> HIDE DEF l
      <4>2. \A n \in 0..(l - 1) : doms[n] >= doms[n]
        BY <4>1
      <4> QED BY <3>2, <4>2 DEF l
    <3>3. CASE Dom!SetDoms
      BY <1>1, <3>1, <3>3, SetIterates
    <3>4. CASE ~Dom!SetDoms
      <4>1. UNCHANGED doms
        BY <3>1, <3>4
           DEF Dom!DNext, Dom!BeginSearch, Dom!VisitSuccessor, Dom!FinishBlock, Dom!Finish,
             Dom!NumberBlocks, Dom!BeginRound, Dom!TakePredecessor, Dom!BeginIntersect,
             Dom!Intersect, Dom!MoveFinger, Dom!FingersMeet, Dom!Meet, Dom!AnotherRound,
             Dom!StoreIdom, Dom!NextBlock, Dom!StartRunner, Dom!ClimbRunner, Dom!Climb,
             Dom!RunnerMeets, Dom!BuildTree, Dom!Tree, Dom!fixpoint
      <4> QED BY <3>2, <4>1
    <3> QED BY <3>3, <3>4
  <2> QED BY <1>1, <2>1, <2>2 DEF Next
<1>2. AInv /\ (Built => Structured(fn)) /\ IterInv /\ [Next]_vars => [Rise]_<<pc, doms>>
  BY <1>1
<1>3. Spec => [][Rise]_<<pc, doms>>
  BY <1>2, IterationInvariant, AnalysisInvariant, AnalysisStructured, PTL DEF Spec
<1> QED BY <1>3 DEF DomsOnlyRise, Dom!DomsOnlyRise, Dom!Numbers, Dom!BbNum

(* create_idom computes the immediate dominators of Lab4.md, and leaves    *)
(* the blocks that the entry does not reach without one.                   *)
THEOREM IdomsAreImmediate == DeadJumps = FALSE /\ Spec => []IdomCorrect
<1> SUFFICES ASSUME DeadJumps = FALSE PROVE Spec => []IdomCorrect
  OBVIOUS
<1>1. AInv /\ IterInv => IdomCorrect
  <2> SUFFICES ASSUME AInv, IterInv, pc = "done",
                      NEW b \in Members(fn.blocks) \ {Entry(fn)}
               PROVE  IF b \in Reachable(fn) THEN IsIdom(Dominance(fn), idom[b], b)
                                             ELSE idom[b] = NULL
    BY SameOperators DEF IdomCorrect, Dom!IdomCorrect, Dom!IsIdom, IsIdom
  <2>1. IdomMap(fn, idom) /\ Members(fn.blocks) \subseteq Block
    BY GraphHere DEF AInv, IterInv, Stored, Underived
  <2> QED BY <2>1 DEF IdomMap
<1> QED BY <1>1, IterationInvariant, AnalysisInvariant, PTL

-----------------------------------------------------------------------------
(* The frontiers: from every predecessor of a join a runner climbs to the  *)
(* immediate dominator of the join.                                        *)

(* What puts y in the frontier of x: the predecessor a of y.               *)
Tells(f, x, y, a) == Dominates(f, x, a) /\ ~StrictlyDominates(f, x, y)

(* The frontiers hold nothing else, and of the joins what the predecessors *)
(* before the position have told: those of the blocks before the n-th, and *)
(* the first m of its own.                                                 *)
OnlyTold(f, F) ==
    \A x \in Reachable(f) : \A y \in F[x] :
        y \in Members(f.blocks) /\ \E a \in Members(f.pre[y]) : Tells(f, x, y, a)

IsPassed(n, m, j, k) == j < n \/ (j = n /\ k <= m)

Gathered(f, F, n, m) ==
    \A x \in Reachable(f) : \A j \in 1..Len(f.blocks) : \A k \in 1..Len(f.pre[f.blocks[j]]) :
        /\ Len(f.pre[f.blocks[j]]) >= 2 /\ IsPassed(n, m, j, k)
        /\ Tells(f, x, f.blocks[j], f.pre[f.blocks[j]][k])
        => f.blocks[j] \in F[x]

(* The runner is on its way from the predecessor a of y up to the          *)
(* immediate dominator of y, and what is still to be told is above it.     *)
Running(f, F, y, a, r) ==
    /\ y \in Members(f.blocks) /\ a \in Members(f.pre[y])
    /\ IF y \in Reachable(f) THEN Dominates(f, r, a) /\ AllAbove(f, y, r)
                             ELSE r \notin Reachable(f)
    /\ \A x \in Reachable(f) : Tells(f, x, y, a) => y \in F[x] \/ Dominates(f, x, r)

LEMMA JoinIsNoEntry ==
  ASSUME NEW f, FlowGraph(f), NEW y \in Members(f.blocks), NEW a \in Members(f.pre[y])
  PROVE  /\ y # Entry(f) /\ Step(f, a, y) /\ a \in Members(f.blocks)
         /\ a \in Reachable(f) <=> y \in Reachable(f)
<1>1. y # Entry(f)
  BY MembersOfEmpty DEF FlowGraph
<1>2. Step(f, a, y) /\ a \in Members(f.blocks)
  BY DEF FlowGraph, Mirrored
<1>3. a \in Reachable(f) => y \in Reachable(f)
  <2>1. Graph(f) /\ y \notin {}
    BY DEF FlowGraph
  <2> QED BY <1>2, <2>1, ReachClosed DEF Reachable, Step
<1>4. y \in Reachable(f) => a \in Reachable(f)
  BY DEF FlowGraph
<1> QED BY <1>1, <1>2, <1>3, <1>4

LEMMA RunnerStarts ==
  ASSUME NEW f, FlowGraph(f), NEW F, NEW y \in Members(f.blocks), NEW a \in Members(f.pre[y])
  PROVE  Running(f, F, y, a, a)
<1>1. Step(f, a, y) /\ (a \in Reachable(f) <=> y \in Reachable(f)) /\ Graph(f)
  BY JoinIsNoEntry DEF FlowGraph
<1>2. y \in Reachable(f) => Dominates(f, a, a) /\ AllAbove(f, y, a)
  BY <1>1, DominatesItself, DominatesPredecessor DEF AllAbove
<1> QED BY <1>1, <1>2 DEF Running, Tells

(* Until the runner meets the immediate dominator of y it does not         *)
(* strictly dominate y.                                                    *)
LEMMA RunnerBelow ==
  ASSUME NEW f, FlowGraph(f), NEW F, NEW y, NEW a, NEW r, Running(f, F, y, a, r),
         y \in Reachable(f), NEW above, IdomMap(f, above), Members(f.blocks) \subseteq Block,
         r # above[y]
  PROVE  r \in Reachable(f) /\ ~StrictlyDominates(f, r, y) /\ r # Entry(f)
<1>1. Graph(f) /\ y \in Members(f.blocks) /\ y # Entry(f) /\ Dominates(f, r, a) /\ AllAbove(f, y, r)
  BY JoinIsNoEntry DEF Running, FlowGraph
<1>2. IsIdom(Dominance(f), above[y], y)
  BY <1>1 DEF IdomMap
<1>3. /\ StrictlyDominates(f, above[y], y)
      /\ \A d : StrictlyDominates(f, d, y) => Dominates(f, d, above[y])
  BY <1>1, <1>2, IdomIs
<1>4. Dominates(f, above[y], r)
  BY <1>1, <1>3 DEF AllAbove
<1>5. ~StrictlyDominates(f, r, y)
  BY <1>1, <1>3, <1>4, DominatesOneWay
<1>6. Dominates(f, Entry(f), y)
  BY <1>1, EntryDominates
<1>7. r # Entry(f)
  BY <1>1, <1>5, <1>6 DEF StrictlyDominates
<1>8. r \in Reachable(f)
  BY <1>1 DEF Dominates
<1> QED BY <1>5, <1>7, <1>8

(* The frontiers after a step of the runner.                               *)
Wider(F, r, y) == [F EXCEPT ![r] = @ \cup {y}]

LEMMA WiderIs ==
  ASSUME NEW S, NEW T, NEW F \in [S -> T], NEW r \in S, NEW y, NEW G, G = Wider(F, r, y)
  PROVE  /\ \A x \in S : F[x] \subseteq G[x] /\ \A z \in G[x] : z \in F[x] \/ (x = r /\ z = y)
         /\ y \in G[r]
<1>1. \A x \in S : G[x] = IF x = r THEN F[x] \cup {y} ELSE F[x]
  BY DEF Wider
<1> QED BY <1>1

LEMMA RunnerClimbs ==
  ASSUME NEW f, FlowGraph(f), NEW F, NEW y, NEW a, NEW r, Running(f, F, y, a, r),
         NEW above, IdomMap(f, above), Members(f.blocks) \subseteq Block,
         r # above[y], OnlyTold(f, F), NEW T,
         F \in [Block \cup {NULL} -> T], r \in Block \cup {NULL},
         NEW G, G = Wider(F, r, y), NEW o, o = above[r]
  PROVE  OnlyTold(f, G) /\ Running(f, G, y, a, o)
<1>1. /\ \A x \in Block \cup {NULL} :
           F[x] \subseteq G[x] /\ \A z \in G[x] : z \in F[x] \/ (x = r /\ z = y)
      /\ y \in G[r]
  <2> DEFINE S == Block \cup {NULL}
  <2>1. F \in [S -> T] /\ r \in S
    OBVIOUS
  <2> HIDE DEF S
  <2>2. /\ \A x \in S : F[x] \subseteq G[x] /\ \A z \in G[x] : z \in F[x] \/ (x = r /\ z = y)
        /\ y \in G[r]
    BY <2>1, WiderIs
  <2> QED BY <2>2 DEF S
<1>2. /\ Graph(f) /\ y \in Members(f.blocks) /\ a \in Members(f.pre[y])
      /\ Reachable(f) \subseteq Block
  BY EntryIn DEF Running, FlowGraph, Reachable
<1>3. \A x \in Reachable(f) : Tells(f, x, y, a) => y \in F[x] \/ Dominates(f, x, r)
  BY DEF Running
<1>4. CASE y \in Reachable(f)
  <2>1. r \in Reachable(f) /\ ~StrictlyDominates(f, r, y) /\ r # Entry(f)
    BY <1>4, RunnerBelow
  <2>2. Dominates(f, r, a) /\ AllAbove(f, y, r)
    BY <1>4 DEF Running
  <2>3. Tells(f, r, y, a)
    BY <2>1, <2>2 DEF Tells
  <2>4. OnlyTold(f, G)
    <3> SUFFICES ASSUME NEW x \in Reachable(f), NEW z \in G[x]
                 PROVE  z \in Members(f.blocks) /\ \E e \in Members(f.pre[z]) : Tells(f, x, z, e)
      BY DEF OnlyTold
    <3>1. CASE z \in F[x]
      BY <3>1 DEF OnlyTold
    <3>2. CASE x = r /\ z = y
      BY <1>2, <2>3, <3>2
    <3> QED BY <1>1, <1>2, <3>1, <3>2
  <2>5. IsIdom(Dominance(f), o, r)
    BY <1>2, <2>1 DEF IdomMap
  <2>6. StrictlyDominates(f, o, r) /\ \A s : StrictlyDominates(f, s, r) => Dominates(f, s, o)
    BY <1>2, <2>5, IdomIs
  <2>7. Dominates(f, o, a)
    BY <1>2, <2>2, <2>6, DominatesThrough DEF StrictlyDominates
  <2>8. AllAbove(f, y, o)
    <3> SUFFICES ASSUME NEW s, StrictlyDominates(f, s, y) PROVE Dominates(f, s, o)
      BY DEF AllAbove
    <3>1. Dominates(f, s, r) /\ s # r
      BY <2>1, <2>2 DEF AllAbove
    <3> QED BY <2>6, <3>1 DEF StrictlyDominates
  <2>9. ASSUME NEW x \in Reachable(f), Tells(f, x, y, a) PROVE y \in G[x] \/ Dominates(f, x, o)
    <3>1. CASE y \in F[x]
      BY <1>1, <1>2, <3>1
    <3>2. CASE x = r
      BY <1>1, <3>2
    <3>3. CASE Dominates(f, x, r) /\ x # r
      BY <2>6, <3>3 DEF StrictlyDominates
    <3> QED BY <1>3, <2>9, <3>1, <3>2, <3>3
  <2> QED BY <1>2, <1>4, <2>4, <2>7, <2>8, <2>9 DEF Running
<1>5. CASE y \notin Reachable(f)
  <2>1. r \notin Reachable(f)
    BY <1>5 DEF Running
  <2>2. o = NULL
    BY <2>1 DEF IdomMap
  <2>3. o \notin Reachable(f)
    BY <1>2, <2>2, NullAssumption
  <2>4. \A x \in Reachable(f) : \A z \in G[x] : z \in F[x]
    BY <1>1, <1>2, <2>1
  <2>5. OnlyTold(f, G)
    BY <2>4 DEF OnlyTold
  <2>6. ASSUME NEW x \in Reachable(f), Tells(f, x, y, a) PROVE y \in G[x]
    <3>1. ~Dominates(f, x, r)
      BY <2>1 DEF Dominates
    <3> QED BY <1>1, <1>2, <1>3, <2>6, <3>1
  <2> QED BY <1>2, <1>5, <2>3, <2>5, <2>6 DEF Running
<1> QED BY <1>4, <1>5

LEMMA RunnerEnds ==
  ASSUME NEW f, FlowGraph(f), NEW F, NEW y, NEW a, NEW r, Running(f, F, y, a, r),
         NEW above, IdomMap(f, above), Members(f.blocks) \subseteq Block, r = above[y]
  PROVE  \A x \in Reachable(f) : Tells(f, x, y, a) => y \in F[x]
<1> SUFFICES ASSUME NEW x \in Reachable(f), Tells(f, x, y, a), Dominates(f, x, r) PROVE FALSE
  BY DEF Running
<1>1. Graph(f) /\ y \in Members(f.blocks) /\ a \in Members(f.pre[y]) /\ y # Entry(f)
  BY JoinIsNoEntry DEF Running, FlowGraph
<1>2. CASE y \in Reachable(f)
  <2>1. IsIdom(Dominance(f), r, y)
    BY <1>1, <1>2 DEF IdomMap
  <2>2. StrictlyDominates(f, r, y)
    BY <1>1, <2>1, IdomIs
  <2>3. Dominates(f, x, y)
    BY <1>1, <2>2, DominatesThrough DEF StrictlyDominates
  <2>4. x # y
    BY <1>1, <2>2, DominatesOneWay DEF StrictlyDominates
  <2> QED BY <2>3, <2>4 DEF Tells, StrictlyDominates
<1>3. CASE y \notin Reachable(f)
  BY <1>3 DEF Running, Dominates
<1> QED BY <1>2, <1>3

(* Advancing the position.                                                 *)
LEMMA GatheredNothing ==
  ASSUME NEW f, NEW F, NEW n, n = 1, NEW m, m = 0, Graph(f),
         \A b \in Members(f.blocks) : Len(f.pre[b]) \in Nat
  PROVE  Gathered(f, F, n, m)
<1>1. ASSUME NEW j \in 1..Len(f.blocks), NEW k \in 1..Len(f.pre[f.blocks[j]]),
             IsPassed(n, m, j, k)
      PROVE  FALSE
  <2>1. Len(f.blocks) \in Nat /\ f.blocks[j] \in Members(f.blocks)
    BY <1>1 DEF Graph, Members
  <2> DEFINE l == Len(f.pre[f.blocks[j]])
  <2>2. l \in Nat /\ k \in 1..l
    BY <2>1
  <2> HIDE DEF l
  <2>3. k \in Nat \ {0}
    BY <2>2
  <2> DEFINE h == Len(f.blocks)
  <2>4. h \in Nat /\ j \in 1..h
    BY <2>1
  <2> HIDE DEF h
  <2>5. j \in Nat \ {0}
    BY <2>4
  <2> QED BY <1>1, <2>3, <2>5 DEF IsPassed
<1> QED BY <1>1 DEF Gathered

LEMMA GatheredMore ==
  ASSUME NEW f, NEW F, NEW n, NEW m, Gathered(f, F, n, m),
         NEW G, \A x \in Reachable(f) : F[x] \subseteq G[x]
  PROVE  Gathered(f, G, n, m)
BY DEF Gathered

LEMMA GatheredPredecessor ==
  ASSUME NEW f, NEW F, NEW n, NEW m \in Nat, NEW o, m = o + 1, o \in Nat, Gathered(f, F, n, o),
         NEW y, y = f.blocks[n], NEW a, a = f.pre[y][m],
         \A x \in Reachable(f) : Tells(f, x, y, a) => y \in F[x],
         \A b \in Members(f.blocks) : Len(f.pre[b]) \in Nat
  PROVE  Gathered(f, F, n, m)
<1>1. ASSUME NEW x \in Reachable(f), NEW j \in 1..Len(f.blocks),
             NEW k \in 1..Len(f.pre[f.blocks[j]]),
             Len(f.pre[f.blocks[j]]) >= 2, IsPassed(n, m, j, k),
             Tells(f, x, f.blocks[j], f.pre[f.blocks[j]][k])
      PROVE  f.blocks[j] \in F[x]
  <2>1. f.blocks[j] \in Members(f.blocks)
    BY DEF Members
  <2> DEFINE l == Len(f.pre[f.blocks[j]])
  <2>2. l \in Nat /\ k \in 1..l
    BY <2>1
  <2> HIDE DEF l
  <2>3. k \in Int
    BY <2>2
  <2>4. IsPassed(n, o, j, k) \/ (j = n /\ k = m)
    BY <1>1, <2>3 DEF IsPassed
  <2> QED BY <1>1, <2>4 DEF Gathered
<1> QED BY <1>1 DEF Gathered

LEMMA GatheredBlock ==
  ASSUME NEW f, NEW F, NEW n \in Nat, NEW m \in Nat, Gathered(f, F, n, m), Graph(f),
         \A b \in Members(f.blocks) : Len(f.pre[b]) \in Nat,
         NEW l, l = Len(f.pre[f.blocks[n]]), l >= 2 => m = l,
         NEW o, o = n + 1
  PROVE  Gathered(f, F, o, 0)
<1>1. ASSUME NEW x \in Reachable(f), NEW j \in 1..Len(f.blocks),
             NEW k \in 1..Len(f.pre[f.blocks[j]]),
             Len(f.pre[f.blocks[j]]) >= 2, IsPassed(o, 0, j, k),
             Tells(f, x, f.blocks[j], f.pre[f.blocks[j]][k])
      PROVE  f.blocks[j] \in F[x]
  <2>0. f.blocks[j] \in Members(f.blocks)
    BY DEF Members
  <2>1. Len(f.blocks) \in Nat /\ f.blocks[j] \in Members(f.blocks)
    BY <2>0 DEF Graph
  <2> DEFINE e == Len(f.pre[f.blocks[j]])
             h == Len(f.blocks)
  <2>2. e \in Nat /\ k \in 1..e /\ h \in Nat /\ j \in 1..h /\ e >= 2 /\ (j = n => e = l)
    BY <1>1, <2>1
  <2> HIDE DEF e, h
  <2>3. k \in Nat \ {0} /\ j \in Nat /\ k <= e
    BY <2>2
  <2>4. j < n \/ j = n
    BY <1>1, <2>3 DEF IsPassed
  <2>5. IsPassed(n, m, j, k)
    BY <2>2, <2>3, <2>4 DEF IsPassed
  <2> QED BY <1>1, <2>5 DEF Gathered
<1> QED BY <1>1 DEF Gathered

(* The invariant of create_dominance_frontier, phase by phase.             *)
Deduces(f, phase, F, n, m, r) ==
    /\ phase \in Underived => F = [b \in Block \cup {NULL} |-> {}] /\ n = 1 /\ m = 0
    /\ phase \in Derived => OnlyTold(f, F)
    /\ phase \in {"frontier", "done"} => Gathered(f, F, n, m)
    /\ phase = "done" => n > Len(f.blocks)
    /\ phase = "runner" =>
         /\ m \in 1..Len(f.pre[f.blocks[n]]) /\ Gathered(f, F, n, m - 1)
         /\ Running(f, F, f.blocks[n], f.pre[f.blocks[n]][m], r)

FrontInv == Deduces(fn, pc, dom_frontier, bi, q, runner)

Positions(f) ==
    /\ FlowGraph(f) /\ Graph(f) /\ Members(f.blocks) \subseteq Block /\ Len(f.blocks) \in Nat
    /\ \A b \in Members(f.blocks) : Len(f.pre[b]) \in Nat
    /\ \A n \in Nat \ {0} : n <= Len(f.blocks) => f.blocks[n] \in Members(f.blocks)

LEMMA PositionsHere ==
  ASSUME AInv, Built, Structured(fn), IterInv, pc # "start"
  PROVE  /\ Positions(fn) /\ bi \in Nat \ {0} /\ q \in Nat /\ runner \in Block \cup {NULL}
         /\ dom_frontier \in [Block \cup {NULL} -> SUBSET Block]
<1>1. FlowGraph(fn) /\ Graph(fn) /\ Members(fn.blocks) \subseteq Block
      /\ fn.blocks \in Seq(Block) /\ GoodFunction(fn)
  BY BuiltFlowGraph, GraphHere DEF IterInv
<1>2. Len(fn.blocks) \in Nat
  BY <1>1
<1>3. \A b \in Members(fn.blocks) : Len(fn.pre[b]) \in Nat
  BY <1>1 DEF FlowGraph, Mirrored
<1>4. \A n \in Nat \ {0} : n <= Len(fn.blocks) => fn.blocks[n] \in Members(fn.blocks)
  <2> DEFINE l == Len(fn.blocks)
  <2>1. l \in Nat
    BY <1>2
  <2>2. \A n \in 1..l : fn.blocks[n] \in Members(fn.blocks)
    BY DEF Members
  <2> HIDE DEF l
  <2>3. \A n \in Nat \ {0} : n <= l => n \in 1..l
    BY <2>1
  <2> QED BY <2>2, <2>3 DEF l
<1> QED BY <1>1, <1>2, <1>3, <1>4 DEF Positions, AInv, MapsOf, WalkOf

LEMMA StoreGathers ==
  ASSUME AInv, Built, Structured(fn), IterInv, FrontInv, Dom!StoreIdom
  PROVE  FrontInv'
<1>1. /\ pc = "preds" /\ pc' = "frontier" /\ UNCHANGED <<fn, dom_frontier, bi, q>>
  BY DEF Dom!StoreIdom, Dom!search, Dom!walk
<1>2. Positions(fn)
  BY <1>1, PositionsHere
<1>3. dom_frontier = [b \in Block \cup {NULL} |-> {}] /\ bi = 1 /\ q = 0
  BY <1>1 DEF FrontInv, Deduces, Underived
<1>4. OnlyTold(fn, dom_frontier)
  <2>1. Reachable(fn) \subseteq Block
    BY <1>2, EntryIn DEF Positions, Reachable
  <2>2. \A x \in Reachable(fn) : dom_frontier[x] = {}
    BY <1>3, <2>1
  <2> QED BY <2>2 DEF OnlyTold
<1>5. Gathered(fn, dom_frontier, bi, q)
  BY <1>2, <1>3, GatheredNothing DEF Positions
<1> QED BY <1>1, <1>4, <1>5 DEF FrontInv, Deduces, Underived, Derived

LEMMA NextGathers ==
  ASSUME AInv, Built, Structured(fn), IterInv, FrontInv, Dom!NextBlock
  PROVE  FrontInv'
<1> DEFINE m == Len(fn.pre[fn.blocks[bi]])
<1>1. /\ pc = "frontier" /\ pc' = "frontier" /\ UNCHANGED <<fn, dom_frontier>>
      /\ m >= 2 => q = m
      /\ bi' = bi + 1 /\ q' = 0
  BY DEF Dom!NextBlock, Dom!search, Dom!result, Dom!IsJoin, Dom!FrontierBlock
<1>2. Positions(fn) /\ bi \in Nat /\ q \in Nat
  BY <1>1, PositionsHere
<1>3. OnlyTold(fn, dom_frontier) /\ Gathered(fn, dom_frontier, bi, q)
  BY <1>1 DEF FrontInv, Deduces, Derived
<1>4. PICK o, l : o = bi + 1 /\ l = m
  OBVIOUS
<1>5. Gathered(fn, dom_frontier, o, 0)
  BY <1>1, <1>2, <1>3, <1>4, GatheredBlock DEF Positions
<1>6. Gathered(fn', dom_frontier', bi', q') /\ OnlyTold(fn', dom_frontier')
  BY <1>1, <1>3, <1>4, <1>5
<1> QED BY <1>1, <1>6 DEF FrontInv, Deduces, Underived, Derived

LEMMA StartGathers ==
  ASSUME AInv, Built, Structured(fn), IterInv, FrontInv, Dom!StartRunner
  PROVE  FrontInv'
<1> DEFINE y == fn.blocks[bi]
<1>1. /\ pc = "frontier" /\ pc' = "runner" /\ UNCHANGED <<fn, dom_frontier, bi>>
      /\ bi <= Len(fn.blocks) /\ q < Len(fn.pre[y])
      /\ q' = q + 1 /\ runner' = fn.pre[y][q + 1]
  BY DEF Dom!StartRunner, Dom!search, Dom!result, Dom!FrontierBlock
<1>2. Positions(fn) /\ bi \in Nat \ {0} /\ q \in Nat
  BY <1>1, PositionsHere
<1>3. y \in Members(fn.blocks) /\ Len(fn.pre[y]) \in Nat /\ FlowGraph(fn)
  BY <1>1, <1>2 DEF Positions
<1>4. PICK o, l : o = q + 1 /\ l = Len(fn.pre[y])
  OBVIOUS
<1>5. o \in 1..l /\ o - 1 = q
  BY <1>1, <1>2, <1>3, <1>4
<1>6. fn.pre[y][o] \in Members(fn.pre[y])
  BY <1>4, <1>5 DEF Members
<1>7. PICK a : a = fn.pre[y][o]
  OBVIOUS
<1> HIDE DEF y
<1>8. Running(fn, dom_frontier, y, a, a)
  BY <1>3, <1>6, <1>7, RunnerStarts
<1>9. OnlyTold(fn, dom_frontier) /\ Gathered(fn, dom_frontier, bi, q)
  BY <1>1 DEF FrontInv, Deduces, Derived
<1>10. q' = o /\ runner' = a /\ q' \in 1..Len(fn.pre[y])
  BY <1>1, <1>4, <1>5, <1>7
<1>11. /\ q' \in 1..Len(fn'.pre[fn'.blocks[bi']]) /\ Gathered(fn', dom_frontier', bi', q' - 1)
       /\ Running(fn', dom_frontier', fn'.blocks[bi'], fn'.pre[fn'.blocks[bi']][q'], runner')
  BY <1>1, <1>5, <1>7, <1>8, <1>9, <1>10 DEF y
<1> QED BY <1>1, <1>9, <1>11 DEF FrontInv, Deduces, Underived, Derived

LEMMA ClimbGathers ==
  ASSUME AInv, Built, Structured(fn), IterInv, FrontInv, Dom!ClimbRunner
  PROVE  FrontInv'
<1> DEFINE y == fn.blocks[bi]
           a == fn.pre[y][q]
<1>1. /\ pc = "runner" /\ pc' = "runner" /\ UNCHANGED <<fn, bi, q, idom>>
      /\ runner # idom[y] /\ runner' = idom[runner]
      /\ dom_frontier' = [dom_frontier EXCEPT ![runner] = @ \cup {y}]
  BY DEF Dom!ClimbRunner, Dom!Climb, Dom!search, Dom!FrontierBlock
<1>2. /\ Positions(fn) /\ runner \in Block \cup {NULL}
      /\ dom_frontier \in [Block \cup {NULL} -> SUBSET Block]
  BY <1>1, PositionsHere
<1>3. /\ OnlyTold(fn, dom_frontier) /\ Gathered(fn, dom_frontier, bi, q - 1)
      /\ q \in 1..Len(fn.pre[y]) /\ Running(fn, dom_frontier, y, a, runner)
  BY <1>1 DEF FrontInv, Deduces, Derived
<1>4. IdomMap(fn, idom)
  BY <1>1 DEF IterInv, Stored, Underived
<1> HIDE DEF y, a
<1>5. PICK G, o, r : G = dom_frontier' /\ o = runner' /\ r = runner
  OBVIOUS
<1>6. G = Wider(dom_frontier, r, y) /\ o = idom[r]
  BY <1>1, <1>5 DEF Wider
<1>7. OnlyTold(fn, G) /\ Running(fn, G, y, a, o)
  <2>1. PICK T : T = SUBSET Block
    OBVIOUS
  <2>2. dom_frontier \in [Block \cup {NULL} -> T] /\ r \in Block \cup {NULL}
    BY <1>2, <1>5, <2>1
  <2>3. Running(fn, dom_frontier, y, a, r) /\ r # idom[y] /\ OnlyTold(fn, dom_frontier)
    BY <1>1, <1>3, <1>5
  <2>4. FlowGraph(fn) /\ Members(fn.blocks) \subseteq Block
    BY <1>2 DEF Positions
  <2> QED BY <1>4, <1>6, <2>2, <2>3, <2>4, RunnerClimbs
<1>8. \A x \in Block \cup {NULL} : dom_frontier[x] \subseteq G[x]
  <2> DEFINE S == Block \cup {NULL}
  <2>0. PICK T : T = SUBSET Block
    OBVIOUS
  <2>1. dom_frontier \in [S -> T] /\ r \in S
    BY <1>2, <1>5, <2>0
  <2> HIDE DEF S
  <2>2. /\ \A x \in S : dom_frontier[x] \subseteq G[x]
                          /\ \A z \in G[x] : z \in dom_frontier[x] \/ (x = r /\ z = y)
        /\ y \in G[r]
    <3>1. PICK F : F = dom_frontier
      OBVIOUS
    <3> QED BY <1>6, <2>1, <3>1, WiderIs
  <2> QED BY <2>2 DEF S
<1>9. Reachable(fn) \subseteq Block
  BY <1>2, EntryIn DEF Positions, Reachable
<1>10. Gathered(fn, G, bi, q - 1)
  <2>1. PICK m : m = q - 1
    OBVIOUS
  <2>2. Gathered(fn, G, bi, m)
    BY <1>3, <1>8, <1>9, <2>1, GatheredMore
  <2> QED BY <2>1, <2>2
<1>11. /\ q' \in 1..Len(fn'.pre[fn'.blocks[bi']]) /\ Gathered(fn', dom_frontier', bi', q' - 1)
       /\ Running(fn', dom_frontier', fn'.blocks[bi'], fn'.pre[fn'.blocks[bi']][q'], runner')
       /\ OnlyTold(fn', dom_frontier')
  BY <1>1, <1>3, <1>5, <1>7, <1>10 DEF y, a
<1> QED BY <1>1, <1>11 DEF FrontInv, Deduces, Underived, Derived

LEMMA MeetGathers ==
  ASSUME AInv, Built, Structured(fn), IterInv, FrontInv, Dom!RunnerMeets
  PROVE  FrontInv'
<1> DEFINE y == fn.blocks[bi]
           a == fn.pre[y][q]
<1>1. /\ pc = "runner" /\ pc' = "frontier" /\ UNCHANGED <<fn, dom_frontier, bi, q>>
      /\ runner = idom[y]
  BY DEF Dom!RunnerMeets, Dom!search, Dom!result, Dom!walk, Dom!FrontierBlock
<1>2. Positions(fn) /\ q \in Nat /\ bi \in Nat \ {0}
  BY <1>1, PositionsHere
<1>3. /\ OnlyTold(fn, dom_frontier) /\ Gathered(fn, dom_frontier, bi, q - 1)
      /\ q \in 1..Len(fn.pre[y]) /\ Running(fn, dom_frontier, y, a, runner)
  BY <1>1 DEF FrontInv, Deduces, Derived
<1>4. IdomMap(fn, idom)
  BY <1>1 DEF IterInv, Stored, Underived
<1>5. q \in Nat \ {0}
  <2>1. y \in Members(fn.blocks)
    BY <1>3 DEF Running
  <2> DEFINE l == Len(fn.pre[y])
  <2>2. l \in Nat /\ q \in 1..l
    BY <1>2, <1>3, <2>1 DEF Positions
  <2> HIDE DEF l
  <2> QED BY <2>2
<1>6. PICK m, o : m = q /\ o = q - 1
  OBVIOUS
<1>7. m \in Nat /\ o \in Nat /\ m = o + 1
  BY <1>5, <1>6
<1>8. y = fn.blocks[bi] /\ a = fn.pre[y][m] /\ Gathered(fn, dom_frontier, bi, o)
  BY <1>3, <1>6
<1> HIDE DEF y, a
<1>9. \A x \in Reachable(fn) : Tells(fn, x, y, a) => y \in dom_frontier[x]
  BY <1>1, <1>2, <1>3, <1>4, RunnerEnds DEF Positions
<1>10. Gathered(fn, dom_frontier, bi, m)
  BY <1>2, <1>7, <1>8, <1>9, GatheredPredecessor DEF Positions
<1>11. Gathered(fn', dom_frontier', bi', q') /\ OnlyTold(fn', dom_frontier')
  BY <1>1, <1>3, <1>6, <1>10
<1> QED BY <1>1, <1>11 DEF FrontInv, Deduces, Underived, Derived

LEMMA TreeGathers ==
  ASSUME FrontInv, Dom!BuildTree
  PROVE  FrontInv'
<1>1. /\ pc = "frontier" /\ pc' = "done" /\ UNCHANGED <<fn, dom_frontier, bi, q>>
      /\ bi > Len(fn.blocks)
  BY DEF Dom!BuildTree, Dom!Tree, Dom!search, Dom!walk
<1>2. OnlyTold(fn, dom_frontier) /\ Gathered(fn, dom_frontier, bi, q)
  BY <1>1 DEF FrontInv, Deduces, Derived
<1>3. /\ Gathered(fn', dom_frontier', bi', q') /\ OnlyTold(fn', dom_frontier')
      /\ bi' > Len(fn'.blocks)
  BY <1>1, <1>2
<1> QED BY <1>1, <1>3 DEF FrontInv, Deduces, Underived, Derived

LEMMA FrontBegins == Init => FrontInv
<1> SUFFICES ASSUME Init PROVE FrontInv
  OBVIOUS
<1>1. /\ pc = "start" /\ dom_frontier = [b \in Block \cup {NULL} |-> {}] /\ bi = 1 /\ q = 0
  BY DEF Init, Dom!DInit, Dom!BlockOrNull, Dom!Block, Block
<1> QED BY <1>1 DEF FrontInv, Deduces, Underived, Derived

LEMMA UnderivedKeeps ==
  ASSUME FrontInv, pc \in Underived, pc' \in Underived, UNCHANGED <<dom_frontier, bi, q>>
  PROVE  FrontInv'
<1>1. dom_frontier' = [b \in Block \cup {NULL} |-> {}] /\ bi' = 1 /\ q' = 0
  BY DEF FrontInv, Deduces
<1>2. pc' \notin Derived
  BY DEF Underived, Derived
<1> QED BY <1>1, <1>2 DEF FrontInv, Deduces, Derived

LEMMA FrontKeeps ==
  ASSUME DeadJumps = FALSE, AInv, Built => Structured(fn), IterInv, FrontInv, [Next]_vars
  PROVE  FrontInv'
<1>1. CASE Build
  <2>1. pc = "start" /\ pc' = "start" /\ UNCHANGED <<dom_frontier, bi, q>>
    BY <1>1, BuildGoesOn DEF dvars
  <2> QED BY <2>1, UnderivedKeeps DEF Underived
<1>2. CASE UNCHANGED vars
  BY <1>2 DEF vars, bvars, dvars, FrontInv
<1>3. CASE Analyse
  <2>1. Built /\ Dom!DNext /\ Structured(fn)
    BY <1>3 DEF Analyse
  <2>2. CASE Dom!BeginSearch \/ Dom!VisitSuccessor \/ Dom!FinishBlock \/ Dom!NumberBlocks
    <3>1. pc \in Underived /\ pc' \in Underived /\ UNCHANGED <<dom_frontier, bi, q>>
      BY <2>2 DEF Dom!BeginSearch, Dom!VisitSuccessor, Dom!FinishBlock, Dom!Finish,
                  Dom!NumberBlocks, Dom!result, Dom!walk, Underived
    <3> QED BY <3>1, UnderivedKeeps
  <2>3. CASE Dom!BeginRound \/ Dom!TakePredecessor \/ Dom!BeginIntersect \/ Dom!MoveFinger
    <3>1. pc \in Underived /\ pc' \in Underived /\ UNCHANGED <<dom_frontier, bi, q>>
      BY <2>3 DEF Dom!BeginRound, Dom!TakePredecessor, Dom!BeginIntersect, Dom!Intersect,
                  Dom!MoveFinger, Dom!result, Dom!walk, Underived
    <3> QED BY <3>1, UnderivedKeeps
  <2>4. CASE Dom!FingersMeet \/ Dom!SetDoms \/ Dom!AnotherRound
    <3>1. pc \in Underived /\ pc' \in Underived /\ UNCHANGED <<dom_frontier, bi, q>>
      BY <2>4 DEF Dom!FingersMeet, Dom!Meet, Dom!SetDoms, Dom!AnotherRound, Dom!result,
                  Dom!walk, Underived
    <3> QED BY <3>1, UnderivedKeeps
  <2>5. CASE Dom!StoreIdom \/ Dom!NextBlock \/ Dom!StartRunner
    BY <2>1, <2>5, StoreGathers, NextGathers, StartGathers
  <2>6. CASE Dom!ClimbRunner \/ Dom!RunnerMeets \/ Dom!BuildTree
    BY <2>1, <2>6, ClimbGathers, MeetGathers, TreeGathers
  <2> QED BY <2>1, <2>2, <2>3, <2>4, <2>5, <2>6 DEF Dom!DNext
<1> QED BY <1>1, <1>2, <1>3 DEF Next

LEMMA FrontierInvariant == DeadJumps = FALSE /\ Spec => []FrontInv
<1> SUFFICES ASSUME DeadJumps = FALSE PROVE Spec => []FrontInv
  OBVIOUS
<1>1. AInv /\ (Built => Structured(fn)) /\ IterInv /\ FrontInv /\ [Next]_vars => FrontInv'
  BY FrontKeeps
<1> QED BY <1>1, FrontBegins, IterationInvariant, AnalysisInvariant, AnalysisStructured, PTL
        DEF Spec

(* A block with one predecessor is in no frontier.                         *)
LEMMA FrontierIsJoin ==
  ASSUME NEW f, NEW d, NEW g, NEW l, Numbering(f, d, g, l),
         NEW x \in Reachable(f), NEW y \in Reachable(f), NEW k \in 1..Len(f.pre[y]),
         Tells(f, x, y, f.pre[y][k]), NEW n, n = Len(f.pre[y])
  PROVE  n >= 2
<1> SUFFICES ASSUME ~(n >= 2) PROVE FALSE
  OBVIOUS
<1>1. FlowGraph(f) /\ Graph(f)
  BY DEF Numbering, FlowGraph
<1>2. /\ y \in Members(f.blocks) /\ n \in Nat /\ f.pre[y] \in Seq(Members(f.blocks))
      /\ \A a : a \in Members(f.pre[y]) <=> a \in Reachable(f) /\ Step(f, a, y)
  BY <1>1, Predecessors
<1>3. k = 1 /\ n = 1
  <2>1. n \in Nat /\ k \in 1..n /\ ~(n >= 2)
    BY <1>2
  <2>2. \A e \in Nat : ~(e >= 2) => \A h \in 1..e : h = 1 /\ e = 1
    OBVIOUS
  <2> QED BY <2>1, <2>2
<1>4. \A a \in Reachable(f) : Step(f, a, y) => a = f.pre[y][1]
  <2>1. \A a \in Members(f.pre[y]) : \E h \in 1..n : a = f.pre[y][h]
    BY DEF Members
  <2>2. \A h \in 1..n : h = 1
    BY <1>3
  <2> QED BY <1>2, <2>1, <2>2
<1>5. f.pre[y][1] \in Members(f.pre[y])
  BY <1>3 DEF Members
<1>6. y # Entry(f)
  BY <1>1, <1>2, <1>5, JoinIsNoEntry
<1>7. ~Dominates(f, y, f.pre[y][1])
  BY <1>6, FirstPredecessor
<1>8. Dominates(f, x, f.pre[y][1]) /\ ~StrictlyDominates(f, x, y)
  BY <1>3 DEF Tells
<1>9. Dominates(f, x, y)
  BY <1>1, <1>4, <1>6, <1>8, DominatesByPredecessors
<1> QED BY <1>7, <1>8, <1>9 DEF StrictlyDominates

(* create_dominance_frontier computes the frontiers of Lab4.md for the     *)
(* blocks that the entry reaches.                                          *)
THEOREM FrontiersAreExact == DeadJumps = FALSE /\ Spec => []FrontierCorrect
<1> SUFFICES ASSUME DeadJumps = FALSE PROVE Spec => []FrontierCorrect
  OBVIOUS
<1>1. AInv /\ (Built => Structured(fn)) /\ IterInv /\ FrontInv => FrontierCorrect
  <2> SUFFICES ASSUME AInv, Built => Structured(fn), IterInv, FrontInv, pc = "done"
               PROVE  \A x \in Reachable(fn) :
                        dom_frontier[x] = FrontierOf(fn, Dominance(fn), x)
    BY SameOperators DEF FrontierCorrect, Dom!FrontierCorrect, Dom!FrontierOf, FrontierOf
  <2>1. Built /\ Positions(fn) /\ Structured(fn) /\ pc \in Later
    BY PositionsHere DEF AInv, Later
  <2>2. Numbering(fn, dfn, postorder, Len(dfn))
    BY <2>1, IterNumbering
  <2>3. /\ OnlyTold(fn, dom_frontier) /\ Gathered(fn, dom_frontier, bi, q)
        /\ bi > Len(fn.blocks) /\ bi \in Nat
    BY <2>1, PositionsHere DEF FrontInv, Deduces, Derived
  <2>4. ASSUME NEW x \in Reachable(fn), NEW y \in dom_frontier[x]
        PROVE  y \in FrontierOf(fn, Dominance(fn), x)
    <3>1. y \in Members(fn.blocks) /\ \E a \in Members(fn.pre[y]) : Tells(fn, x, y, a)
      BY <2>3, <2>4 DEF OnlyTold
    <3>2. PICK a \in Members(fn.pre[y]) : Tells(fn, x, y, a)
      BY <3>1
    <3>3. y \in Reachable(fn)
      BY <2>1, <3>1, <3>2, JoinIsNoEntry DEF Positions, Tells, Dominates
    <3> QED BY <2>1, <3>2, <3>3, FrontierIs DEF Positions, Tells
  <2>5. ASSUME NEW x \in Reachable(fn), NEW y \in FrontierOf(fn, Dominance(fn), x)
        PROVE  y \in dom_frontier[x]
    <3>1. /\ y \in Reachable(fn) /\ ~StrictlyDominates(fn, x, y)
          /\ \E a \in Members(fn.pre[y]) : Dominates(fn, x, a)
      BY <2>1, <2>5, FrontierIs DEF Positions
    <3>2. PICK k \in 1..Len(fn.pre[y]) : Tells(fn, x, y, fn.pre[y][k])
      BY <3>1 DEF Tells, Members
    <3>3. PICK n : n = Len(fn.pre[y])
      OBVIOUS
    <3>4. n >= 2
      BY <2>2, <3>1, <3>2, <3>3, FrontierIsJoin
    <3>5. y \in Members(fn.blocks)
      BY <2>1, <3>1, EntryIn DEF Positions, Reachable
    <3>6. PICK j \in 1..Len(fn.blocks) : fn.blocks[j] = y
      BY <3>5 DEF Members
    <3>7. IsPassed(bi, q, j, k)
      <4> DEFINE h == Len(fn.blocks)
      <4>1. h \in Nat /\ bi > h /\ bi \in Nat /\ j \in 1..h
        BY <2>1, <2>3 DEF Positions
      <4> HIDE DEF h
      <4>2. j < bi
        BY <4>1
      <4> QED BY <4>2 DEF IsPassed
    <3> QED BY <2>3, <3>2, <3>3, <3>4, <3>6, <3>7 DEF Gathered
  <2> QED BY <2>4, <2>5
<1> QED BY <1>1, FrontierInvariant, IterationInvariant, AnalysisInvariant, AnalysisStructured, PTL

-----------------------------------------------------------------------------
(* The dominator tree.                                                     *)

(* The tree that the maps hold at the end.                                 *)
TreeIs(f, above, tree) ==
    tree = [d \in Block \cup {NULL} |->
              {b \in Members(f.blocks) \ {Entry(f)} : above[b] # NULL /\ above[b] = d}]

TreeInv == pc = "done" => TreeIs(fn, idom, dom_tree_succ)

LEMMA TreeKeeps == AInv /\ TreeInv /\ [Next]_vars => TreeInv'
<1> SUFFICES ASSUME AInv, TreeInv, [Next]_vars PROVE TreeInv'
  OBVIOUS
<1>1. CASE Build
  BY <1>1, BuildGoesOn DEF TreeInv
<1>2. CASE UNCHANGED vars
  BY <1>2 DEF vars, bvars, dvars, TreeInv
<1>3. CASE Analyse
  <2>1. Dom!DNext
    BY <1>3 DEF Analyse
  <2>2. CASE Dom!BuildTree
    <3>1. /\ UNCHANGED <<fn, idom>>
          /\ dom_tree_succ' = [d \in Block \cup {NULL} |->
               {b \in Members(fn.blocks) \ {Entry(fn)} : idom[b] # NULL /\ idom[b] = d}]
      BY <2>2, SameOperators
         DEF Dom!BuildTree, Dom!Tree, Dom!search, Dom!BlockOrNull, Dom!Block, Block
    <3> QED BY <3>1 DEF TreeInv, TreeIs
  <2>3. CASE ~Dom!BuildTree
    <3>1. pc' # "done"
      BY <2>1, <2>3
         DEF Dom!DNext, Dom!BeginSearch, Dom!VisitSuccessor, Dom!FinishBlock, Dom!Finish,
           Dom!NumberBlocks, Dom!BeginRound, Dom!TakePredecessor, Dom!BeginIntersect,
           Dom!Intersect, Dom!MoveFinger, Dom!FingersMeet, Dom!Meet, Dom!SetDoms,
           Dom!AnotherRound, Dom!StoreIdom, Dom!NextBlock, Dom!StartRunner, Dom!ClimbRunner,
           Dom!Climb, Dom!RunnerMeets
    <3> QED BY <3>1 DEF TreeInv
  <2> QED BY <2>2, <2>3
<1> QED BY <1>1, <1>2, <1>3 DEF Next

LEMMA TreeInvariant == Spec => []TreeInv
<1>1. Init => TreeInv
  BY DEF Init, Dom!DInit, TreeInv
<1> QED BY <1>1, TreeKeeps, AnalysisInvariant, PTL DEF Spec

(* The levels of a tree, as TreeSpansReachable counts them.                *)
LevelsUpTo(e, F, x, N) ==
    e = [n \in 0..N |-> IF n = 0 THEN {x} ELSE UNION {F[b] : b \in e[n - 1]}]

AllLevels(e, N) == UNION {e[n] : n \in 0..N}

LEMMA LevelsExist ==
  ASSUME NEW F, NEW x
  PROVE  \A N \in Nat : \E e : LevelsUpTo(e, F, x, N)
<1> DEFINE T == {N \in Nat : \E e : LevelsUpTo(e, F, x, N)}
           Below(s) == UNION {F[b] : b \in s}
<1>1. 0 \in T
  <2> DEFINE e == [n \in 0..0 |-> {x}]
  <2>1. LevelsUpTo(e, F, x, 0)
    BY DEF LevelsUpTo
  <2> QED BY <2>1
<1>2. ASSUME NEW N \in Nat, N \in T PROVE N + 1 \in T
  <2>1. PICK e : LevelsUpTo(e, F, x, N)
    BY <1>2
  <2> DEFINE last == Below(e[N])
             g == [n \in 0..(N + 1) |-> IF n \in 0..N THEN e[n] ELSE last]
  <2>2. (\A n \in 0..N : g[n] = e[n]) /\ g[N + 1] = last
    OBVIOUS
  <2>3. \A n \in 0..N : e[n] = IF n = 0 THEN {x} ELSE Below(e[n - 1])
    BY <2>1 DEF LevelsUpTo
  <2>4. ASSUME NEW n \in 0..(N + 1)
        PROVE  g[n] = IF n = 0 THEN {x} ELSE Below(g[n - 1])
    <3> HIDE DEF g, Below
    <3>1. CASE n = 0
      BY <3>1, <2>2, <2>3
    <3>2. CASE n \in 1..N
      <4>1. n \in 0..N /\ n - 1 \in 0..N /\ n # 0
        BY <3>2
      <4> QED BY <4>1, <2>2, <2>3
    <3>3. CASE n = N + 1
      <4>1. N \in 0..N /\ n - 1 = N /\ n # 0
        BY <3>3
      <4> QED BY <3>3, <4>1, <2>2
    <3> QED BY <3>1, <3>2, <3>3
  <2>5. LevelsUpTo(g, F, x, N + 1)
    BY <2>4 DEF LevelsUpTo
  <2> QED BY <2>5
<1> HIDE DEF T
<1>3. Nat \subseteq T
  BY <1>1, <1>2, SetInduction
<1> QED BY <1>3 DEF T

(* The children of a reachable block.                                      *)
LEMMA ChildrenAre ==
  ASSUME NEW f, Graph(f), Members(f.blocks) \subseteq Block, NEW above, IdomMap(f, above),
         NEW tree, TreeIs(f, above, tree)
  PROVE  /\ \A b \in Reachable(f) : b # Entry(f) => StrictlyDominates(f, above[b], b)
         /\ \A d \in Reachable(f) : \A b :
              b \in tree[d] <=> b \in Reachable(f) /\ b # Entry(f) /\ above[b] = d
<1>1. Reachable(f) \subseteq Members(f.blocks)
  BY EntryIn DEF Reachable
<1>2. ASSUME NEW b \in Reachable(f), b # Entry(f) PROVE StrictlyDominates(f, above[b], b)
  <2>1. IsIdom(Dominance(f), above[b], b)
    BY <1>1, <1>2 DEF IdomMap
  <2> QED BY <2>1, IdomIs
<1>3. ASSUME NEW d \in Reachable(f), NEW b
      PROVE  b \in tree[d] <=> b \in Reachable(f) /\ b # Entry(f) /\ above[b] = d
  <2>1. d \in Block /\ d # NULL
    BY <1>1, NullAssumption
  <2>2. tree[d] = {c \in Members(f.blocks) \ {Entry(f)} : above[c] # NULL /\ above[c] = d}
    BY <2>1 DEF TreeIs
  <2>3. b \in Members(f.blocks) /\ b \notin Reachable(f) => above[b] = NULL
    BY DEF IdomMap
  <2> QED BY <1>1, <2>1, <2>2, <2>3
<1> QED BY <1>2, <1>3

LEMMA LevelsSpan ==
  ASSUME NEW f, NEW d, NEW g, NEW l, Numbering(f, d, g, l), Members(f.blocks) \subseteq Block,
         NEW above, IdomMap(f, above), NEW tree, TreeIs(f, above, tree),
         NEW e, LevelsUpTo(e, tree, Entry(f), l)
  PROVE  AllLevels(e, l) = Reachable(f)
<1> DEFINE R == Reachable(f)
<1>1. /\ l \in Nat \ {0} /\ Graph(f)
      /\ \A b \in R : g[b] \in 0..(l - 1) /\ d[g[b] + 1] = b
      /\ \A x, y : StrictlyDominates(f, x, y) => g[y] < g[x]
      /\ Entry(f) \in R /\ g[Entry(f)] = l - 1
  BY NumberingIs
<1>2. /\ \A b \in R : b # Entry(f) => StrictlyDominates(f, above[b], b)
      /\ \A x \in R : \A b : b \in tree[x] <=> b \in R /\ b # Entry(f) /\ above[b] = x
  BY <1>1, ChildrenAre
<1>3. \A n \in 0..l : e[n] = IF n = 0 THEN {Entry(f)} ELSE UNION {tree[b] : b \in e[n - 1]}
  BY DEF LevelsUpTo
<1>4. /\ e[0] = {Entry(f)}
      /\ \A n \in Nat : n + 1 <= l => e[n + 1] = UNION {tree[b] : b \in e[n]}
  <2>1. 0 \in 0..l
    BY <1>1
  <2>2. ASSUME NEW n \in Nat, n + 1 <= l PROVE e[n + 1] = UNION {tree[b] : b \in e[n]}
    <3>1. n + 1 \in 0..l /\ n + 1 # 0 /\ (n + 1) - 1 = n
      BY <1>1, <2>2
    <3> QED BY <1>3, <3>1
  <2> QED BY <1>3, <2>1, <2>2
<1> HIDE DEF R
<1>5. \A n \in 0..l : e[n] \subseteq R
  <2> DEFINE T == {n \in Nat : n <= l => e[n] \subseteq R}
  <2>1. 0 \in T
    BY <1>1, <1>4
  <2>2. ASSUME NEW n \in Nat, n \in T PROVE n + 1 \in T
    <3> SUFFICES ASSUME n + 1 <= l PROVE e[n + 1] \subseteq R
      OBVIOUS
    <3>1. e[n] \subseteq R
      BY <1>1, <2>2
    <3>2. e[n + 1] = UNION {tree[b] : b \in e[n]}
      BY <1>4
    <3>3. \A b \in e[n] : tree[b] \subseteq R
      BY <1>2, <3>1
    <3> QED BY <3>2, <3>3
  <2>3. Nat \subseteq T
    <3> HIDE DEF T
    <3> QED BY <2>1, <2>2, SetInduction
  <2>4. \A n \in 0..l : n \in Nat /\ n <= l
    BY <1>1
  <2> QED BY <2>3, <2>4
<1>6. \A b \in R : \E n \in 0..l : b \in e[n]
  <2> DEFINE Levelled(b, k) == \E n \in Nat : n <= k /\ b \in e[n]
             T == {k \in Nat : k <= l => \A b \in R : l - 1 <= g[b] + k => Levelled(b, k)}
  <2>1. 0 \in T
    <3> SUFFICES ASSUME NEW b \in R, l - 1 <= g[b] + 0 PROVE Levelled(b, 0)
      OBVIOUS
    <3> DEFINE k == g[b]
    <3>1. k \in 0..(l - 1) /\ d[k + 1] = b
      BY <1>1
    <3>2. l - 1 <= k + 0
      OBVIOUS
    <3> HIDE DEF k
    <3>3. k = l - 1
      BY <1>1, <3>1, <3>2
    <3>4. d[(l - 1) + 1] = Entry(f)
      BY <1>1
    <3>5. b = Entry(f)
      BY <3>1, <3>3, <3>4
    <3> QED BY <1>4, <3>5
  <2>2. ASSUME NEW k \in Nat, k \in T PROVE k + 1 \in T
    <3> SUFFICES ASSUME k + 1 <= l, NEW b \in R, l - 1 <= g[b] + (k + 1)
                 PROVE  Levelled(b, k + 1)
      OBVIOUS
    <3>1. k <= l
      BY <1>1
    <3>2. \A c \in R : l - 1 <= g[c] + k => Levelled(c, k)
      BY <2>2, <3>1
    <3>3. CASE b = Entry(f)
      <4>1. Levelled(b, 0)
        BY <1>4, <3>3
      <4> QED BY <4>1
    <3>4. CASE b # Entry(f)
      <4> DEFINE a == above[b]
      <4>1. StrictlyDominates(f, a, b)
        BY <1>2, <3>4
      <4>2. a \in R /\ g[b] < g[a]
        BY <1>1, <4>1 DEF StrictlyDominates, Dominates, R
      <4>3. l - 1 <= g[a] + k
        <5> DEFINE u == g[a]
                   v == g[b]
        <5>1. u \in 0..(l - 1) /\ v \in 0..(l - 1) /\ v < u /\ l - 1 <= v + (k + 1)
          BY <1>1, <4>2
        <5> HIDE DEF u, v
        <5>2. l - 1 <= u + k
          BY <1>1, <5>1
        <5> QED BY <5>2 DEF u
      <4>4. PICK n \in Nat : n <= k /\ a \in e[n]
        BY <3>2, <4>2, <4>3
      <4>5. b \in tree[a]
        BY <1>2, <3>4, <4>2
      <4>6. n + 1 \in Nat /\ n + 1 <= l /\ n + 1 <= k + 1
        BY <1>1, <4>4
      <4>7. b \in e[n + 1]
        BY <1>4, <4>4, <4>5, <4>6
      <4> QED BY <4>6, <4>7
    <3> QED BY <3>3, <3>4
  <2>3. Nat \subseteq T
    <3> HIDE DEF T
    <3> QED BY <2>1, <2>2, SetInduction
  <2> SUFFICES ASSUME NEW b \in R PROVE \E n \in 0..l : b \in e[n]
    OBVIOUS
  <2>4. l - 1 <= g[b] + l
    <3>1. g[b] \in 0..(l - 1)
      BY <1>1
    <3> QED BY <1>1, <3>1
  <2>5. l \in T
    BY <1>1, <2>3
  <2>6. PICK n \in Nat : n <= l /\ b \in e[n]
    BY <1>1, <2>4, <2>5
  <2>7. n \in 0..l
    BY <1>1, <2>6
  <2> QED BY <2>6, <2>7
<1> QED BY <1>5, <1>6 DEF R, AllLevels

LEMMA OneParent ==
  ASSUME NEW f, Graph(f), Members(f.blocks) \subseteq Block, NEW above, IdomMap(f, above),
         NEW tree, TreeIs(f, above, tree), NEW b \in Reachable(f)
  PROVE  Cardinality({d \in Reachable(f) : b \in tree[d]}) = IF b = Entry(f) THEN 0 ELSE 1
<1> DEFINE P == {d \in Reachable(f) : b \in tree[d]}
<1>1. /\ \A c \in Reachable(f) : c # Entry(f) => StrictlyDominates(f, above[c], c)
      /\ \A d \in Reachable(f) : \A c :
           c \in tree[d] <=> c \in Reachable(f) /\ c # Entry(f) /\ above[c] = d
  BY ChildrenAre
<1>2. CASE b = Entry(f)
  <2>1. P = {}
    BY <1>1, <1>2
  <2>2. Cardinality({}) = 0
    BY FS_EmptySet
  <2> QED BY <1>2, <2>1, <2>2
<1>3. CASE b # Entry(f)
  <2>1. above[b] \in Reachable(f)
    BY <1>1, <1>3 DEF StrictlyDominates, Dominates
  <2>2. P = {above[b]}
    BY <1>1, <1>3, <2>1
  <2>3. Cardinality({above[b]}) = 1
    BY FS_Singleton
  <2> QED BY <1>3, <2>2, <2>3
<1> QED BY <1>2, <1>3

(* The tree that Mem2Reg::rename recurses on: from the entry it reaches    *)
(* every reachable block, each along one path, and nothing else.           *)
THEOREM TreeIsSpanning == DeadJumps = FALSE /\ Spec => []TreeSpansReachable
<1> SUFFICES ASSUME DeadJumps = FALSE PROVE Spec => []TreeSpansReachable
  OBVIOUS
<1>1. AInv /\ (Built => Structured(fn)) /\ IterInv /\ TreeInv => TreeSpansReachable
  <2> SUFFICES ASSUME AInv, Built => Structured(fn), IterInv, TreeInv, pc = "done"
               PROVE  TreeSpansReachable
    BY DEF TreeSpansReachable, Dom!TreeSpansReachable
  <2> DEFINE R == Dom!Reachable(fn)
             below == CHOOSE below : below = [n \in 0..Dom!Cardinality(R) |->
                        IF n = 0 THEN {Dom!Entry(fn)}
                        ELSE UNION {dom_tree_succ[b] : b \in below[n - 1]}]
  <2>1. /\ UNION {below[n] : n \in DOMAIN below} = R
        /\ \A b \in R : Dom!Cardinality({d \in R : b \in dom_tree_succ[d]}) =
                          IF b = Dom!Entry(fn) THEN 0 ELSE 1
        => TreeSpansReachable
    BY DEF TreeSpansReachable, Dom!TreeSpansReachable
  <2>2. R = Reachable(fn) /\ Dom!Entry(fn) = Entry(fn)
    BY SameOperators
  <2>3. Built /\ Structured(fn) /\ pc \in Later /\ Graph(fn) /\ Members(fn.blocks) \subseteq Block
    BY GraphHere DEF AInv, Later
  <2>4. Numbering(fn, dfn, postorder, Len(dfn)) /\ Len(dfn) \in Nat \ {0}
    BY <2>3, IterNumbering
  <2>5. IdomMap(fn, idom) /\ TreeIs(fn, idom, dom_tree_succ)
    BY DEF IterInv, Stored, Underived, TreeInv
  <2>6. Dom!Cardinality(R) = Len(dfn)
    BY <2>2, <2>4, SameCardinality DEF Numbering, Ordered
  <2>7. PICK l : l = Len(dfn)
    OBVIOUS
  <2>8. LevelsUpTo(below, dom_tree_succ, Entry(fn), l) /\ DOMAIN below = 0..l
    <3>1. \E e : LevelsUpTo(e, dom_tree_succ, Entry(fn), l)
      BY <2>4, <2>7, LevelsExist
    <3>2. Dom!Cardinality(R) = l
      BY <2>6, <2>7
    <3>3. LevelsUpTo(below, dom_tree_succ, Entry(fn), l)
      <4>1. \E e : LevelsUpTo(e, dom_tree_succ, Dom!Entry(fn), Dom!Cardinality(R))
        BY <2>2, <3>1, <3>2
      <4>2. LevelsUpTo(below, dom_tree_succ, Dom!Entry(fn), Dom!Cardinality(R))
        <5> HIDE DEF R
        <5> QED BY <4>1 DEF LevelsUpTo
      <4> HIDE DEF below
      <4> QED BY <2>2, <3>2, <4>2
    <3> HIDE DEF below
    <3>4. DOMAIN below = 0..l
      BY <3>3 DEF LevelsUpTo
    <3> QED BY <3>3, <3>4
  <2> HIDE DEF below
  <2>9. AllLevels(below, l) = Reachable(fn)
    <3>1. Numbering(fn, dfn, postorder, l)
      BY <2>4, <2>7
    <3> QED BY <2>3, <2>5, <2>8, <3>1, LevelsSpan
  <2>10. \A b \in Reachable(fn) :
            Dom!Cardinality({d \in Reachable(fn) : b \in dom_tree_succ[d]}) =
               IF b = Entry(fn) THEN 0 ELSE 1
    BY <2>3, <2>5, OneParent, SameCardinality
  <2>11. UNION {below[n] : n \in DOMAIN below} = R
    BY <2>2, <2>8, <2>9 DEF AllLevels
  <2>12. \A b \in R : Dom!Cardinality({d \in R : b \in dom_tree_succ[d]}) =
                        IF b = Dom!Entry(fn) THEN 0 ELSE 1
    BY <2>2, <2>10
  <2> QED BY <2>1, <2>11, <2>12
<1> QED BY <1>1, TreeInvariant, IterationInvariant, AnalysisInvariant, AnalysisStructured, PTL
=============================================================================
