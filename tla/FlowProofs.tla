----------------------------- MODULE FlowProofs -----------------------------
(***************************************************************************)
(* What the operators of Lists return, for every list, and what those of   *)
(* Flow say of every graph: a block is reached exactly if a walk leads to  *)
(* it, and x dominates y exactly if x is on every walk to y.  The proofs   *)
(* about the passes cite these lemmas by name.                             *)
(*                                                                         *)
(* Induction is over sets: a set of naturals that is not empty has a least *)
(* element, so a set that holds 0 and the successor of each member is Nat. *)
(***************************************************************************)
EXTENDS Flow, TLAPS, WellFoundedInduction, FunctionTheorems, FiniteSetTheorems

(* Every nonempty set of naturals has a least element.                     *)
LEMMA LeastElement ==
  ASSUME NEW T, T \subseteq Nat, T # {}
  PROVE  \E m \in T : \A n \in T : m <= n
<1> DEFINE R == {p \in Nat \X Nat : p[1] < p[2]}
<1>1. IsWellFoundedOn(R, Nat)
  BY NatLessThanWellFounded DEF OpToRel
<1>2. PICK m \in T : \A n \in T : <<n, m>> \notin R
  <2> HIDE DEF R
  <2> QED BY <1>1, WFMin
<1>3. ASSUME NEW n \in T PROVE m <= n
  <2>1. m \in Nat /\ n \in Nat
    OBVIOUS
  <2>2. ~(n < m)
    BY <1>2, <2>1
  <2> QED BY <2>1, <2>2
<1> QED BY <1>3

(* Induction over the naturals, for a set.                                 *)
LEMMA SetInduction ==
  ASSUME NEW T, 0 \in T, \A n \in Nat : n \in T => n + 1 \in T
  PROVE  Nat \subseteq T
<1> SUFFICES ASSUME NEW n0 \in Nat, n0 \notin T PROVE FALSE
  OBVIOUS
<1>1. PICK m \in Nat \ T : \A n \in Nat \ T : m <= n
  BY LeastElement
<1>2. m # 0 /\ m - 1 \in Nat
  BY <1>1
<1>3. m - 1 \in T
  BY <1>1, <1>2
<1> QED BY <1>1, <1>2, <1>3

-----------------------------------------------------------------------------
(* What appending, removing the head and concatenating do to the members.  *)
LEMMA AppendMembers ==
  ASSUME NEW S, NEW s \in Seq(S), NEW x
  PROVE  Members(Append(s, x)) = Members(s) \cup {x}
<1>1. /\ Len(s) \in Nat /\ Len(Append(s, x)) = Len(s) + 1
      /\ Append(s, x)[Len(s) + 1] = x
      /\ \A i \in 1..Len(s) : Append(s, x)[i] = s[i]
  OBVIOUS
<1> QED BY <1>1 DEF Members

LEMMA TailMembers ==
  ASSUME NEW S, NEW s \in Seq(S), s # << >>
  PROVE  /\ Head(s) \in S /\ Tail(s) \in Seq(S)
         /\ Members(s) = {Head(s)} \cup Members(Tail(s))
<1>1. /\ Len(s) \in Nat \ {0} /\ Head(s) = s[1] /\ Len(Tail(s)) = Len(s) - 1
      /\ \A i \in 1..Len(Tail(s)) : Tail(s)[i] = s[i + 1]
  OBVIOUS
<1>2. ASSUME NEW i \in 1..Len(s), i # 1 PROVE s[i] \in Members(Tail(s))
  <2>1. i - 1 \in 1..Len(Tail(s)) /\ Tail(s)[i - 1] = s[i]
    BY <1>1, <1>2
  <2> QED BY <2>1 DEF Members
<1>3. ASSUME NEW i \in 1..Len(Tail(s)) PROVE Tail(s)[i] \in Members(s)
  <2>1. i + 1 \in 1..Len(s) /\ Tail(s)[i] = s[i + 1]
    BY <1>1
  <2> QED BY <2>1 DEF Members
<1>4. Head(s) \in Members(s) /\ 1 \in 1..Len(s)
  BY <1>1 DEF Members
<1>5. Members(s) \subseteq {Head(s)} \cup Members(Tail(s))
  BY <1>1, <1>2 DEF Members
<1>6. Members(Tail(s)) \subseteq Members(s)
  BY <1>3 DEF Members
<1> QED BY <1>1, <1>4, <1>5, <1>6

LEMMA MembersOfSeq ==
  ASSUME NEW S, NEW s \in Seq(S)
  PROVE  Members(s) \subseteq S
  BY DEF Members

LEMMA SeqOfMembers ==
  ASSUME NEW S, NEW s \in Seq(S), NEW T, Members(s) \subseteq T
  PROVE  s \in Seq(T)
<1>1. Len(s) \in Nat /\ s = [k \in 1..Len(s) |-> s[k]]
  OBVIOUS
<1>2. \A k \in 1..Len(s) : s[k] \in T
  BY DEF Members
<1> DEFINE n == Len(s)
<1>3. n \in Nat /\ s = [k \in 1..n |-> s[k]] /\ \A k \in 1..n : s[k] \in T
  BY <1>1, <1>2
<1> HIDE DEF n
<1> QED BY <1>3

LEMMA MembersOfEmpty == Members(<< >>) = {}
  BY DEF Members

-----------------------------------------------------------------------------
(* The recursion of Kept has a solution, so Kept unfolds.                  *)
KeptUpTo(f, s, S, N) ==
    f = [n \in 0..N |->
            IF n = 0 THEN << >>
            ELSE IF s[n] \in S THEN Append(f[n - 1], s[n]) ELSE f[n - 1]]

LEMMA KeptExists ==
  ASSUME NEW s, NEW S
  PROVE  \A N \in Nat : \E f : KeptUpTo(f, s, S, N)
<1> DEFINE T == {N \in Nat : \E f : KeptUpTo(f, s, S, N)}
<1>1. 0 \in T
  <2> DEFINE f == [n \in 0..0 |-> << >>]
  <2>1. KeptUpTo(f, s, S, 0)
    BY DEF KeptUpTo
  <2> QED BY <2>1
<1>2. ASSUME NEW N \in Nat, N \in T PROVE N + 1 \in T
  <2>1. PICK f : KeptUpTo(f, s, S, N)
    BY <1>2
  <2> DEFINE last == IF s[N + 1] \in S THEN Append(f[N], s[N + 1]) ELSE f[N]
  <2> DEFINE g == [n \in 0..(N + 1) |-> IF n \in 0..N THEN f[n] ELSE last]
  <2>2. \A n \in 0..N : g[n] = f[n]
    OBVIOUS
  <2>3. g[N + 1] = last
    OBVIOUS
  <2>4. \A n \in 0..N : f[n] = IF n = 0 THEN << >>
                               ELSE IF s[n] \in S THEN Append(f[n - 1], s[n]) ELSE f[n - 1]
    BY <2>1 DEF KeptUpTo
  <2>5. ASSUME NEW n \in 0..(N + 1)
        PROVE  g[n] = IF n = 0 THEN << >>
                      ELSE IF s[n] \in S THEN Append(g[n - 1], s[n]) ELSE g[n - 1]
    <3>1. CASE n = 0
      BY <3>1, <2>2, <2>4
    <3>2. CASE n \in 1..N
      <4>1. n \in 0..N /\ n - 1 \in 0..N /\ n # 0
        BY <3>2
      <4> HIDE DEF g
      <4> QED BY <4>1, <2>2, <2>4
    <3>3. CASE n = N + 1
      <4>1. N \in 0..N /\ n - 1 = N /\ n # 0
        BY <3>3
      <4>2. g[N] = f[N]
        BY <4>1, <2>2
      <4> HIDE DEF g
      <4> QED BY <3>3, <4>1, <4>2, <2>3
    <3> QED BY <3>1, <3>2, <3>3
  <2>6. KeptUpTo(g, s, S, N + 1)
    BY <2>5 DEF KeptUpTo
  <2> QED BY <2>6
<1> HIDE DEF T
<1>3. Nat \subseteq T
  BY <1>1, <1>2, SetInduction
<1> QED BY <1>3 DEF T

LEMMA KeptUnfolds ==
  ASSUME NEW s, NEW S, Len(s) \in Nat
  PROVE  \E f : KeptUpTo(f, s, S, Len(s)) /\ Kept(s, S) = f[Len(s)]
<1> DEFINE f == CHOOSE f : f = [n \in 0..Len(s) |->
                    IF n = 0 THEN << >>
                    ELSE IF s[n] \in S THEN Append(f[n - 1], s[n]) ELSE f[n - 1]]
<1>1. Kept(s, S) = f[Len(s)]
  BY DEF Kept
<1>2. \E g : KeptUpTo(g, s, S, Len(s))
  BY KeptExists
<1>3. KeptUpTo(f, s, S, Len(s))
  BY <1>2 DEF KeptUpTo
<1> QED BY <1>1, <1>3

(* Kept returns a list of the same elements, those in S and no other.      *)
LEMMA KeptMembers ==
  ASSUME NEW U, NEW s \in Seq(U), NEW S
  PROVE  /\ Kept(s, S) \in Seq(U)
         /\ Members(Kept(s, S)) = Members(s) \cap S
<1>1. PICK f : KeptUpTo(f, s, S, Len(s)) /\ Kept(s, S) = f[Len(s)]
  BY KeptUnfolds
<1>2. Len(s) \in Nat /\ \A n \in 1..Len(s) : s[n] \in U
  OBVIOUS
<1>3. /\ f[0] = << >>
      /\ \A n \in 1..Len(s) :
            f[n] = IF s[n] \in S THEN Append(f[n - 1], s[n]) ELSE f[n - 1]
  <2>1. \A n \in 0..Len(s) :
           f[n] = IF n = 0 THEN << >>
                  ELSE IF s[n] \in S THEN Append(f[n - 1], s[n]) ELSE f[n - 1]
    <3> DEFINE N == Len(s)
    <3>1. KeptUpTo(f, s, S, N)
      BY <1>1
    <3> HIDE DEF N
    <3> QED BY <3>1 DEF KeptUpTo, N
  <2>2. 0 \in 0..Len(s) /\ \A n \in 1..Len(s) : n \in 0..Len(s) /\ n # 0
    BY <1>2
  <2> QED BY <2>1, <2>2
<1> DEFINE Upto(n) == {s[i] : i \in 1..n}
           Right(n) == f[n] \in Seq(U) /\ Members(f[n]) = Upto(n) \cap S
           T == {n \in Nat : n <= Len(s) => Right(n)}
<1>4. 0 \in T
  <2>1. Upto(0) = {}
    OBVIOUS
  <2>2. Right(0)
    BY <1>3, <2>1, MembersOfEmpty
  <2> QED BY <2>2
<1>5. ASSUME NEW n \in Nat, n \in T PROVE n + 1 \in T
  <2> SUFFICES ASSUME n + 1 <= Len(s) PROVE Right(n + 1)
    OBVIOUS
  <2>1. n <= Len(s) /\ n + 1 \in 1..Len(s) /\ (n + 1) - 1 = n
    BY <1>2
  <2>2. f[n] \in Seq(U) /\ Members(f[n]) = Upto(n) \cap S
    BY <1>5, <2>1
  <2>3. Upto(n + 1) = Upto(n) \cup {s[n + 1]}
    OBVIOUS
  <2>4. f[n + 1] = IF s[n + 1] \in S THEN Append(f[n], s[n + 1]) ELSE f[n]
    BY <1>3, <2>1
  <2>5. s[n + 1] \in U
    BY <1>2, <2>1
  <2> HIDE DEF Upto
  <2>6. CASE s[n + 1] \in S
    <3>1. f[n + 1] \in Seq(U) /\ Members(f[n + 1]) = Members(f[n]) \cup {s[n + 1]}
      BY <2>2, <2>4, <2>5, <2>6, AppendMembers
    <3> QED BY <3>1, <2>2, <2>3, <2>6
  <2>7. CASE s[n + 1] \notin S
    BY <2>2, <2>3, <2>4, <2>7
  <2> QED BY <2>6, <2>7
<1> HIDE DEF T
<1>6. Nat \subseteq T
  BY <1>4, <1>5, SetInduction
<1>7. Right(Len(s))
  <2>1. Len(s) \in T
    BY <1>2, <1>6
  <2> HIDE DEF Right
  <2> QED BY <1>2, <2>1 DEF T
<1> QED BY <1>1, <1>7 DEF Members

(* If the first n elements are kept, they stay where they are, and what    *)
(* follows them was behind them.                                           *)
KeptFrom(s, S, n, t) ==
    \A i \in 1..Len(t) : IF i <= n THEN t[i] = s[i]
                         ELSE \E j \in 1..Len(s) : n < j /\ s[j] \in S /\ t[i] = s[j]

KeptOf(s, S, n, j, t) ==     \* t is what is kept of the first j elements
    KeptFrom(s, S, n, t) /\ IF j <= n THEN Len(t) = j ELSE n <= Len(t)

LEMMA KeptAppends ==
  ASSUME NEW U, NEW s \in Seq(U), NEW S, NEW n \in 0..Len(s), NEW t \in Seq(U),
         NEW j \in 1..Len(s), NEW i, i = j - 1, KeptOf(s, S, n, i, t), s[j] \in S,
         NEW e, e = Append(t, s[j])
  PROVE  e \in Seq(U) /\ KeptOf(s, S, n, j, e)
<1>1. /\ s[j] \in U /\ Len(t) \in Nat /\ Len(s) \in Nat
      /\ e \in Seq(U) /\ Len(e) = Len(t) + 1 /\ e[Len(t) + 1] = s[j]
      /\ \A a \in 1..Len(t) : e[a] = t[a]
  OBVIOUS
<1> DEFINE l == Len(t)
           z == Len(s)
<1>2. /\ l \in Nat /\ z \in Nat /\ Len(e) = l + 1 /\ e[l + 1] = s[j] /\ n \in Nat
      /\ \A a \in 1..l : e[a] = t[a]
      /\ IF j <= n THEN l = j - 1 ELSE n <= l
      /\ j \in 1..z
      /\ \A a \in 1..l : IF a <= n THEN t[a] = s[a]
                         ELSE \E k \in 1..z : n < k /\ s[k] \in S /\ t[a] = s[k]
  <2>1. /\ IF i <= n THEN Len(t) = i ELSE n <= Len(t)
        /\ KeptFrom(s, S, n, t)
    BY DEF KeptOf
  <2>2. l \in Nat /\ n \in Nat /\ j \in Nat /\ i = j - 1 /\ (IF i <= n THEN l = i ELSE n <= l)
    BY <1>1, <2>1
  <2> HIDE DEF l
  <2>3. IF j <= n THEN l = j - 1 ELSE n <= l
    BY <2>2
  <2>4. l = Len(t)
    BY DEF l
  <2> QED BY <1>1, <2>1, <2>3, <2>4 DEF KeptFrom
<1> HIDE DEF l, z
<1>3. ASSUME NEW a \in 1..(l + 1)
      PROVE  IF a <= n THEN e[a] = s[a]
             ELSE \E k \in 1..z : n < k /\ s[k] \in S /\ e[a] = s[k]
  <2>1. CASE a = l + 1
    <3>1. CASE j <= n
      <4>1. a = j /\ a <= n
        BY <1>2, <2>1, <3>1
      <4> QED BY <1>2, <2>1, <4>1
    <3>2. CASE ~(j <= n)
      <4>1. ~(a <= n) /\ n < j
        BY <1>2, <2>1, <3>2
      <4> QED BY <1>2, <2>1, <4>1
    <3> QED BY <3>1, <3>2
  <2>2. CASE a # l + 1
    <3>1. a \in 1..l
      BY <1>2, <2>2
    <3> QED BY <1>2, <3>1
  <2> QED BY <2>1, <2>2
<1>4. KeptFrom(s, S, n, e)
  BY <1>2, <1>3 DEF KeptFrom, z
<1>5. IF j <= n THEN Len(e) = j ELSE n <= Len(e)
  <2>1. IF j <= n THEN l + 1 = j ELSE n <= l + 1
    BY <1>2
  <2> QED BY <1>2, <2>1
<1> QED BY <1>1, <1>4, <1>5 DEF KeptOf

LEMMA KeptPrefix ==
  ASSUME NEW U, NEW s \in Seq(U), NEW S, NEW n \in 0..Len(s), \A k \in 1..n : s[k] \in S
  PROVE  n <= Len(Kept(s, S)) /\ KeptFrom(s, S, n, Kept(s, S))
<1>1. PICK f : KeptUpTo(f, s, S, Len(s)) /\ Kept(s, S) = f[Len(s)]
  BY KeptUnfolds
<1>2. Len(s) \in Nat /\ n \in Nat /\ n <= Len(s)
  OBVIOUS
<1>3. /\ f[0] = << >>
      /\ \A k \in 1..Len(s) :
            f[k] = IF s[k] \in S THEN Append(f[k - 1], s[k]) ELSE f[k - 1]
  <2>1. \A k \in 0..Len(s) :
           f[k] = IF k = 0 THEN << >>
                  ELSE IF s[k] \in S THEN Append(f[k - 1], s[k]) ELSE f[k - 1]
    <3> DEFINE N == Len(s)
    <3>1. KeptUpTo(f, s, S, N)
      BY <1>1
    <3> HIDE DEF N
    <3> QED BY <3>1 DEF KeptUpTo, N
  <2>2. 0 \in 0..Len(s) /\ \A k \in 1..Len(s) : k \in 0..Len(s) /\ k # 0
    BY <1>2
  <2> QED BY <2>1, <2>2
<1> DEFINE Right(k) == f[k] \in Seq(U) /\ KeptOf(s, S, n, k, f[k])
           T == {k \in Nat : k <= Len(s) => Right(k)}
<1>4. 0 \in T
  <2> DEFINE t == f[0]
  <2>1. t \in Seq(U) /\ Len(t) = 0
    BY <1>3
  <2> HIDE DEF t
  <2>2. KeptFrom(s, S, n, t)
    BY <2>1 DEF KeptFrom
  <2>3. KeptOf(s, S, n, 0, t)
    BY <1>2, <2>1, <2>2 DEF KeptOf
  <2> QED BY <2>1, <2>3 DEF t
<1>5. ASSUME NEW k \in Nat, k \in T PROVE k + 1 \in T
  <2> SUFFICES ASSUME k + 1 <= Len(s) PROVE Right(k + 1)
    OBVIOUS
  <2> DEFINE j == k + 1
             e == f[j]
             t == f[k]
  <2>1. k <= Len(s) /\ j \in 1..Len(s) /\ k = j - 1 /\ j - 1 = k
    BY <1>2
  <2>2. t \in Seq(U) /\ KeptOf(s, S, n, k, t)
    BY <1>5, <2>1
  <2>3. e = IF s[j] \in S THEN Append(t, s[j]) ELSE t
    <3> HIDE DEF j
    <3> QED BY <1>3, <2>1
  <2>4. CASE s[j] \in S
    <3>1. e = Append(t, s[j])
      BY <2>3, <2>4
    <3> HIDE DEF e, t, j
    <3>2. e \in Seq(U) /\ KeptOf(s, S, n, j, e)
      BY <2>1, <2>2, <2>4, <3>1, KeptAppends
    <3> QED BY <3>2 DEF e, j
  <2>5. CASE s[j] \notin S
    <3>1. ~(j <= n)
      <4>1. j <= n => j \in 1..n
        BY <1>2
      <4> QED BY <2>5, <4>1
    <3>2. ~(j <= n) /\ (k <= n => k = n)
      BY <1>2, <3>1
    <3>3. e = t
      BY <2>3, <2>5
    <3> HIDE DEF e, t, j
    <3>4. KeptOf(s, S, n, j, t)
      <4>1. KeptFrom(s, S, n, t) /\ (IF k <= n THEN Len(t) = k ELSE n <= Len(t))
        BY <2>2 DEF KeptOf
      <4>2. Len(t) \in Nat
        BY <2>2
      <4>3. n <= Len(t)
        BY <1>2, <3>2, <4>1, <4>2
      <4> QED BY <3>2, <4>1, <4>3 DEF KeptOf
    <3> QED BY <2>2, <3>3, <3>4 DEF e, j
  <2> QED BY <2>4, <2>5
<1> HIDE DEF T
<1>6. Nat \subseteq T
  BY <1>4, <1>5, SetInduction
<1> DEFINE l == Len(s)
           e == f[l]
<1>7. Right(l)
  <2>1. l \in T /\ l <= Len(s)
    BY <1>2, <1>6
  <2> HIDE DEF Right
  <2> QED BY <2>1 DEF T
<1>8. /\ l \in Nat /\ n \in Nat /\ n <= l /\ KeptFrom(s, S, n, e)
      /\ IF l <= n THEN Len(e) = l ELSE n <= Len(e)
  BY <1>2, <1>7 DEF KeptOf
<1> HIDE DEF l, Right
<1>9. n <= Len(e)
  <2> HIDE DEF e
  <2> QED BY <1>8
<1> QED BY <1>1, <1>8, <1>9 DEF l

(* The first element stays the first.                                      *)
LEMMA AppendHead ==
  ASSUME NEW U, NEW t \in Seq(U), NEW x \in U, t # << >>
  PROVE  Append(t, x) \in Seq(U) /\ Append(t, x) # << >> /\ Append(t, x)[1] = t[1]
<1>1. Len(t) \in Nat /\ Len(t) # 0
  OBVIOUS
<1>2. Append(t, x) \in Seq(U)
  OBVIOUS
<1>3. Len(Append(t, x)) = Len(t) + 1 /\ \A i \in 1..Len(t) : Append(t, x)[i] = t[i]
  OBVIOUS
<1>4. Append(t, x) # << >>
  BY <1>1, <1>2, <1>3
<1> QED BY <1>1, <1>2, <1>3, <1>4

LEMMA KeptHead ==
  ASSUME NEW U, NEW s \in Seq(U), NEW S, s # << >>, s[1] \in S
  PROVE  Kept(s, S) # << >> /\ Kept(s, S)[1] = s[1]
<1>1. PICK f : KeptUpTo(f, s, S, Len(s)) /\ Kept(s, S) = f[Len(s)]
  BY KeptUnfolds
<1>2. Len(s) \in Nat \ {0} /\ \A n \in 1..Len(s) : s[n] \in U
  OBVIOUS
<1>3. /\ f[0] = << >>
      /\ \A n \in 1..Len(s) :
            f[n] = IF s[n] \in S THEN Append(f[n - 1], s[n]) ELSE f[n - 1]
  <2>1. \A n \in 0..Len(s) :
           f[n] = IF n = 0 THEN << >>
                  ELSE IF s[n] \in S THEN Append(f[n - 1], s[n]) ELSE f[n - 1]
    <3> DEFINE N == Len(s)
    <3>1. KeptUpTo(f, s, S, N)
      BY <1>1
    <3> HIDE DEF N
    <3> QED BY <3>1 DEF KeptUpTo, N
  <2>2. 0 \in 0..Len(s) /\ \A n \in 1..Len(s) : n \in 0..Len(s) /\ n # 0
    BY <1>2
  <2> QED BY <2>1, <2>2
<1> DEFINE Right(n) == f[n] \in Seq(U) /\ f[n] # << >> /\ f[n][1] = s[1]
           T == {n \in Nat : n + 1 <= Len(s) => Right(n + 1)}
<1>4. 0 \in T
  <2>1. f[1] = Append(<< >>, s[1]) /\ s[1] \in U
    <3>1. 1 \in 1..Len(s) /\ 1 - 1 = 0
      BY <1>2
    <3> QED BY <1>2, <1>3, <3>1
  <2>2. << >> \in Seq(U)
    OBVIOUS
  <2>3. ASSUME NEW x \in U
        PROVE  /\ Append(<< >>, x) \in Seq(U) /\ Append(<< >>, x) # << >>
               /\ Append(<< >>, x)[1] = x
    OBVIOUS
  <2>4. Right(1)
    BY <2>1, <2>3
  <2> HIDE DEF Right
  <2> QED BY <2>4
<1>5. ASSUME NEW n \in Nat, n \in T PROVE n + 1 \in T
  <2> SUFFICES ASSUME (n + 1) + 1 <= Len(s) PROVE Right((n + 1) + 1)
    OBVIOUS
  <2> DEFINE p == n + 1
             q == p + 1
  <2>1. q \in 1..Len(s) /\ q - 1 = p /\ p <= Len(s)
    BY <1>2
  <2>2. f[p] \in Seq(U) /\ f[p] # << >> /\ f[p][1] = s[1]
    <3>1. Right(n + 1)
      <4> HIDE DEF Right
      <4> QED BY <1>5, <2>1
    <3> QED BY <3>1
  <2>3. f[q] = (IF s[q] \in S THEN Append(f[p], s[q]) ELSE f[p]) /\ s[q] \in U
    BY <1>2, <1>3, <2>1
  <2> HIDE DEF p, q
  <2>4. Right(q)
    BY <2>2, <2>3, AppendHead
  <2> HIDE DEF Right
  <2> QED BY <2>4 DEF p, q
<1> HIDE DEF T
<1>6. Nat \subseteq T
  BY <1>4, <1>5, SetInduction
<1>7. Right(Len(s))
  <2>1. Len(s) - 1 \in T /\ (Len(s) - 1) + 1 = Len(s)
    BY <1>2, <1>6
  <2> HIDE DEF Right
  <2> QED BY <1>2, <2>1 DEF T
<1> QED BY <1>1, <1>7

-----------------------------------------------------------------------------
(* How often a list holds a value.                                         *)
LEMMA OccurrencesFinite ==
  ASSUME NEW S, NEW s \in Seq(S), NEW x
  PROVE  /\ IsFiniteSet({i \in 1..Len(s) : s[i] = x})
         /\ Occurrences(s, x) \in Nat
<1>1. IsFiniteSet(1..Len(s)) /\ {i \in 1..Len(s) : s[i] = x} \in SUBSET (1..Len(s))
  BY FS_Interval
<1>2. IsFiniteSet({i \in 1..Len(s) : s[i] = x})
  BY <1>1, FS_Subset
<1> QED BY <1>2, FS_CardinalityType DEF Occurrences

LEMMA OccursIffMember ==
  ASSUME NEW S, NEW s \in Seq(S), NEW x
  PROVE  x \in Members(s) <=> Occurrences(s, x) > 0
<1> DEFINE A == {i \in 1..Len(s) : s[i] = x}
<1>1. IsFiniteSet(A) /\ Occurrences(s, x) \in Nat
  BY OccurrencesFinite
<1>2. Occurrences(s, x) = 0 <=> A = {}
  <2> HIDE DEF A
  <2>1. Cardinality(A) = 0 <=> A = {}
    BY <1>1, FS_EmptySet
  <2> QED BY <2>1 DEF Occurrences, A
<1>3. x \in Members(s) <=> A # {}
  BY DEF Members
<1> QED BY <1>1, <1>2, <1>3

LEMMA OccurrencesOfEmpty ==
  ASSUME NEW x
  PROVE  Occurrences(<< >>, x) = 0
<1>1. {i \in 1..Len(<< >>) : << >>[i] = x} = {}
  OBVIOUS
<1> QED BY <1>1, FS_EmptySet DEF Occurrences

LEMMA ConcatElements ==
  ASSUME NEW S, NEW s \in Seq(S), NEW t \in Seq(S)
  PROVE  /\ Len(s) \in Nat /\ Len(t) \in Nat
         /\ s \o t \in Seq(S) /\ Len(s \o t) = Len(s) + Len(t)
         /\ \A i \in 1..(Len(s) + Len(t)) :
              (s \o t)[i] = IF i <= Len(s) THEN s[i] ELSE t[i - Len(s)]
  OBVIOUS

LEMMA ConcatMembers ==
  ASSUME NEW S, NEW s \in Seq(S), NEW t \in Seq(S)
  PROVE  /\ s \o t \in Seq(S)
         /\ Members(s \o t) = Members(s) \cup Members(t)
<1>1. /\ Len(s) \in Nat /\ Len(t) \in Nat /\ Len(s \o t) = Len(s) + Len(t)
      /\ \A i \in 1..(Len(s) + Len(t)) :
           (s \o t)[i] = IF i <= Len(s) THEN s[i] ELSE t[i - Len(s)]
  OBVIOUS
<1>2. ASSUME NEW i \in 1..Len(s \o t)
      PROVE  (s \o t)[i] \in Members(s) \cup Members(t)
  <2>1. i <= Len(s) => i \in 1..Len(s)
    BY <1>1
  <2>2. ~(i <= Len(s)) => i - Len(s) \in 1..Len(t)
    BY <1>1
  <2> QED BY <1>1, <2>1, <2>2 DEF Members
<1>3. ASSUME NEW i \in 1..Len(s) PROVE s[i] \in Members(s \o t)
  <2>1. i \in 1..Len(s \o t) /\ (s \o t)[i] = s[i]
    BY <1>1
  <2> QED BY <2>1 DEF Members
<1>4. ASSUME NEW i \in 1..Len(t) PROVE t[i] \in Members(s \o t)
  <2>1. i + Len(s) \in 1..Len(s \o t) /\ (s \o t)[i + Len(s)] = t[i]
    BY <1>1
  <2> QED BY <2>1 DEF Members
<1>5. Members(s \o t) \subseteq Members(s) \cup Members(t)
  BY <1>2 DEF Members
<1>6. Members(s) \subseteq Members(s \o t) /\ Members(t) \subseteq Members(s \o t)
  BY <1>3, <1>4 DEF Members
<1> QED BY <1>5, <1>6

LEMMA ConcatOccurrences ==
  ASSUME NEW S, NEW s \in Seq(S), NEW t \in Seq(S), NEW x
  PROVE  Occurrences(s \o t, x) = Occurrences(s, x) + Occurrences(t, x)
<1> DEFINE A == {i \in 1..Len(s) : s[i] = x}
           B == {i \in 1..Len(t) : t[i] = x}
           C == {i \in 1..Len(s \o t) : (s \o t)[i] = x}
           D == C \ A
           shift == [i \in B |-> i + Len(s)]
<1>1. /\ Len(s) \in Nat /\ Len(t) \in Nat /\ Len(s \o t) = Len(s) + Len(t)
      /\ \A i \in 1..(Len(s) + Len(t)) :
           (s \o t)[i] = IF i <= Len(s) THEN s[i] ELSE t[i - Len(s)]
  OBVIOUS
<1>2. A \subseteq C /\ A \cap D = {} /\ C = A \cup D
  BY <1>1
<1>3. /\ \A i \in B : i + Len(s) \in D
      /\ \A d \in D : d - Len(s) \in B
  BY <1>1
<1>4. shift \in Bijection(B, D)
  <2>1. shift \in [B -> D]
    BY <1>3
  <2>2. \A i, j \in B : shift[i] = shift[j] => i = j
    BY <1>1
  <2>3. \A d \in D : \E i \in B : shift[i] = d
    <3>1. ASSUME NEW d \in D PROVE shift[d - Len(s)] = d
      <4>1. d \in Int /\ d - Len(s) \in B
        BY <1>3
      <4> HIDE DEF B, D
      <4> QED BY <4>1, <1>1
    <3> HIDE DEF B, D, shift
    <3> QED BY <1>3, <3>1
  <2> HIDE DEF shift, B, D
  <2> QED BY <2>1, <2>2, <2>3, Fun_IsBij
<1>5. IsFiniteSet(A) /\ IsFiniteSet(B)
  BY OccurrencesFinite
<1>6. IsFiniteSet(D) /\ Cardinality(D) = Cardinality(B)
  <2> HIDE DEF A, B, C, D, shift
  <2> QED BY <1>4, <1>5, FS_Bijection DEF ExistsBijection
<1>7. Cardinality(A) \in Nat /\ Cardinality(D) \in Nat
  BY <1>5, <1>6, FS_CardinalityType
<1>8. Cardinality(C) = Cardinality(A) + Cardinality(D)
  <2>1. Cardinality(A \cup D) = Cardinality(A) + Cardinality(D) - Cardinality(A \cap D)
    <3> HIDE DEF A, D
    <3> QED BY <1>5, <1>6, FS_Union
  <2>2. Cardinality(A \cap D) = 0
    <3> HIDE DEF A, D
    <3> QED BY <1>2, FS_EmptySet
  <2> HIDE DEF A, D, C
  <2> QED BY <1>2, <1>7, <2>1, <2>2
<1> HIDE DEF D, shift
<1> QED BY <1>6, <1>8 DEF Occurrences

(* A list that repeats one value.                                          *)
LEMMA RepeatOccurrences ==
  ASSUME NEW S, NEW v \in S, NEW n \in Nat, NEW x
  PROVE  /\ [j \in 1..n |-> v] \in Seq(S)
         /\ Occurrences([j \in 1..n |-> v], x) = IF x = v THEN n ELSE 0
<1> DEFINE r == [j \in 1..n |-> v]
<1>1. r \in Seq(S) /\ Len(r) = n
  OBVIOUS
<1>2. ASSUME x = v PROVE Occurrences(r, x) = n
  <2>1. {i \in 1..Len(r) : r[i] = x} = 1..n
    BY <1>1, <1>2
  <2>2. Cardinality(1..n) = n
    BY FS_Interval
  <2> HIDE DEF r
  <2> QED BY <1>1, <1>2, <2>1, <2>2 DEF Occurrences
<1>3. ASSUME x # v PROVE Occurrences(r, x) = 0
  <2>1. {i \in 1..Len(r) : r[i] = x} = {}
    BY <1>1, <1>3
  <2> HIDE DEF r
  <2> QED BY <1>1, <1>3, <2>1, FS_EmptySet DEF Occurrences
<1> QED BY <1>1, <1>2, <1>3

LEMMA SingleOccurrences ==
  ASSUME NEW v, NEW x
  PROVE  Occurrences(<<v>>, x) = IF v = x THEN 1 ELSE 0
<1>1. Len(<<v>>) = 1 /\ <<v>>[1] = v /\ 1..1 = {1}
  OBVIOUS
<1>2. {i \in 1..Len(<<v>>) : <<v>>[i] = x} = IF v = x THEN {1} ELSE {}
  BY <1>1
<1> QED BY <1>2, FS_Singleton, FS_EmptySet DEF Occurrences

-----------------------------------------------------------------------------
(* A stack whose top is replaced by a list of elements.                    *)
LEMMA ReplaceHead ==
  ASSUME NEW U, NEW s \in Seq(U), s # << >>, NEW new \in Seq(U),
         NEW r, r = new \o Tail(s)
  PROVE  /\ Head(s) = s[1] /\ s[1] \in U /\ Tail(s) \in Seq(U)
         /\ Len(s) \in Nat \ {0} /\ Len(new) \in Nat
         /\ r \in Seq(U) /\ Len(r) = Len(new) + Len(s) - 1
         /\ \A i \in 1..Len(new) : i \in 1..Len(r) /\ r[i] = new[i]
         /\ \A i \in 1..Len(r) : i \notin 1..Len(new) =>
                /\ i - Len(new) + 1 \in 2..Len(s)
                /\ r[i] = s[i - Len(new) + 1]
<1> DEFINE t == Tail(s)
<1>1. /\ Head(s) = s[1] /\ s[1] \in U /\ t \in Seq(U)
      /\ Len(s) \in Nat \ {0} /\ Len(t) = Len(s) - 1
      /\ \A i \in 1..Len(t) : t[i] = s[i + 1]
  OBVIOUS
<1>2. Len(new) \in Nat /\ r = new \o t
  OBVIOUS
<1> HIDE DEF t
<1>3. /\ r \in Seq(U) /\ Len(r) = Len(new) + Len(t)
      /\ \A i \in 1..(Len(new) + Len(t)) :
           r[i] = IF i <= Len(new) THEN new[i] ELSE t[i - Len(new)]
  <2>1. PICK p : p = new \o t
    OBVIOUS
  <2>2. /\ p \in Seq(U) /\ Len(p) = Len(new) + Len(t)
        /\ \A i \in 1..(Len(new) + Len(t)) :
             p[i] = IF i <= Len(new) THEN new[i] ELSE t[i - Len(new)]
    <3>1. t \in Seq(U)
      BY <1>1
    <3> QED BY <2>1, <3>1, ConcatElements
  <2>3. r = p
    BY <1>2, <2>1
  <2> QED BY <2>2, <2>3
<1>4. ASSUME NEW i \in 1..Len(new) PROVE i \in 1..Len(r) /\ r[i] = new[i]
  BY <1>1, <1>2, <1>3
<1>5. ASSUME NEW i \in 1..Len(r), i \notin 1..Len(new)
      PROVE  i - Len(new) + 1 \in 2..Len(s) /\ r[i] = s[i - Len(new) + 1]
  <2>1. i - Len(new) \in 1..Len(t)
    BY <1>1, <1>2, <1>3, <1>5
  <2>2. r[i] = t[i - Len(new)] /\ t[i - Len(new)] = s[(i - Len(new)) + 1]
    BY <1>1, <1>2, <1>3, <1>5, <2>1
  <2> QED BY <1>1, <1>2, <2>1, <2>2
<1> QED BY <1>1, <1>2, <1>3, <1>4, <1>5 DEF t

-----------------------------------------------------------------------------
(* A graph whose edges stay inside it.                                     *)
Graph(f) ==
    /\ f.blocks \in Seq(Members(f.blocks)) /\ f.blocks # << >>
    /\ \A b \in Members(f.blocks) : f.succ[b] \in Seq(Members(f.blocks))

Distinct(s) == \A j, k \in 1..Len(s) : s[j] = s[k] => j = k

Step(f, a, b) == b \in Members(f.succ[a])

(* A walk from the entry that visits no block twice and none of cut.       *)
Walk(f, w, cut) ==
    /\ w \in Seq(Members(f.blocks)) /\ w # << >> /\ w[1] = Entry(f)
    /\ \A k \in 1..(Len(w) - 1) : Step(f, w[k], w[k + 1])
    /\ Distinct(w) /\ Members(w) \cap cut = {}

Leads(f, w, cut, x) == Walk(f, w, cut) /\ w[Len(w)] = x

-----------------------------------------------------------------------------
(* A list without repetition holds as many elements as it is long.         *)
LEMMA DistinctCardinality ==
  ASSUME NEW S, NEW s \in Seq(S), Distinct(s)
  PROVE  IsFiniteSet(Members(s)) /\ Cardinality(Members(s)) = Len(s)
<1>1. Len(s) \in Nat
  OBVIOUS
<1> DEFINE g == [k \in 1..Len(s) |-> s[k]]
<1>2. g \in Bijection(1..Len(s), Members(s))
  <2>1. g \in [1..Len(s) -> Members(s)]
    BY DEF Members
  <2>2. \A j, k \in 1..Len(s) : g[j] = g[k] => j = k
    BY DEF Distinct
  <2>3. \A x \in Members(s) : \E k \in 1..Len(s) : g[k] = x
    BY DEF Members
  <2> HIDE DEF g
  <2> QED BY <2>1, <2>2, <2>3, Fun_IsBij
<1>3. ExistsBijection(1..Len(s), Members(s))
  BY <1>2 DEF ExistsBijection
<1>4. IsFiniteSet(1..Len(s)) /\ Cardinality(1..Len(s)) = Len(s)
  <2> DEFINE m == Len(s)
  <2>1. m \in Nat
    BY <1>1
  <2> HIDE DEF m
  <2>2. IsFiniteSet(1..m) /\ Cardinality(1..m) = IF 1 > m THEN 0 ELSE m - 1 + 1
    BY <2>1, FS_Interval
  <2> QED BY <2>1, <2>2 DEF m
<1> QED BY <1>3, <1>4, FS_Bijection

LEMMA MembersAtMost ==
  ASSUME NEW S, NEW s \in Seq(S)
  PROVE  IsFiniteSet(Members(s)) /\ Cardinality(Members(s)) <= Len(s)
<1>1. Len(s) \in Nat
  OBVIOUS
<1> DEFINE g == [k \in 1..Len(s) |-> s[k]]
<1>2. g \in Surjection(1..Len(s), Members(s))
  <2>1. g \in [1..Len(s) -> Members(s)]
    BY DEF Members
  <2>2. \A x \in Members(s) : \E k \in 1..Len(s) : g[k] = x
    BY DEF Members
  <2> HIDE DEF g
  <2> QED BY <2>1, <2>2, Fun_IsSurj
<1>3. IsFiniteSet(1..Len(s)) /\ Cardinality(1..Len(s)) = Len(s)
  <2> DEFINE m == Len(s)
  <2>1. m \in Nat
    BY <1>1
  <2> HIDE DEF m
  <2>2. IsFiniteSet(1..m) /\ Cardinality(1..m) = IF 1 > m THEN 0 ELSE m - 1 + 1
    BY <2>1, FS_Interval
  <2> QED BY <2>1, <2>2 DEF m
<1> HIDE DEF g
<1> QED BY <1>2, <1>3, FS_Surjection

LEMMA DistinctFits ==
  ASSUME NEW S, NEW s \in Seq(S), NEW t \in Seq(S), Distinct(s), Members(s) \subseteq Members(t)
  PROVE  Len(s) <= Len(t)
<1>1. IsFiniteSet(Members(t)) /\ Cardinality(Members(t)) <= Len(t)
  BY MembersAtMost
<1>2. Cardinality(Members(s)) = Len(s)
  BY DistinctCardinality
<1>3. Cardinality(Members(s)) <= Cardinality(Members(t))
  BY <1>1, FS_Subset
<1>4. Len(s) \in Nat /\ Len(t) \in Nat /\ Cardinality(Members(t)) \in Nat
  BY <1>1, FS_CardinalityType
<1> QED BY <1>1, <1>2, <1>3, <1>4

-----------------------------------------------------------------------------
(* The recursion of ReachAvoiding has a solution.                          *)
NextEnds(f, cut, before) == (UNION {Members(f.succ[b]) : b \in before}) \ cut

EndsUpTo(e, f, cut, N) ==
    e = [n \in 0..N |-> IF n = 0 THEN {Entry(f)} \ cut ELSE NextEnds(f, cut, e[n - 1])]

LEMMA EndsExist ==
  ASSUME NEW f, NEW cut
  PROVE  \A N \in Nat : \E e : EndsUpTo(e, f, cut, N)
<1> DEFINE T == {N \in Nat : \E e : EndsUpTo(e, f, cut, N)}
           first == {Entry(f)} \ cut
<1>1. 0 \in T
  <2> DEFINE e == [n \in 0..0 |-> first]
  <2>1. EndsUpTo(e, f, cut, 0)
    BY DEF EndsUpTo
  <2> QED BY <2>1
<1>2. ASSUME NEW N \in Nat, N \in T PROVE N + 1 \in T
  <2>1. PICK e : EndsUpTo(e, f, cut, N)
    BY <1>2
  <2> DEFINE last == NextEnds(f, cut, e[N])
             g == [n \in 0..(N + 1) |-> IF n \in 0..N THEN e[n] ELSE last]
  <2>2. (\A n \in 0..N : g[n] = e[n]) /\ g[N + 1] = last
    OBVIOUS
  <2>3. \A n \in 0..N : e[n] = IF n = 0 THEN first ELSE NextEnds(f, cut, e[n - 1])
    BY <2>1 DEF EndsUpTo
  <2>4. ASSUME NEW n \in 0..(N + 1)
        PROVE  g[n] = IF n = 0 THEN first ELSE NextEnds(f, cut, g[n - 1])
    <3> HIDE DEF g
    <3>1. CASE n = 0
      BY <3>1, <2>2, <2>3
    <3>2. CASE n \in 1..N
      <4>1. n \in 0..N /\ n - 1 \in 0..N /\ n # 0
        BY <3>2
      <4> QED BY <4>1, <2>2, <2>3
    <3>3. CASE n = N + 1
      <4>1. N \in 0..N /\ n - 1 = N /\ n # 0
        BY <3>3
      <4> QED BY <3>3, <4>1, <2>2
    <3> QED BY <3>1, <3>2, <3>3
  <2>5. EndsUpTo(g, f, cut, N + 1)
    BY <2>4 DEF EndsUpTo
  <2> QED BY <2>5
<1> HIDE DEF T
<1>3. Nat \subseteq T
  BY <1>1, <1>2, SetInduction
<1> QED BY <1>3 DEF T

LEMMA ReachUnfolds ==
  ASSUME NEW f, NEW cut, Len(f.blocks) \in Nat
  PROVE  \E e : /\ EndsUpTo(e, f, cut, Len(f.blocks))
                /\ ReachAvoiding(f, cut) = UNION {e[n] : n \in 0..Len(f.blocks)}
<1> DEFINE e == CHOOSE e : e = [n \in 0..Len(f.blocks) |->
                    IF n = 0 THEN {Entry(f)} \ cut
                    ELSE (UNION {Members(f.succ[b]) : b \in e[n - 1]}) \ cut]
<1>1. ReachAvoiding(f, cut) = UNION {e[n] : n \in 0..Len(f.blocks)}
  BY DEF ReachAvoiding
<1>2. \E g : EndsUpTo(g, f, cut, Len(f.blocks))
  BY EndsExist
<1>3. EndsUpTo(e, f, cut, Len(f.blocks))
  BY <1>2 DEF EndsUpTo, NextEnds
<1> HIDE DEF e
<1> QED BY <1>1, <1>3

(* What holds the entry and is closed under edges holds what is reached.   *)
LEMMA ReachIsLeast ==
  ASSUME NEW f, NEW cut, Len(f.blocks) \in Nat, NEW S, Entry(f) \in S \cup cut,
         \A a \in S : Members(f.succ[a]) \subseteq S \cup cut
  PROVE  ReachAvoiding(f, cut) \subseteq S
<1>1. PICK e : /\ EndsUpTo(e, f, cut, Len(f.blocks))
               /\ ReachAvoiding(f, cut) = UNION {e[n] : n \in 0..Len(f.blocks)}
  BY ReachUnfolds
<1> DEFINE m == Len(f.blocks)
<1>2. \A n \in 0..m : e[n] = IF n = 0 THEN {Entry(f)} \ cut ELSE NextEnds(f, cut, e[n - 1])
  BY <1>1 DEF EndsUpTo
<1>3. m \in Nat
  OBVIOUS
<1> HIDE DEF m
<1> DEFINE T == {n \in Nat : n <= m => e[n] \subseteq S}
<1>4. 0 \in T
  BY <1>2, <1>3
<1>5. ASSUME NEW n \in Nat, n \in T PROVE n + 1 \in T
  <2> SUFFICES ASSUME n + 1 <= m PROVE e[n + 1] \subseteq S
    OBVIOUS
  <2>1. n + 1 \in 0..m /\ n + 1 # 0 /\ (n + 1) - 1 = n /\ n <= m
    BY <1>3
  <2>2. e[n] \subseteq S
    BY <1>5, <2>1
  <2>3. e[n + 1] = NextEnds(f, cut, e[n])
    BY <1>2, <2>1
  <2> QED BY <2>2, <2>3 DEF NextEnds
<1>6. Nat \subseteq T
  <2> HIDE DEF T
  <2> QED BY <1>4, <1>5, SetInduction
<1>7. \A n \in 0..m : e[n] \subseteq S
  BY <1>3, <1>6
<1> QED BY <1>1, <1>7 DEF m

(* A walk that avoids cut ends in a block that is reached without it.      *)
LEMMA WalkReaches ==
  ASSUME NEW f, Graph(f), NEW cut, NEW w, Walk(f, w, cut)
  PROVE  w[Len(w)] \in ReachAvoiding(f, cut)
<1>1. /\ w \in Seq(Members(f.blocks)) /\ Len(w) \in Nat \ {0} /\ w[1] = Entry(f)
      /\ Len(f.blocks) \in Nat
      /\ \A k \in 1..(Len(w) - 1) : Step(f, w[k], w[k + 1])
      /\ \A k \in 1..Len(w) : w[k] \notin cut
  BY DEF Walk, Graph, Members
<1>2. Len(w) <= Len(f.blocks)
  <2>1. Members(w) \subseteq Members(f.blocks)
    BY <1>1, MembersOfSeq
  <2>2. f.blocks \in Seq(Members(f.blocks))
    BY DEF Graph
  <2> QED BY <1>1, <2>1, <2>2, DistinctFits DEF Walk
<1>3. PICK e : /\ EndsUpTo(e, f, cut, Len(f.blocks))
               /\ ReachAvoiding(f, cut) = UNION {e[n] : n \in 0..Len(f.blocks)}
  BY <1>1, ReachUnfolds
<1> DEFINE m == Len(f.blocks)
           l == Len(w)
<1>4. /\ \A n \in 0..m : e[n] = IF n = 0 THEN {Entry(f)} \ cut ELSE NextEnds(f, cut, e[n - 1])
      /\ m \in Nat /\ l \in Nat \ {0} /\ l <= m
      /\ \A k \in 1..(l - 1) : Step(f, w[k], w[k + 1])
      /\ \A k \in 1..l : w[k] \notin cut
  BY <1>1, <1>2, <1>3 DEF EndsUpTo
<1> HIDE DEF m, l
<1> DEFINE T == {n \in Nat : n < l => w[n + 1] \in e[n]}
<1>5. 0 \in T
  BY <1>1, <1>4
<1>6. ASSUME NEW n \in Nat, n \in T PROVE n + 1 \in T
  <2> SUFFICES ASSUME n + 1 < l PROVE w[(n + 1) + 1] \in e[n + 1]
    OBVIOUS
  <2>1. n + 1 \in 1..(l - 1) /\ (n + 1) + 1 \in 1..l /\ n + 1 \in 0..m /\ n + 1 # 0 /\ n < l
        /\ (n + 1) - 1 = n
    BY <1>4
  <2>2. w[n + 1] \in e[n] /\ Step(f, w[n + 1], w[(n + 1) + 1]) /\ w[(n + 1) + 1] \notin cut
    BY <1>4, <1>6, <2>1
  <2>3. e[n + 1] = NextEnds(f, cut, e[n])
    BY <1>4, <2>1
  <2> QED BY <2>2, <2>3 DEF NextEnds, Step
<1>7. Nat \subseteq T
  <2> HIDE DEF T
  <2> QED BY <1>5, <1>6, SetInduction
<1>8. l - 1 \in 0..m /\ w[l] \in e[l - 1]
  <2>1. l - 1 \in Nat /\ l - 1 < l /\ (l - 1) + 1 = l
    BY <1>4
  <2>2. l - 1 \in T
    BY <1>7, <2>1
  <2>3. w[(l - 1) + 1] \in e[l - 1]
    BY <2>1, <2>2
  <2> QED BY <1>4, <2>1, <2>3
<1> QED BY <1>3, <1>8 DEF m, l

LEMMA WalkCut ==
  ASSUME NEW f, Graph(f), NEW cut, NEW w, Walk(f, w, cut), NEW n \in 1..Len(w),
         NEW t, t = [k \in 1..n |-> w[k]]
  PROVE  Walk(f, t, cut) /\ Len(t) = n /\ t[n] = w[n]
<1>1. /\ w \in Seq(Members(f.blocks)) /\ Len(w) \in Nat \ {0} /\ w[1] = Entry(f)
      /\ \A k \in 1..(Len(w) - 1) : Step(f, w[k], w[k + 1])
      /\ Distinct(w) /\ \A k \in 1..Len(w) : w[k] \notin cut
  BY DEF Walk, Members
<1>2. n \in Nat \ {0} /\ n <= Len(w)
  BY <1>1
<1>3. t \in Seq(Members(f.blocks)) /\ Len(t) = n /\ \A k \in 1..n : t[k] = w[k]
  BY <1>1, <1>2
<1>4. \A k \in 1..(n - 1) : Step(f, t[k], t[k + 1])
  <2> SUFFICES ASSUME NEW k \in 1..(n - 1) PROVE Step(f, t[k], t[k + 1])
    OBVIOUS
  <2>1. k \in 1..n /\ k + 1 \in 1..n /\ k \in 1..(Len(w) - 1)
    BY <1>1, <1>2
  <2> QED BY <1>1, <1>3, <2>1
<1>5. Distinct(t)
  <2>1. \A k \in 1..n : k \in 1..Len(w)
    BY <1>1, <1>2
  <2> QED BY <1>1, <1>3, <2>1 DEF Distinct
<1>6. Members(t) \cap cut = {}
  <2>1. \A k \in 1..n : k \in 1..Len(w)
    BY <1>1, <1>2
  <2> QED BY <1>1, <1>3, <2>1 DEF Members
<1>7. t # << >> /\ t[1] = Entry(f) /\ t[n] = w[n]
  <2>1. 1 \in 1..n /\ n \in 1..n
    BY <1>2
  <2>2. t[1] = w[1] /\ t[n] = w[n]
    BY <1>3, <2>1
  <2>3. t # << >>
    BY <1>2, <1>3
  <2> QED BY <1>1, <2>2, <2>3
<1> QED BY <1>3, <1>4, <1>5, <1>6, <1>7 DEF Walk

LEMMA WalkAppend ==
  ASSUME NEW f, Graph(f), NEW cut, NEW w, NEW x, Leads(f, w, cut, x), NEW y, y \notin cut,
         y \notin Members(w), Step(f, x, y), NEW t, t = Append(w, y)
  PROVE  Leads(f, t, cut, y)
<1> USE DEF Leads
<1>1. /\ w \in Seq(Members(f.blocks)) /\ Len(w) \in Nat \ {0} /\ w[1] = Entry(f)
      /\ \A k \in 1..(Len(w) - 1) : Step(f, w[k], w[k + 1])
      /\ Distinct(w) /\ Members(w) \cap cut = {}
  BY DEF Walk
<1>2. y \in Members(f.blocks)
  <2>1. w[Len(w)] \in Members(f.blocks)
    BY <1>1
  <2>2. f.succ[w[Len(w)]] \in Seq(Members(f.blocks))
    BY <2>1 DEF Graph
  <2> QED BY <2>2, MembersOfSeq DEF Step
<1>3. /\ t \in Seq(Members(f.blocks)) /\ Len(t) = Len(w) + 1 /\ t[Len(w) + 1] = y
      /\ \A k \in 1..Len(w) : t[k] = w[k]
  BY <1>1, <1>2
<1> DEFINE n == Len(w)
<1>4. n \in Nat \ {0} /\ Len(t) = n + 1 /\ t[n + 1] = y /\ (\A k \in 1..n : t[k] = w[k])
      /\ \A k \in 1..(n - 1) : Step(f, w[k], w[k + 1])
      /\ Step(f, w[n], y)
  BY <1>1, <1>3
<1>5. Members(t) = Members(w) \cup {y}
  BY <1>1, AppendMembers
<1>6. \A k \in 1..n : w[k] # y
  BY DEF Members
<1> HIDE DEF n
<1>7. \A k \in 1..((n + 1) - 1) : Step(f, t[k], t[k + 1])
  <2> SUFFICES ASSUME NEW k \in 1..n PROVE Step(f, t[k], t[k + 1])
    BY <1>4
  <2>1. CASE k = n
    BY <1>4, <2>1
  <2>2. CASE k # n
    <3>1. k \in 1..(n - 1) /\ k + 1 \in 1..n
      BY <1>4, <2>2
    <3> QED BY <1>4, <3>1
  <2> QED BY <2>1, <2>2
<1>8. Distinct(t)
  <2> SUFFICES ASSUME NEW j \in 1..(n + 1), NEW k \in 1..(n + 1), t[j] = t[k] PROVE j = k
    BY <1>4 DEF Distinct
  <2>1. CASE j \in 1..n /\ k \in 1..n
    BY <1>1, <1>4, <2>1 DEF Distinct, n
  <2>2. CASE j = n + 1 /\ k \in 1..n
    BY <1>4, <1>6, <2>2
  <2>3. CASE k = n + 1 /\ j \in 1..n
    BY <1>4, <1>6, <2>3
  <2>4. CASE j = n + 1 /\ k = n + 1
    BY <2>4
  <2>5. \A l \in 1..(n + 1) : l \in 1..n \/ l = n + 1
    BY <1>4
  <2> QED BY <2>1, <2>2, <2>3, <2>4, <2>5
<1>9. t # << >> /\ t[1] = Entry(f)
  BY <1>1, <1>3
<1> QED BY <1>1, <1>3, <1>4, <1>5, <1>7, <1>8, <1>9 DEF Walk

LEMMA WalkExtends ==
  ASSUME NEW f, Graph(f), NEW cut, NEW w, NEW x, Leads(f, w, cut, x), NEW y, y \notin cut,
         Step(f, x, y)
  PROVE  \E t : Leads(f, t, cut, y)
<1>1. CASE y \in Members(w)
  <2>1. PICK n \in 1..Len(w) : w[n] = y
    BY <1>1 DEF Members
  <2> DEFINE t == [k \in 1..n |-> w[k]]
  <2>2. Walk(f, t, cut) /\ Len(t) = n /\ t[n] = w[n]
    <3>1. Walk(f, w, cut)
      BY DEF Leads
    <3> HIDE DEF t
    <3> QED BY <3>1, WalkCut DEF t
  <2> HIDE DEF t
  <2> QED BY <2>1, <2>2 DEF Leads
<1>2. CASE y \notin Members(w)
  <2> DEFINE t == Append(w, y)
  <2>1. y \notin Members(w) /\ t = Append(w, y)
    BY <1>2
  <2> HIDE DEF t
  <2>2. Leads(f, t, cut, y)
    BY <2>1, WalkAppend
  <2> QED BY <2>2
<1> QED BY <1>1, <1>2

LEMMA EntryWalk ==
  ASSUME NEW f, Graph(f), NEW cut, Entry(f) \notin cut, NEW w, w = <<Entry(f)>>
  PROVE  Leads(f, w, cut, Entry(f))
<1>1. Entry(f) \in Members(f.blocks)
  <2>1. Len(f.blocks) \in Nat \ {0}
    BY DEF Graph
  <2> QED BY <2>1 DEF Entry, Members
<1> DEFINE x == Entry(f)
<1>2. w = <<x>> /\ x \in Members(f.blocks) /\ x \notin cut
  BY <1>1
<1> HIDE DEF x
<1>3. w \in Seq(Members(f.blocks)) /\ Len(w) = 1 /\ w[1] = x /\ w # << >>
  BY <1>2
<1>4. Members(w) = {x}
  <2>1. 1..1 = {1}
    OBVIOUS
  <2> QED BY <1>3, <2>1 DEF Members
<1>5. Distinct(w)
  BY <1>3 DEF Distinct
<1>6. \A k \in 1..(Len(w) - 1) : Step(f, w[k], w[k + 1])
  BY <1>3
<1> QED BY <1>2, <1>3, <1>4, <1>5, <1>6 DEF Walk, Leads, x

(* What is reached without cut is where the walks that avoid cut lead.     *)
LEMMA ReachByWalk ==
  ASSUME NEW f, Graph(f), NEW cut
  PROVE  /\ ReachAvoiding(f, cut) \subseteq Members(f.blocks) \ cut
         /\ \A x : x \in ReachAvoiding(f, cut) <=> \E w : Leads(f, w, cut, x)
<1> DEFINE S == {x \in Members(f.blocks) \ cut : \E w : Leads(f, w, cut, x)}
<1>1. \A w, x : Leads(f, w, cut, x) => x \in S
  <2> SUFFICES ASSUME NEW w, NEW x, Leads(f, w, cut, x)
               PROVE  x \in Members(f.blocks) \ cut
    OBVIOUS
  <2>1. w \in Seq(Members(f.blocks)) /\ Len(w) \in Nat \ {0} /\ Members(w) \cap cut = {}
        /\ w[Len(w)] = x
    BY DEF Walk, Leads
  <2>2. w[Len(w)] \in Members(w)
    BY <2>1 DEF Members
  <2> QED BY <2>1, <2>2
<1>2. Len(f.blocks) \in Nat
  BY DEF Graph
<1>3. Entry(f) \in S \cup cut
  <2> DEFINE w == <<Entry(f)>>
  <2>1. Entry(f) \notin cut => Leads(f, w, cut, Entry(f))
    <3> HIDE DEF w
    <3> QED BY EntryWalk DEF w
  <2> HIDE DEF w, S
  <2> QED BY <1>1, <2>1
<1>4. \A a \in S : Members(f.succ[a]) \subseteq S \cup cut
  <2> SUFFICES ASSUME NEW a \in S, NEW y \in Members(f.succ[a]), y \notin cut PROVE y \in S
    OBVIOUS
  <2>1. PICK w : Leads(f, w, cut, a)
    OBVIOUS
  <2> HIDE DEF S
  <2>2. \E t : Leads(f, t, cut, y)
    BY <2>1, WalkExtends DEF Step
  <2> QED BY <1>1, <2>2
<1>5. ReachAvoiding(f, cut) \subseteq S
  <2> HIDE DEF S
  <2> QED BY <1>2, <1>3, <1>4, ReachIsLeast
<1> QED BY <1>1, <1>5, WalkReaches DEF Leads

LEMMA ReachClosed ==
  ASSUME NEW f, Graph(f), NEW cut
  PROVE  /\ Entry(f) \notin cut => Entry(f) \in ReachAvoiding(f, cut)
         /\ \A a \in ReachAvoiding(f, cut) :
              Members(f.succ[a]) \subseteq ReachAvoiding(f, cut) \cup cut
<1>1. ASSUME Entry(f) \notin cut PROVE Entry(f) \in ReachAvoiding(f, cut)
  <2> DEFINE w == <<Entry(f)>>
  <2>1. Leads(f, w, cut, Entry(f))
    <3> HIDE DEF w
    <3> QED BY <1>1, EntryWalk DEF w
  <2> HIDE DEF w
  <2> QED BY <2>1, ReachByWalk
<1>2. ASSUME NEW a \in ReachAvoiding(f, cut), NEW y \in Members(f.succ[a]), y \notin cut
      PROVE  y \in ReachAvoiding(f, cut)
  <2>1. PICK w : Leads(f, w, cut, a)
    BY ReachByWalk
  <2>2. \E t : Leads(f, t, cut, y)
    BY <1>2, <2>1, WalkExtends DEF Step
  <2> QED BY <2>2, ReachByWalk
<1> QED BY <1>1, <1>2

-----------------------------------------------------------------------------
(* x is on every walk to y.                                                *)
Dominates(f, x, y) ==
    x \in Reachable(f) /\ y \in Reachable(f) /\ y \notin ReachAvoiding(f, {x})

LEMMA DominancePairs ==
  ASSUME NEW f, Graph(f)
  PROVE  \A d : d \in Dominance(f) <=> \E x, y : d = <<x, y>> /\ Dominates(f, x, y)
<1> DEFINE R == Reachable(f)
<1>1. \A x : x \notin ReachAvoiding(f, {x})
  BY ReachByWalk
<1>2. ASSUME NEW d, d \in Dominance(f) PROVE \E x, y : d = <<x, y>> /\ Dominates(f, x, y)
  <2>1. CASE \E x \in R : d = <<x, x>>
    BY <1>1, <2>1 DEF Dominates
  <2>2. CASE \E x \in R : \E y \in R \ ReachAvoiding(f, {x}) : d = <<x, y>>
    BY <2>2 DEF Dominates
  <2> QED BY <1>2, <2>1, <2>2 DEF Dominance
<1>3. ASSUME NEW x, NEW y, Dominates(f, x, y) PROVE <<x, y>> \in Dominance(f)
  <2>1. x \in R /\ y \in R \ ReachAvoiding(f, {x})
    BY <1>3 DEF Dominates
  <2> QED BY <2>1 DEF Dominance
<1> QED BY <1>2, <1>3

LEMMA OnTheWalk ==
  ASSUME NEW f, Graph(f), NEW w, NEW y, Leads(f, w, {}, y), NEW x, Dominates(f, x, y)
  PROVE  x \in Members(w)
<1> SUFFICES ASSUME x \notin Members(w) PROVE FALSE
  OBVIOUS
<1>1. Leads(f, w, {x}, y)
  BY DEF Leads, Walk
<1>2. y \in ReachAvoiding(f, {x})
  BY <1>1, ReachByWalk
<1> QED BY <1>2 DEF Dominates
-----------------------------------------------------------------------------
(* Dominance is a partial order in which the dominators of a block stand   *)
(* in a line.                                                              *)
StrictlyDominates(f, x, y) == Dominates(f, x, y) /\ x # y

LEMMA DominatesItself ==
  ASSUME NEW f, Graph(f), NEW x \in Reachable(f)
  PROVE  Dominates(f, x, x)
  BY ReachByWalk DEF Dominates

LEMMA EntryDominates ==
  ASSUME NEW f, Graph(f), NEW y \in Reachable(f)
  PROVE  Dominates(f, Entry(f), y)
<1>1. Len(f.blocks) \in Nat
  BY DEF Graph
<1> DEFINE x == Entry(f)
           cut == {x}
           S == {}
<1>2. ReachAvoiding(f, cut) \subseteq S
  <2>1. Entry(f) \in S \cup cut /\ \A a \in S : Members(f.succ[a]) \subseteq S \cup cut
    OBVIOUS
  <2> HIDE DEF S, cut
  <2> QED BY <1>1, <2>1, ReachIsLeast
<1>3. x \in Reachable(f)
  <2> DEFINE none == {}
  <2>1. x \notin none
    OBVIOUS
  <2> HIDE DEF none
  <2>2. x \in ReachAvoiding(f, none)
    BY <2>1, ReachClosed
  <2> QED BY <2>2 DEF Reachable, none
<1> QED BY <1>2, <1>3 DEF Dominates

(* A walk to y that avoids cut holds a walk to each of its members.        *)
LEMMA WalkTo ==
  ASSUME NEW f, Graph(f), NEW cut, NEW w, Walk(f, w, cut), NEW n \in 1..Len(w)
  PROVE  /\ w[n] \in ReachAvoiding(f, cut)
         /\ \E t : Leads(f, t, cut, w[n]) /\ Len(t) = n /\ \A k \in 1..n : t[k] = w[k]
<1> DEFINE t == [k \in 1..n |-> w[k]]
<1>1. Walk(f, t, cut) /\ Len(t) = n /\ t[n] = w[n]
  <2> HIDE DEF t
  <2> QED BY WalkCut DEF t
<1>2. \A k \in 1..n : t[k] = w[k]
  OBVIOUS
<1> HIDE DEF t
<1>3. Leads(f, t, cut, w[n])
  BY <1>1 DEF Leads
<1> QED BY <1>1, <1>2, <1>3, ReachByWalk

LEMMA DominatesThrough ==
  ASSUME NEW f, Graph(f), NEW x, NEW y, NEW z, Dominates(f, x, y), Dominates(f, y, z)
  PROVE  Dominates(f, x, z)
<1> SUFFICES ASSUME z \in ReachAvoiding(f, {x}) PROVE FALSE
  BY DEF Dominates
<1> DEFINE cut == {x}
<1>1. PICK w : Leads(f, w, cut, z)
  <2> HIDE DEF cut
  <2> QED BY ReachByWalk DEF cut
<1>2. Walk(f, w, cut)
  BY <1>1 DEF Leads
<1>3. Leads(f, w, {}, z)
  BY <1>1 DEF Leads, Walk
<1>4. y \in Members(w)
  BY <1>3, OnTheWalk
<1>5. PICK n \in 1..Len(w) : w[n] = y
  BY <1>4 DEF Members
<1>6. y \in ReachAvoiding(f, cut)
  <2> HIDE DEF cut
  <2> QED BY <1>2, <1>5, WalkTo
<1> QED BY <1>6 DEF Dominates

(* The last of a walk is at no other place of it.                          *)
LEMMA BeforeTheEnd ==
  ASSUME NEW f, Graph(f), NEW w, NEW y, Leads(f, w, {}, y), NEW x, Dominates(f, x, y), x # y
  PROVE  /\ Len(w) \in Nat
         /\ \E n \in 1..(Len(w) - 1) : w[n] = x
<1>1. w \in Seq(Members(f.blocks)) /\ Len(w) \in Nat /\ w[Len(w)] = y
  BY DEF Leads, Walk
<1>2. PICK n \in 1..Len(w) : w[n] = x
  BY OnTheWalk DEF Members
<1>3. n # Len(w)
  BY <1>1, <1>2
<1> QED BY <1>1, <1>2, <1>3

LEMMA DominatesOneWay ==
  ASSUME NEW f, Graph(f), NEW x, NEW y, Dominates(f, x, y), Dominates(f, y, x)
  PROVE  x = y
<1> SUFFICES ASSUME x # y PROVE FALSE
  OBVIOUS
<1>1. PICK w : Leads(f, w, {}, y)
  <2> DEFINE cut == {}
  <2>1. y \in ReachAvoiding(f, cut)
    BY DEF Dominates, Reachable
  <2> HIDE DEF cut
  <2>2. \E w : Leads(f, w, cut, y)
    BY <2>1, ReachByWalk
  <2> QED BY <2>2 DEF cut
<1>2. Len(w) \in Nat /\ Walk(f, w, {}) /\ w[Len(w)] = y /\ Distinct(w)
  BY <1>1, BeforeTheEnd DEF Leads, Walk
<1>3. PICK n \in 1..(Len(w) - 1) : w[n] = x
  BY <1>1, BeforeTheEnd
<1>4. n \in 1..Len(w) /\ n < Len(w)
  BY <1>2
<1>5. PICK t : Leads(f, t, {}, x) /\ Len(t) = n /\ \A k \in 1..n : t[k] = w[k]
  BY <1>2, <1>3, <1>4, WalkTo
<1>6. PICK k \in 1..n : t[k] = y
  BY <1>5, OnTheWalk DEF Members
<1>7. k \in 1..Len(w) /\ Len(w) \in 1..Len(w) /\ w[k] = w[Len(w)] /\ k # Len(w)
  BY <1>2, <1>4, <1>5, <1>6
<1> QED BY <1>2, <1>7 DEF Distinct

(* From a place of a walk that does not meet x again, what avoids x goes   *)
(* on to avoid it.                                                         *)
LEMMA GoesOnAvoiding ==
  ASSUME NEW f, Graph(f), NEW w, Walk(f, w, {}), NEW x, NEW n \in 1..Len(w),
         \A k \in n..Len(w) : w[k] # x, w[n] \in ReachAvoiding(f, {x})
  PROVE  w[Len(w)] \in ReachAvoiding(f, {x})
<1> DEFINE l == Len(w)
           T == {k \in Nat : k \in n..l => w[k] \in ReachAvoiding(f, {x})}
<1>1. l \in Nat /\ n \in Nat /\ n >= 1 /\ n <= l /\ \A k \in 1..(l - 1) : Step(f, w[k], w[k + 1])
  BY DEF Walk
<1>2. 0 \in T
  BY <1>1
<1> HIDE DEF l
<1>3. ASSUME NEW k \in Nat, k \in T PROVE k + 1 \in T
  <2> SUFFICES ASSUME k + 1 \in n..l PROVE w[k + 1] \in ReachAvoiding(f, {x})
    OBVIOUS
  <2>1. CASE k + 1 = n
    BY <2>1
  <2>2. CASE k + 1 # n
    <3>1. k \in n..l /\ k \in 1..(l - 1)
      BY <1>1, <2>2
    <3>2. w[k] \in ReachAvoiding(f, {x}) /\ Step(f, w[k], w[k + 1])
      BY <1>1, <1>3, <3>1
    <3>3. w[k + 1] # x
      BY DEF l
    <3>4. Members(f.succ[w[k]]) \subseteq ReachAvoiding(f, {x}) \cup {x}
      <4> DEFINE cut == {x}
      <4>1. w[k] \in ReachAvoiding(f, cut)
        BY <3>2
      <4> HIDE DEF cut
      <4>2. Members(f.succ[w[k]]) \subseteq ReachAvoiding(f, cut) \cup cut
        BY <4>1, ReachClosed
      <4> QED BY <4>2 DEF cut
    <3> QED BY <3>2, <3>3, <3>4 DEF Step
  <2> QED BY <2>1, <2>2
<1>4. Nat \subseteq T
  <2> HIDE DEF T
  <2> QED BY <1>2, <1>3, SetInduction
<1>5. l \in n..l
  BY <1>1
<1>6. l \in T
  <2> HIDE DEF T
  <2> QED BY <1>1, <1>4
<1> QED BY <1>5, <1>6 DEF l

LEMMA EarlierDominates ==
  ASSUME NEW f, Graph(f), NEW w, NEW z, Leads(f, w, {}, z), NEW x, NEW y,
         Dominates(f, x, z), Dominates(f, y, z),
         NEW j \in 1..Len(w), NEW k \in 1..Len(w), w[j] = x, w[k] = y, j <= k
  PROVE  Dominates(f, x, y)
<1>1. Walk(f, w, {}) /\ w[Len(w)] = z /\ Distinct(w) /\ Len(w) \in Nat
  BY DEF Leads, Walk
<1>2. x \in Reachable(f) /\ y \in Reachable(f)
  BY DEF Dominates
<1>3. CASE x = y
  BY <1>2, <1>3, DominatesItself
<1>4. CASE x # y
  <2> SUFFICES ASSUME y \in ReachAvoiding(f, {x}) PROVE FALSE
    BY <1>2 DEF Dominates
  <2>1. ASSUME NEW m \in k..Len(w), w[m] = x PROVE FALSE
    <3>1. m \in 1..Len(w) /\ m # j
      BY <1>1, <1>4, <2>1
    <3> QED BY <1>1, <2>1, <3>1 DEF Distinct
  <2>2. w[Len(w)] \in ReachAvoiding(f, {x})
    BY <1>1, <2>1, GoesOnAvoiding
  <2> QED BY <1>1, <2>2 DEF Dominates
<1> QED BY <1>3, <1>4

LEMMA SomeWalk ==
  ASSUME NEW f, Graph(f), NEW y \in Reachable(f)
  PROVE  \E w : Leads(f, w, {}, y)
<1> DEFINE cut == {}
<1>1. y \in ReachAvoiding(f, cut)
  BY DEF Reachable
<1> HIDE DEF cut
<1>2. \E w : Leads(f, w, cut, y)
  BY <1>1, ReachByWalk
<1> QED BY <1>2 DEF cut

LEMMA DominatesInLine ==
  ASSUME NEW f, Graph(f), NEW x, NEW y, NEW z, Dominates(f, x, z), Dominates(f, y, z)
  PROVE  Dominates(f, x, y) \/ Dominates(f, y, x)
<1>1. PICK w : Leads(f, w, {}, z)
  BY SomeWalk DEF Dominates
<1>2. PICK j \in 1..Len(w) : w[j] = x
  BY <1>1, OnTheWalk DEF Members
<1>3. PICK k \in 1..Len(w) : w[k] = y
  BY <1>1, OnTheWalk DEF Members
<1>4. j \in Nat /\ k \in Nat
  BY <1>1 DEF Leads, Walk
<1>5. j <= k \/ k <= j
  BY <1>4
<1> QED BY <1>1, <1>2, <1>3, <1>5, EarlierDominates

(* What strictly dominates a block dominates all of its predecessors.      *)
LEMMA DominatesPredecessor ==
  ASSUME NEW f, Graph(f), NEW x, NEW y, StrictlyDominates(f, x, y),
         NEW a \in Reachable(f), Step(f, a, y)
  PROVE  Dominates(f, x, a)
<1> DEFINE cut == {x}
<1>1. y \notin ReachAvoiding(f, cut) /\ y \notin cut /\ x \in Reachable(f)
  BY DEF StrictlyDominates, Dominates
<1> HIDE DEF cut
<1>2. a \notin ReachAvoiding(f, cut)
  BY <1>1, ReachClosed DEF Step
<1> QED BY <1>1, <1>2 DEF Dominates, cut

-----------------------------------------------------------------------------
(* Immediate dominators: the pairs of IsIdom, in terms of dominance.       *)
LEMMA IdomIs ==
  ASSUME NEW f, Graph(f), NEW x, NEW y
  PROVE  IsIdom(Dominance(f), x, y) <=>
           /\ StrictlyDominates(f, x, y)
           /\ \A d : StrictlyDominates(f, d, y) => Dominates(f, d, x)
<1>1. \A a, b : <<a, b>> \in Dominance(f) <=> Dominates(f, a, b)
  BY DominancePairs
<1>2. \A a, b : <<a, b>> \in Strict(Dominance(f)) <=> StrictlyDominates(f, a, b)
  BY <1>1 DEF Strict, StrictlyDominates
<1>3. \A d : d \in Strict(Dominance(f)) => d = <<d[1], d[2]>>
  BY DominancePairs DEF Strict
<1>4. ASSUME IsIdom(Dominance(f), x, y), NEW d, StrictlyDominates(f, d, y)
      PROVE  Dominates(f, d, x)
  <2> DEFINE e == <<d, y>>
  <2>1. e \in Strict(Dominance(f)) /\ e[2] = y /\ e[1] = d
    BY <1>2, <1>4
  <2> HIDE DEF e
  <2>2. <<e[1], x>> \in Dominance(f)
    BY <1>4, <2>1 DEF IsIdom
  <2> QED BY <1>1, <2>1, <2>2
<1>5. ASSUME \A d : StrictlyDominates(f, d, y) => Dominates(f, d, x),
             NEW d \in Strict(Dominance(f)), d[2] = y
      PROVE  <<d[1], x>> \in Dominance(f)
  <2>1. <<d[1], y>> \in Strict(Dominance(f))
    BY <1>3, <1>5
  <2> QED BY <1>1, <1>2, <1>5, <2>1
<1> QED BY <1>2, <1>4, <1>5 DEF IsIdom

(* A block has one immediate dominator on the way from x: the blocks that  *)
(* x dominates are spread over its children.                               *)
LEMMA ChildTowards ==
  ASSUME NEW f, Graph(f), NEW x, NEW y, StrictlyDominates(f, x, y)
  PROVE  \E c : IsIdom(Dominance(f), x, c) /\ Dominates(f, c, y)
<1>1. y \in Reachable(f)
  BY DEF StrictlyDominates, Dominates
<1>2. PICK w : Leads(f, w, {}, y)
  BY <1>1, SomeWalk
<1>3. Walk(f, w, {}) /\ w[Len(w)] = y /\ Len(w) \in Nat \ {0} /\ Distinct(w)
  BY <1>2 DEF Leads, Walk
<1> DEFINE T == {n \in 1..Len(w) : Dominates(f, w[n], y) /\ StrictlyDominates(f, x, w[n])}
<1>4. T \subseteq Nat /\ Len(w) \in T
  BY <1>1, <1>3, DominatesItself
<1>5. PICK n \in T : \A m \in T : n <= m
  <2> HIDE DEF T
  <2> QED BY <1>4, LeastElement
<1> DEFINE c == w[n]
<1>6. Dominates(f, c, y) /\ StrictlyDominates(f, x, c) /\ n \in 1..Len(w)
  BY <1>5
<1>7. ASSUME NEW d, StrictlyDominates(f, d, c) PROVE Dominates(f, d, x)
  <2>1. Dominates(f, d, y)
    BY <1>6, <1>7, DominatesThrough DEF StrictlyDominates
  <2>2. Dominates(f, d, x) \/ Dominates(f, x, d)
    BY <1>6, <1>7, DominatesInLine DEF StrictlyDominates
  <2> SUFFICES ASSUME StrictlyDominates(f, x, d) PROVE FALSE
    BY <2>2 DEF StrictlyDominates
  <2>3. PICK t : Leads(f, t, {}, c) /\ Len(t) = n /\ \A k \in 1..n : t[k] = w[k]
    BY <1>3, <1>6, WalkTo
  <2>4. PICK m \in 1..(n - 1) : t[m] = d
    BY <1>7, <2>3, BeforeTheEnd DEF StrictlyDominates
  <2>5. m \in 1..Len(w) /\ m \in 1..n /\ m < n
    BY <1>3, <1>6
  <2>6. w[m] = d
    BY <2>3, <2>4, <2>5
  <2>7. m \in T
    BY <2>1, <2>5, <2>6
  <2> QED BY <1>5, <1>6, <2>5, <2>7
<1> QED BY <1>6, <1>7, IdomIs

LEMMA OneChild ==
  ASSUME NEW f, Graph(f), NEW x, NEW c, NEW d, NEW y,
         IsIdom(Dominance(f), x, c), IsIdom(Dominance(f), x, d),
         Dominates(f, c, y), Dominates(f, d, y)
  PROVE  c = d
<1>1. ASSUME NEW a, NEW b, IsIdom(Dominance(f), x, a), IsIdom(Dominance(f), x, b),
             Dominates(f, a, b), a # b
      PROVE  FALSE
  <2>1. Dominates(f, a, x) /\ StrictlyDominates(f, x, a)
    BY <1>1, IdomIs DEF StrictlyDominates
  <2> QED BY <2>1, DominatesOneWay DEF StrictlyDominates
<1>2. Dominates(f, c, d) \/ Dominates(f, d, c)
  BY DominatesInLine
<1> QED BY <1>1, <1>2

(* The frontier of x: where its dominance ends.                            *)
LEMMA FrontierIs ==
  ASSUME NEW f, Graph(f), NEW x, NEW y
  PROVE  y \in FrontierOf(f, Dominance(f), x) <=>
           /\ y \in Reachable(f) /\ ~StrictlyDominates(f, x, y)
           /\ \E a \in Members(f.pre[y]) : Dominates(f, x, a)
<1>1. \A a, b : <<a, b>> \in Dominance(f) <=> Dominates(f, a, b)
  BY DominancePairs
<1>2. <<x, y>> \in Strict(Dominance(f)) <=> StrictlyDominates(f, x, y)
  BY <1>1 DEF Strict, StrictlyDominates
<1> QED BY <1>1, <1>2 DEF FrontierOf

-----------------------------------------------------------------------------
(* A graph is structured when its blocks have ranks such that what goes    *)
(* down, from a to b, closes a loop: whatever enters the blocks ranked     *)
(* between b and a comes from there.  The first predecessor of a block is  *)
(* ranked below it.                                                        *)
Enclosed(f, r, b, a) ==
    \A x, y \in Members(f.blocks) :
        Step(f, x, y) /\ r[b] < r[y] /\ r[y] <= r[a] => r[b] <= r[x] /\ r[x] <= r[a]

RankedBy(f, r) ==
    /\ \A b \in Members(f.blocks) : r[b] \in Nat /\ r[Entry(f)] <= r[b]
    /\ \A a, b \in Members(f.blocks) : r[a] = r[b] => a = b
    /\ \A a, b \in Members(f.blocks) :
         Step(f, a, b) /\ r[b] <= r[a] => b # Entry(f) /\ Enclosed(f, r, b, a)
    /\ \A b \in Members(f.blocks) :
         f.pre[b] # << >> => f.pre[b][1] \in Members(f.blocks) /\ r[f.pre[b][1]] < r[b]

Structured(f) == \E r : RankedBy(f, r)

(* The edge from a to b closes a loop, and is not the first into b.        *)
Retreats(f, a, b) == Dominates(f, b, a) /\ (f.pre[b] # << >> => f.pre[b][1] # a)

LEMMA EntryIn ==
  ASSUME NEW f, Graph(f)
  PROVE  /\ Entry(f) \in Members(f.blocks)
         /\ \A cut : ReachAvoiding(f, cut) \subseteq Members(f.blocks) \ cut
         /\ \A a, b : a \in Members(f.blocks) /\ Step(f, a, b) => b \in Members(f.blocks)
<1>1. Len(f.blocks) \in Nat \ {0}
  BY DEF Graph
<1>2. Entry(f) \in Members(f.blocks)
  BY <1>1 DEF Entry, Members
<1>3. ASSUME NEW a \in Members(f.blocks), NEW b, Step(f, a, b) PROVE b \in Members(f.blocks)
  BY <1>3, MembersOfSeq DEF Graph, Step
<1> QED BY <1>2, <1>3, ReachByWalk

LEMMA BackEdgeDominates ==
  ASSUME NEW f, Graph(f), NEW r, RankedBy(f, r), NEW a \in Reachable(f), NEW b,
         Step(f, a, b), r[b] <= r[a]
  PROVE  Dominates(f, b, a)
<1> DEFINE M == Members(f.blocks)
           S == {x \in M : ~(r[b] <= r[x] /\ r[x] <= r[a])}
<1>1. a \in M /\ b \in M /\ Entry(f) \in M /\ Len(f.blocks) \in Nat
      /\ \A x, y : x \in M /\ Step(f, x, y) => y \in M
  BY EntryIn DEF Reachable, Graph
<1>2. b # Entry(f) /\ Enclosed(f, r, b, a)
  BY <1>1 DEF RankedBy
<1>3. /\ \A x \in M : r[x] \in Nat /\ r[Entry(f)] <= r[x]
      /\ \A x, y \in M : r[x] = r[y] => x = y
  BY DEF RankedBy
<1>4. Entry(f) \in S \cup {b}
  <2>1. r[Entry(f)] # r[b] /\ r[Entry(f)] <= r[b] /\ r[Entry(f)] \in Nat /\ r[b] \in Nat
    BY <1>1, <1>2, <1>3
  <2> QED BY <1>1, <2>1
<1>5. ASSUME NEW x \in S, NEW y, Step(f, x, y) PROVE y \in S \cup {b}
  <2>1. x \in M /\ y \in M /\ ~(r[b] <= r[x] /\ r[x] <= r[a])
    BY <1>1, <1>5
  <2>2. ~(r[b] < r[y] /\ r[y] <= r[a])
    BY <1>2, <1>5, <2>1 DEF Enclosed
  <2>3. r[y] = r[b] => y = b
    BY <1>1, <1>3, <2>1
  <2>4. r[y] \in Nat /\ r[b] \in Nat /\ r[a] \in Nat
    BY <1>1, <1>3, <2>1
  <2> QED BY <2>1, <2>2, <2>3, <2>4
<1>6. ReachAvoiding(f, {b}) \subseteq S
  <2>1. \A x \in S : Members(f.succ[x]) \subseteq S \cup {b}
    BY <1>5 DEF Step
  <2> HIDE DEF S
  <2> QED BY <1>1, <1>4, <2>1, ReachIsLeast
<1>7. a \notin S
  <2>1. r[a] \in Nat
    BY <1>1, <1>3
  <2> QED BY <2>1
<1>8. b \in Reachable(f)
  <2>1. Members(f.succ[a]) \subseteq Reachable(f) \cup {}
    BY ReachClosed DEF Reachable
  <2> QED BY <2>1 DEF Step
<1> QED BY <1>6, <1>7, <1>8 DEF Dominates

LEMMA WalkAscends ==
  ASSUME NEW f, Graph(f), NEW r, RankedBy(f, r), NEW w, Walk(f, w, {}),
         NEW j \in 1..Len(w), NEW k \in 1..Len(w), j < k
  PROVE  r[w[j]] < r[w[k]]
<1> DEFINE l == Len(w)
           M == Members(f.blocks)
<1>1. /\ l \in Nat /\ w \in Seq(M) /\ Distinct(w)
      /\ \A n \in 1..l : w[n] \in M
      /\ \A n \in 1..(l - 1) : Step(f, w[n], w[n + 1])
  <2>1. /\ w \in Seq(M) /\ Distinct(w)
        /\ \A n \in 1..(l - 1) : Step(f, w[n], w[n + 1])
    BY DEF Walk
  <2> HIDE DEF M
  <2> QED BY <2>1
<1>2. \A x \in M : r[x] \in Nat
  BY DEF RankedBy
<1> HIDE DEF l
<1>3. ASSUME NEW n \in 1..(l - 1) PROVE r[w[n]] < r[w[n + 1]]
  <2>1. n \in 1..l /\ n + 1 \in 1..l /\ n # n + 1
    BY <1>1
  <2>2. SUFFICES ASSUME r[w[n + 1]] <= r[w[n]] PROVE FALSE
    <3>1. r[w[n]] \in Nat /\ r[w[n + 1]] \in Nat
      BY <1>1, <1>2, <2>1
    <3> QED BY <3>1
  <2>3. w[n] \in Reachable(f)
    BY <2>1, WalkTo DEF l, Reachable
  <2>4. PICK t : Leads(f, t, {}, w[n]) /\ Len(t) = n /\ \A m \in 1..n : t[m] = w[m]
    BY <2>1, WalkTo DEF l
  <2>5. Dominates(f, w[n + 1], w[n])
    BY <1>1, <2>2, <2>3, BackEdgeDominates
  <2>6. w[n + 1] \in Members(t)
    BY <2>4, <2>5, OnTheWalk
  <2>7. PICK m \in 1..n : w[m] = w[n + 1]
    BY <2>4, <2>6 DEF Members
  <2>8. m \in 1..l /\ m # n + 1
    BY <1>1, <2>7
  <2> QED BY <1>1, <2>1, <2>7, <2>8 DEF Distinct, l
<1> DEFINE T == {d \in Nat : j + 1 + d <= l => r[w[j]] < r[w[j + 1 + d]]}
<1>4. j \in 1..l /\ k \in 1..l
  BY DEF l
<1>5. 0 \in T
  <2>1. ASSUME j + 1 + 0 <= l PROVE r[w[j]] < r[w[j + 1 + 0]]
    <3>1. j \in 1..(l - 1) /\ j + 1 + 0 = j + 1
      BY <1>1, <1>4, <2>1
    <3> QED BY <1>3, <3>1
  <2> QED BY <2>1
<1>6. ASSUME NEW d \in Nat, d \in T PROVE d + 1 \in T
  <2>1. ASSUME j + 1 + (d + 1) <= l PROVE r[w[j]] < r[w[j + 1 + (d + 1)]]
    <3> DEFINE n == j + 1 + d
    <3>1. n \in 1..(l - 1) /\ n \in 1..l /\ n + 1 \in 1..l /\ j + 1 + (d + 1) = n + 1 /\ n <= l
      BY <1>1, <1>4, <2>1
    <3>2. r[w[j]] < r[w[n]]
      BY <1>6, <3>1
    <3> HIDE DEF n
    <3>3. r[w[n]] < r[w[n + 1]]
      BY <1>3, <3>1
    <3>4. r[w[j]] \in Nat /\ r[w[n]] \in Nat /\ r[w[n + 1]] \in Nat
      BY <1>1, <1>2, <1>4, <3>1
    <3>5. r[w[j]] < r[w[n + 1]]
      BY <3>2, <3>3, <3>4
    <3> QED BY <3>1, <3>5
  <2> QED BY <2>1
<1>7. Nat \subseteq T
  <2> HIDE DEF T
  <2> QED BY <1>5, <1>6, SetInduction
<1>8. k - (j + 1) \in Nat /\ j + 1 + (k - (j + 1)) = k
  BY <1>4
<1>9. k - (j + 1) \in T
  BY <1>7, <1>8
<1> QED BY <1>4, <1>8, <1>9

LEMMA ClosesALoop ==
  ASSUME NEW f, Graph(f), Structured(f), NEW w, NEW a, Leads(f, w, {}, a), NEW b,
         Step(f, a, b), b \in Members(w)
  PROVE  Retreats(f, a, b)
<1>1. PICK r : RankedBy(f, r)
  BY DEF Structured
<1> DEFINE l == Len(w)
           M == Members(f.blocks)
<1>2. /\ l \in Nat /\ l >= 1 /\ Walk(f, w, {}) /\ w[l] = a
      /\ \A n \in 1..l : w[n] \in M
  <2>1. w \in Seq(M) /\ w # << >>
    BY DEF Leads, Walk
  <2> QED BY <2>1 DEF Leads
<1>3. PICK j \in 1..l : w[j] = b
  BY DEF Members
<1> HIDE DEF l
<1>4. l \in 1..l
  BY <1>2
<1>5. a \in M /\ b \in M /\ r[a] \in Nat /\ r[b] \in Nat
  BY <1>1, <1>2, <1>3, <1>4 DEF RankedBy
<1>6. r[b] <= r[a]
  <2>1. CASE j = l
    BY <1>2, <1>3, <1>5, <2>1
  <2>2. CASE j # l
    <3>1. j < l
      BY <1>2, <2>2
    <3>2. r[w[j]] < r[w[l]]
      BY <1>1, <1>2, <1>3, <1>4, <3>1, WalkAscends DEF l
    <3> QED BY <1>2, <1>3, <1>5, <3>2
  <2> QED BY <2>1, <2>2
<1>7. a \in Reachable(f)
  BY ReachByWalk DEF Reachable
<1>8. Dominates(f, b, a)
  BY <1>1, <1>6, <1>7, BackEdgeDominates
<1>9. ASSUME f.pre[b] # << >> PROVE f.pre[b][1] # a
  <2>1. r[f.pre[b][1]] < r[b]
    BY <1>1, <1>5, <1>9 DEF RankedBy
  <2> QED BY <1>5, <1>6, <2>1
<1> QED BY <1>8, <1>9 DEF Retreats
=============================================================================
