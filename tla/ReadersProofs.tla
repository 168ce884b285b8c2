---------------------------- MODULE ReadersProofs ----------------------------
(***************************************************************************)
(* Proofs about module Readers: where credentials go, and what the two     *)
(* APIs and the labels, read however far they were, may be taken to say.   *)
(***************************************************************************)
EXTENDS Readers, FiniteSetTheorems, SequenceTheorems, WellFoundedInduction, TLAPS

-----------------------------------------------------------------------------
(* Numbers and lists. *)

LEMMA SetInduction ==
    ASSUME NEW S, 0 \in S, \A n \in Nat : n \in S => n + 1 \in S
    PROVE  Nat \subseteq S
<1> DEFINE T == Nat \ S
<1> SUFFICES ASSUME T # {} PROVE FALSE
    OBVIOUS
<1>1. PICK x \in T : \A y \in T : ~ (<<y, x>> \in OpToRel(<, Nat))
  <2>1. T \subseteq Nat
    OBVIOUS
  <2> HIDE DEF T
  <2> QED BY WFMin, NatLessThanWellFounded, <2>1
<1>2. x # 0 /\ x \in Nat /\ x - 1 \in Nat /\ x - 1 < x
  OBVIOUS
<1>3. x - 1 \notin T
  BY <1>1, <1>2 DEF OpToRel
<1> QED BY <1>2, <1>3

\* A set of numbers has a least one.
LEMMA LeastIsThere ==
    ASSUME NEW S, S \subseteq Nat, S # {}
    PROVE  Min(S) \in S /\ \A y \in S : Min(S) <= y
<1>1. PICK x \in S : \A y \in S : ~ (<<y, x>> \in OpToRel(<, Nat))
      BY WFMin, NatLessThanWellFounded
<1>2. \A y \in S : x <= y
  <2> SUFFICES ASSUME NEW y \in S, ~(x <= y) PROVE FALSE
      OBVIOUS
  <2>1. x \in Nat /\ y \in Nat /\ y < x
        OBVIOUS
  <2>2. <<y, x>> \in OpToRel(<, Nat)
        BY <2>1 DEF OpToRel
  <2> QED BY <2>2, <1>1
<1> QED BY <1>2 DEF Min

\* A list is a function from 1 to its length.
LEMMA Lists1 ==
    ASSUME NEW s, IsList(s)
    PROVE  /\ s \in Seq(ToSet(s)) /\ Len(s) \in Nat /\ DOMAIN s = 1..Len(s)
           /\ s = [i \in 1..Len(s) |-> s[i]]
           /\ \A i \in DOMAIN s : s[i] \in ToSet(s)
           /\ \A x \in ToSet(s) : \E i \in DOMAIN s : s[i] = x
BY DEF IsList, ToSet

LEMMA SeqIsList ==
    ASSUME NEW T, NEW s \in Seq(T)
    PROVE  IsList(s) /\ ToSet(s) \subseteq T /\ Len(s) \in Nat /\ DOMAIN s = 1..Len(s)
<1>1. Len(s) \in Nat /\ DOMAIN s = 1..Len(s) /\ s = [i \in 1..Len(s) |-> s[i]]
      OBVIOUS
<1>2. \A i \in 1..Len(s) : s[i] \in ToSet(s) /\ s[i] \in T
      BY <1>1 DEF ToSet
<1>3. s \in Seq(ToSet(s))
      BY <1>1, <1>2
<1> QED BY <1>1, <1>2, <1>3 DEF IsList, ToSet

\* What is put together entry by entry is a list.
LEMMA MadeIsList ==
    ASSUME NEW n \in Nat, NEW s, DOMAIN s = 1..n, s = [i \in 1..n |-> s[i]]
    PROVE  IsList(s) /\ Len(s) = n
<1>1. \A i \in 1..n : s[i] \in ToSet(s)
      BY DEF ToSet
<1> QED BY <1>1 DEF IsList

LEMMA JoinMembers ==
    ASSUME NEW T, NEW a \in Seq(T), NEW b \in Seq(T)
    PROVE  a \o b \in Seq(T) /\ \A x : x \in ToSet(a \o b) <=> x \in ToSet(a) \/ x \in ToSet(b)
<1>1. /\ a \o b \in Seq(T) /\ Len(a \o b) = Len(a) + Len(b) /\ Len(a) \in Nat /\ Len(b) \in Nat
      /\ DOMAIN a = 1..Len(a) /\ DOMAIN b = 1..Len(b) /\ DOMAIN (a \o b) = 1..(Len(a) + Len(b))
      /\ \A i \in 1..(Len(a) + Len(b)) : (a \o b)[i] = IF i <= Len(a) THEN a[i] ELSE b[i - Len(a)]
      BY ConcatProperties
<1>2. PICK c : c = a \o b
      OBVIOUS
<1>3. ASSUME NEW x, x \in ToSet(c) PROVE x \in ToSet(a) \/ x \in ToSet(b)
  <2>1. PICK i \in 1..(Len(a) + Len(b)) : c[i] = x
        BY <1>1, <1>2, <1>3 DEF ToSet
  <2>2. CASE i <= Len(a)
        BY <1>1, <1>2, <2>1, <2>2 DEF ToSet
  <2>3. CASE ~(i <= Len(a))
    <3>1. i - Len(a) \in 1..Len(b) /\ x = b[i - Len(a)]
          BY <1>1, <1>2, <2>1, <2>3
    <3> QED BY <1>1, <3>1 DEF ToSet
  <2> QED BY <2>2, <2>3
<1>4. ASSUME NEW x, x \in ToSet(a) PROVE x \in ToSet(c)
  <2>1. PICK i \in 1..Len(a) : a[i] = x
        BY <1>1, <1>4 DEF ToSet
  <2>2. i \in 1..(Len(a) + Len(b)) /\ c[i] = x
        BY <1>1, <1>2, <2>1
  <2> QED BY <1>1, <1>2, <2>2 DEF ToSet
<1>5. ASSUME NEW x, x \in ToSet(b) PROVE x \in ToSet(c)
  <2>1. PICK i \in 1..Len(b) : b[i] = x
        BY <1>1, <1>5 DEF ToSet
  <2>2. /\ i + Len(a) \in 1..(Len(a) + Len(b)) /\ ~(i + Len(a) <= Len(a))
        /\ (i + Len(a)) - Len(a) = i
        BY <1>1, <2>1
  <2>3. c[i + Len(a)] = x
        BY <1>1, <1>2, <2>1, <2>2
  <2> QED BY <1>1, <1>2, <2>2, <2>3 DEF ToSet
<1> QED BY <1>1, <1>2, <1>3, <1>4, <1>5

\* Lists put one after the other, list by list.
LEMMA FlattenByStep ==
    ASSUME NEW T, NEW seqs \in Seq(Seq(T))
    PROVE  \E h : /\ h \in [0..Len(seqs) -> Seq(T)]
                  /\ h[0] = <<>>
                  /\ \A i \in 1..Len(seqs) : h[i] = h[i - 1] \o seqs[i]
                  /\ FlattenSeq(seqs) = h[Len(seqs)]
<1>1. PICK n \in Nat : n = Len(seqs)
      OBVIOUS
<1>2. CASE n = 0
  <2>1. seqs = <<>>
        BY <1>1, <1>2, EmptySeq
  <2>2. FlattenSeq(seqs) = seqs
        BY <1>1, <1>2 DEF FlattenSeq
  <2>3. <<>> \in Seq(T)
        OBVIOUS
  <2>4. PICK h : h = [i \in 0..0 |-> <<>>]
        OBVIOUS
  <2>5. h \in [0..0 -> Seq(T)] /\ h[0] = <<>>
        BY <2>3, <2>4
  <2> QED BY <1>1, <1>2, <2>1, <2>2, <2>5
<1>3. CASE n # 0
  <2> DEFINE Joins(f, m) == f = [i \in 1..m |-> IF i = 1 THEN seqs[i] ELSE f[i - 1] \o seqs[i]]
             S == {m \in Nat : m <= n => \E f \in [1..m -> Seq(T)] : Joins(f, m)}
  <2>1. \A i \in 1..n : seqs[i] \in Seq(T)
        BY <1>1
  <2>2. 0 \in S
    <3>1. PICK f : f = [i \in 1..0 |-> <<>>]
          OBVIOUS
    <3>2. f \in [1..0 -> Seq(T)] /\ Joins(f, 0)
          BY <3>1
    <3> QED BY <3>2
  <2>3. ASSUME NEW m \in Nat, m \in S PROVE m + 1 \in S
    <3>1. CASE m + 1 <= n
      <4>0. m <= n
            BY <3>1
      <4>1. PICK f \in [1..m -> Seq(T)] : Joins(f, m)
            BY <2>3, <4>0
      <4>2. PICK last : last = IF m = 0 THEN seqs[m + 1] ELSE f[m] \o seqs[m + 1]
            OBVIOUS
      <4>3. last \in Seq(T)
        <5>1. seqs[m + 1] \in Seq(T)
              BY <2>1, <3>1
        <5>2. CASE m = 0
              BY <5>1, <5>2, <4>2
        <5>3. CASE m # 0
          <6>1. f[m] \in Seq(T)
                BY <5>3
          <6> QED BY <6>1, <5>1, <5>3, <4>2
        <5> QED BY <5>2, <5>3
      <4>4. PICK g : g = [i \in 1..(m + 1) |-> IF i = m + 1 THEN last ELSE f[i]]
            OBVIOUS
      <4>5. g \in [1..(m + 1) -> Seq(T)]
            BY <4>3, <4>4
      <4>6. ASSUME NEW i \in 1..(m + 1)
            PROVE  g[i] = IF i = 1 THEN seqs[i] ELSE g[i - 1] \o seqs[i]
        <5>1. CASE i = m + 1
          <6>1. m # 0 => g[m] = f[m]
                BY <4>4
          <6> QED BY <5>1, <6>1, <4>2, <4>4
        <5>2. CASE i # m + 1
          <6>1. i \in 1..m /\ (i # 1 => i - 1 \in 1..m /\ i - 1 # m + 1)
                BY <5>2
          <6>2. f[i] = IF i = 1 THEN seqs[i] ELSE f[i - 1] \o seqs[i]
                BY <4>1, <6>1
          <6>3. g[i] = f[i] /\ (i # 1 => g[i - 1] = f[i - 1])
                BY <6>1, <5>2, <4>4
          <6> QED BY <6>1, <6>2, <6>3
        <5> QED BY <5>1, <5>2
      <4>7. g = [i \in 1..(m + 1) |-> g[i]]
            BY <4>4
      <4>8. Joins(g, m + 1)
            BY <4>6, <4>7
      <4>9. m + 1 \in Nat
            OBVIOUS
      <4> QED BY <4>5, <4>8, <4>9
    <3>2. CASE ~(m + 1 <= n)
      <4>1. m + 1 \in Nat
            OBVIOUS
      <4> QED BY <4>1, <3>2
    <3> QED BY <3>1, <3>2
  <2>4. \E f \in [1..n -> Seq(T)] : Joins(f, n)
    <3>1. Nat \subseteq S
      <4> HIDE DEF S
      <4> QED BY <2>2, <2>3, SetInduction
    <3>2. n \in S
      <4> HIDE DEF S
      <4> QED BY <3>1
    <3>3. n <= n
          OBVIOUS
    <3> QED BY <3>2, <3>3
  <2>5. PICK k : k = CHOOSE f : Joins(f, n)
        OBVIOUS
  <2>6. Joins(k, n)
        BY <2>4, <2>5
  <2>7. FlattenSeq(seqs) = k[n]
        BY <1>1, <1>3, <2>5 DEF FlattenSeq
  <2>8. PICK h : h = [i \in 0..n |-> IF i = 0 THEN <<>> ELSE k[i]]
        OBVIOUS
  <2>9. ASSUME NEW i \in 1..n PROVE k[i] = IF i = 1 THEN seqs[i] ELSE k[i - 1] \o seqs[i]
        BY <2>6
  <2>10. h[0] = <<>> /\ \A i \in 1..n : h[i] = k[i]
        BY <2>8
  <2>11. ASSUME NEW i \in 1..n PROVE h[i] = h[i - 1] \o seqs[i]
    <3>1. CASE i = 1
      <4>1. seqs[1] \in Seq(T)
            BY <2>1, <3>1
      <4>2. <<>> \o seqs[1] = seqs[1]
            BY <4>1, ConcatEmptySeq
      <4>3. h[1] = seqs[1]
            BY <2>9, <2>10, <3>1
      <4>4. i - 1 = 0 /\ seqs[i] = seqs[1] /\ h[i] = h[1]
            BY <3>1
      <4>5. h[i - 1] = <<>>
            BY <4>4, <2>10
      <4> QED BY <4>2, <4>3, <4>4, <4>5
    <3>2. CASE i # 1
      <4>1. i - 1 \in 1..n
            BY <3>2
      <4> QED BY <3>2, <4>1, <2>9, <2>10
    <3> QED BY <3>1, <3>2
  <2> DEFINE R == {m \in Nat : m \in 0..n => h[m] \in Seq(T)}
  <2>12. ASSUME NEW m \in Nat, m \in R PROVE m + 1 \in R
    <3>1. CASE m + 1 \in 1..n
      <4>1. seqs[m + 1] \in Seq(T) /\ m \in 0..n /\ (m + 1) - 1 = m
            BY <2>1, <3>1
      <4>2. h[m + 1] = h[m] \o seqs[m + 1]
            BY <2>11, <3>1, <4>1
      <4>3. h[m] \in Seq(T)
            BY <4>1, <2>12
      <4>4. h[m] \o seqs[m + 1] \in Seq(T)
            BY <4>1, <4>3, ConcatProperties
      <4>5. m + 1 \in Nat
            OBVIOUS
      <4> QED BY <4>2, <4>4, <4>5
    <3>2. CASE m + 1 \notin 1..n
          BY <3>2
    <3> QED BY <3>1, <3>2
  <2>13. 0 \in R
    <3>1. <<>> \in Seq(T)
          OBVIOUS
    <3> QED BY <2>10, <3>1
  <2>14. Nat \subseteq R
    <3> HIDE DEF R
    <3> QED BY <2>12, <2>13, SetInduction
  <2>15. h \in [0..n -> Seq(T)]
    <3>1. \A m \in 0..n : h[m] \in Seq(T)
          BY <2>14
    <3>2. h = [m \in 0..n |-> h[m]]
          BY <2>8
    <3> HIDE DEF R
    <3> QED BY <3>1, <3>2
  <2>16. FlattenSeq(seqs) = h[n]
        BY <2>7, <2>10, <1>3
  <2> QED BY <1>1, <2>10, <2>11, <2>15, <2>16
<1> QED BY <1>2, <1>3

\* What is in them is in it, and nothing else.
LEMMA FlattenMembers ==
    ASSUME NEW T, NEW seqs \in Seq(Seq(T))
    PROVE  /\ FlattenSeq(seqs) \in Seq(T)
           /\ \A x : x \in ToSet(FlattenSeq(seqs)) <=> \E i \in DOMAIN seqs : x \in ToSet(seqs[i])
<1>1. PICK n \in Nat : n = Len(seqs) /\ DOMAIN seqs = 1..n
      OBVIOUS
<1>2. PICK h : /\ h \in [0..n -> Seq(T)]
               /\ h[0] = <<>>
               /\ \A i \in 1..n : h[i] = h[i - 1] \o seqs[i]
               /\ FlattenSeq(seqs) = h[n]
      BY <1>1, FlattenByStep
<1> DEFINE S == {m \in Nat : m \in 0..n =>
                    \A x : x \in ToSet(h[m]) <=> \E i \in 1..m : x \in ToSet(seqs[i])}
<1>3. 0 \in S
  <2>1. ToSet(<<>>) = {}
        BY DEF ToSet
  <2> QED BY <1>2, <2>1
<1>4. ASSUME NEW m \in Nat, m \in S PROVE m + 1 \in S
  <2>0. m + 1 \in Nat
        OBVIOUS
  <2>1. CASE m + 1 \in 1..n
    <3>1. m \in 0..n /\ (m + 1) - 1 = m
          BY <2>1
    <3>2. PICK a \in Seq(T) : a = h[m]
          BY <1>2, <3>1
    <3>3. PICK b \in Seq(T) : b = seqs[m + 1]
          BY <1>1, <2>1
    <3>4. h[m + 1] = a \o b
          BY <1>2, <2>1, <3>1, <3>2, <3>3
    <3>5. \A x : x \in ToSet(a \o b) <=> x \in ToSet(a) \/ x \in ToSet(b)
          BY JoinMembers
    <3>6. \A x : x \in ToSet(h[m + 1]) <=> \E i \in 1..(m + 1) : x \in ToSet(seqs[i])
      <4>1. \A x : x \in ToSet(a) <=> \E i \in 1..m : x \in ToSet(seqs[i])
            BY <1>4, <3>1, <3>2
      <4>2. \A i : i \in 1..(m + 1) <=> i \in 1..m \/ i = m + 1
            OBVIOUS
      <4> QED BY <3>3, <3>4, <3>5, <4>1, <4>2
    <3> QED BY <2>0, <3>6
  <2>2. CASE m + 1 \notin 1..n
        BY <2>0, <2>2
  <2> QED BY <2>1, <2>2
<1>5. n \in S
  <2> HIDE DEF S
  <2> QED BY <1>3, <1>4, SetInduction
<1> QED BY <1>1, <1>2, <1>5

\* The answer of a switch is the value of its first row that holds; the last one always does.
LEMMA FirstOf3 ==
    ASSUME NEW a, NEW b, NEW c, c[1] = TRUE
    PROVE  FirstHolding(<<a, b, c>>) =
             IF a[1] THEN a[2] ELSE IF b[1] THEN b[2] ELSE c[2]
<1>1. PICK rows : rows = <<a, b, c>>
      OBVIOUS
<1>2. DOMAIN rows = 1..3 /\ rows[1] = a /\ rows[2] = b /\ rows[3] = c
      BY <1>1
<1> HIDE <1>1
<1>3. PICK first : first = CHOOSE i \in DOMAIN rows : rows[i][1] /\ \A j \in 1..(i - 1) : ~rows[j][1]
      OBVIOUS
<1>4. FirstHolding(rows) = rows[first][2]
      BY <1>3 DEF FirstHolding
<1>5. CASE a[1]
  <2>1. first = 1
        BY <1>2, <1>3, <1>5
  <2> QED BY <1>1, <1>2, <1>4, <1>5, <2>1
<1>6. CASE ~a[1] /\ b[1]
  <2>1. first = 2
        BY <1>2, <1>3, <1>6
  <2> QED BY <1>1, <1>2, <1>4, <1>6, <2>1
<1>7. CASE ~a[1] /\ ~b[1]
  <2>1. first = 3
        BY <1>2, <1>3, <1>7
  <2> QED BY <1>1, <1>2, <1>4, <1>7, <2>1
<1> QED BY <1>5, <1>6, <1>7

LEMMA FirstOf4 ==
    ASSUME NEW a, NEW b, NEW c, NEW d, d[1] = TRUE
    PROVE  FirstHolding(<<a, b, c, d>>) =
             IF a[1] THEN a[2] ELSE IF b[1] THEN b[2] ELSE IF c[1] THEN c[2] ELSE d[2]
<1>1. PICK rows : rows = <<a, b, c, d>>
      OBVIOUS
<1>2. DOMAIN rows = 1..4 /\ rows[1] = a /\ rows[2] = b /\ rows[3] = c /\ rows[4] = d
      BY <1>1
<1> HIDE <1>1
<1>3. PICK first : first = CHOOSE i \in DOMAIN rows : rows[i][1] /\ \A j \in 1..(i - 1) : ~rows[j][1]
      OBVIOUS
<1>4. FirstHolding(rows) = rows[first][2]
      BY <1>3 DEF FirstHolding
<1>5. CASE a[1]
  <2>1. first = 1
        BY <1>2, <1>3, <1>5
  <2> QED BY <1>1, <1>2, <1>4, <1>5, <2>1
<1>6. CASE ~a[1] /\ b[1]
  <2>1. first = 2
        BY <1>2, <1>3, <1>6
  <2> QED BY <1>1, <1>2, <1>4, <1>6, <2>1
<1>7. CASE ~a[1] /\ ~b[1] /\ c[1]
  <2>1. first = 3
        BY <1>2, <1>3, <1>7
  <2> QED BY <1>1, <1>2, <1>4, <1>7, <2>1
<1>8. CASE ~a[1] /\ ~b[1] /\ ~c[1]
  <2>1. first = 4
        BY <1>2, <1>3, <1>8
  <2> QED BY <1>1, <1>2, <1>4, <1>8, <2>1
<1> QED BY <1>5, <1>6, <1>7, <1>8

LEMMA FirstOf5 ==
    ASSUME NEW a, NEW b, NEW c, NEW d, NEW e, e[1] = TRUE
    PROVE  FirstHolding(<<a, b, c, d, e>>) =
             IF a[1] THEN a[2] ELSE IF b[1] THEN b[2] ELSE IF c[1] THEN c[2] ELSE
             IF d[1] THEN d[2] ELSE e[2]
<1>1. PICK rows : rows = <<a, b, c, d, e>>
      OBVIOUS
<1>2. DOMAIN rows = 1..5 /\ rows[1] = a /\ rows[2] = b /\ rows[3] = c /\ rows[4] = d /\ rows[5] = e
      BY <1>1
<1> HIDE <1>1
<1>3. PICK first : first = CHOOSE i \in DOMAIN rows : rows[i][1] /\ \A j \in 1..(i - 1) : ~rows[j][1]
      OBVIOUS
<1>4. FirstHolding(rows) = rows[first][2]
      BY <1>3 DEF FirstHolding
<1>5. CASE a[1]
  <2>1. first = 1
        BY <1>2, <1>3, <1>5
  <2> QED BY <1>1, <1>2, <1>4, <1>5, <2>1
<1>6. CASE ~a[1] /\ b[1]
  <2>1. first = 2
        BY <1>2, <1>3, <1>6
  <2> QED BY <1>1, <1>2, <1>4, <1>6, <2>1
<1>7. CASE ~a[1] /\ ~b[1] /\ c[1]
  <2>1. first = 3
        BY <1>2, <1>3, <1>7
  <2> QED BY <1>1, <1>2, <1>4, <1>7, <2>1
<1>8. CASE ~a[1] /\ ~b[1] /\ ~c[1] /\ d[1]
  <2>1. first = 4
        BY <1>2, <1>3, <1>8
  <2> QED BY <1>1, <1>2, <1>4, <1>8, <2>1
<1>9. CASE ~a[1] /\ ~b[1] /\ ~c[1] /\ ~d[1]
  <2>1. first = 5
        BY <1>2, <1>3, <1>9
  <2> QED BY <1>1, <1>2, <1>4, <1>9, <2>1
<1> QED BY <1>5, <1>6, <1>7, <1>8, <1>9

-----------------------------------------------------------------------------
(* What a loop keeps of a list, what it gathers, and what a set is read out as. *)

\* What is picked stands where it stood: the places it came from go up, and none is left out.
LEMMA PickedPlaces ==
    ASSUME NEW list, IsList(list), NEW places
    PROVE  /\ Picked(list, places) \in Seq(ToSet(list))
           /\ \E pos \in [DOMAIN Picked(list, places) -> DOMAIN list] :
                /\ \A i \in DOMAIN Picked(list, places) :
                        pos[i] \in places /\ Picked(list, places)[i] = list[pos[i]]
                /\ \A i, j \in DOMAIN Picked(list, places) : i < j => pos[i] < pos[j]
                /\ \A p \in DOMAIN list : p \in places => \E i \in DOMAIN Picked(list, places) : pos[i] = p
<1>1. PICK n \in Nat : n = Len(list) /\ DOMAIN list = 1..n
      BY Lists1
<1>2. PICK T : T = ToSet(list) /\ \A i \in 1..n : list[i] \in T
      BY <1>1, Lists1
<1>3. PICK seqs : seqs = [i \in 1..n |-> IF i \in places THEN <<list[i]>> ELSE <<>>]
      OBVIOUS
<1>4. seqs \in Seq(Seq(T)) /\ Len(seqs) = n
  <2>1. \A i \in 1..n : seqs[i] \in Seq(T)
        BY <1>2, <1>3
  <2>2. seqs = [i \in 1..n |-> seqs[i]]
        BY <1>3
  <2> QED BY <2>1, <2>2
<1>5. PICK out : out = Picked(list, places)
      OBVIOUS
<1>6. out = FlattenSeq(seqs)
      BY <1>1, <1>3, <1>5 DEF Picked
<1>7. PICK h : /\ h \in [0..n -> Seq(T)]
               /\ h[0] = <<>>
               /\ \A i \in 1..n : h[i] = h[i - 1] \o seqs[i]
               /\ out = h[n]
      BY <1>4, <1>6, FlattenByStep
<1> DEFINE From(m, pos) ==
        /\ pos \in [1..Len(h[m]) -> 1..m]
        /\ \A i \in 1..Len(h[m]) : pos[i] \in places /\ h[m][i] = list[pos[i]]
        /\ \A i, j \in 1..Len(h[m]) : i < j => pos[i] < pos[j]
        /\ \A p \in 1..m : p \in places => \E i \in 1..Len(h[m]) : pos[i] = p
    S == {m \in Nat : m \in 0..n => \E pos : From(m, pos)}
<1>8. 0 \in S
  <2>1. PICK pos : pos = [i \in 1..0 |-> 1]
        OBVIOUS
  <2>2. Len(h[0]) = 0
        BY <1>7
  <2>3. From(0, pos)
        BY <2>1, <2>2
  <2> QED BY <2>3
<1>9. ASSUME NEW m \in Nat, m \in S PROVE m + 1 \in S
  <2>0. m + 1 \in Nat
        OBVIOUS
  <2>1. CASE m + 1 \in 1..n
    <3>1. m \in 0..n /\ (m + 1) - 1 = m
          BY <2>1
    <3>2. PICK pos : From(m, pos)
          BY <1>9, <3>1
    <3>3. PICK a \in Seq(T) : a = h[m]
          BY <1>7, <3>1
    <3>4. h[m + 1] = a \o seqs[m + 1]
          BY <1>7, <2>1, <3>1, <3>3
    <3>5. PICK l \in Nat : l = Len(a)
          OBVIOUS
    <3>6. /\ pos \in [1..l -> 1..m]
          /\ \A i \in 1..l : pos[i] \in places /\ a[i] = list[pos[i]]
          /\ \A i, j \in 1..l : i < j => pos[i] < pos[j]
          /\ \A p \in 1..m : p \in places => \E i \in 1..l : pos[i] = p
          BY <3>2, <3>3, <3>5
    <3>7. CASE m + 1 \notin places
      <4>1. h[m + 1] = a
        <5>1. seqs[m + 1] = <<>>
              BY <1>3, <2>1, <3>7
        <5> QED BY <5>1, <3>4, ConcatEmptySeq
      <4>2. pos \in [1..l -> 1..(m + 1)]
            BY <3>6
      <4>3. \A p \in 1..(m + 1) : p \in places => \E i \in 1..l : pos[i] = p
        <5>1. \A p \in 1..(m + 1) : p \in places => p \in 1..m
              BY <3>7
        <5> QED BY <5>1, <3>6
      <4>4. From(m + 1, pos)
            BY <4>1, <4>2, <4>3, <3>5, <3>6
      <4> QED BY <2>0, <4>4
    <3>8. CASE m + 1 \in places
      <4>1. PICK b : b = h[m + 1]
            OBVIOUS
      <4>2. b = a \o <<list[m + 1]>>
        <5>1. seqs[m + 1] = <<list[m + 1]>>
              BY <1>3, <2>1, <3>8
        <5> QED BY <5>1, <3>4, <4>1
      <4>3. <<list[m + 1]>> \in Seq(T) /\ Len(<<list[m + 1]>>) = 1
            BY <1>2, <2>1
      <4>4. Len(b) = l + 1 /\ \A i \in 1..(l + 1) : b[i] = IF i <= l THEN a[i] ELSE list[m + 1]
        <5>1. /\ Len(b) = Len(a) + 1
              /\ \A i \in 1..(Len(a) + 1) : b[i] = IF i <= Len(a) THEN a[i] ELSE <<list[m + 1]>>[i - Len(a)]
              BY <4>2, <4>3, ConcatProperties
        <5>2. \A i \in 1..(l + 1) : ~(i <= l) => i - l = 1
              BY <3>5
        <5> QED BY <5>1, <5>2, <3>5
      <4>5. PICK new : new = [i \in 1..(l + 1) |-> IF i = l + 1 THEN m + 1 ELSE pos[i]]
            OBVIOUS
      <4>6. new[l + 1] = m + 1 /\ \A i \in 1..l : new[i] = pos[i] /\ pos[i] \in 1..m /\ i <= l
        <5>1. \A i \in 1..l : i # l + 1 /\ i \in 1..(l + 1) /\ i <= l
              OBVIOUS
        <5>2. l + 1 \in 1..(l + 1)
              OBVIOUS
        <5> QED BY <4>5, <3>6, <5>1, <5>2
      <4>7. \A i \in 1..(l + 1) : i \in 1..l \/ i = l + 1
            OBVIOUS
      <4>8. new \in [1..(l + 1) -> 1..(m + 1)]
        <5>1. \A i \in 1..(l + 1) : new[i] \in 1..(m + 1)
              BY <4>6, <4>7
        <5> QED BY <4>5, <5>1
      <4>9. \A i \in 1..(l + 1) : new[i] \in places /\ b[i] = list[new[i]]
        <5>1. ~(l + 1 <= l) /\ l + 1 \in 1..(l + 1) /\ \A i \in 1..l : i \in 1..(l + 1)
              OBVIOUS
        <5> QED BY <5>1, <4>4, <4>6, <4>7, <3>6, <3>8
      <4>10. \A i, j \in 1..(l + 1) : i < j => new[i] < new[j]
        <5> SUFFICES ASSUME NEW i \in 1..(l + 1), NEW j \in 1..(l + 1), i < j PROVE new[i] < new[j]
            OBVIOUS
        <5>1. i \in 1..l
              OBVIOUS
        <5>2. CASE j = l + 1
              BY <5>1, <5>2, <4>6
        <5>3. CASE j \in 1..l
              BY <5>1, <5>3, <4>6, <3>6
        <5> QED BY <5>2, <5>3, <4>7
      <4>11. ASSUME NEW p \in 1..(m + 1), p \in places PROVE \E i \in 1..(l + 1) : new[i] = p
        <5>1. CASE p = m + 1
              BY <5>1, <4>6
        <5>2. CASE p # m + 1
          <6>1. p \in 1..m
                BY <5>2
          <6>2. PICK i \in 1..l : pos[i] = p
                BY <6>1, <4>11, <3>6
          <6>3. i \in 1..(l + 1)
                OBVIOUS
          <6> QED BY <6>2, <6>3, <4>6
        <5> QED BY <5>1, <5>2
      <4>12. From(m + 1, new)
            BY <4>1, <4>4, <4>8, <4>9, <4>10, <4>11
      <4> QED BY <2>0, <4>12
    <3> QED BY <3>7, <3>8
  <2>2. CASE m + 1 \notin 1..n
        BY <2>0, <2>2
  <2> QED BY <2>1, <2>2
<1>10. PICK pos : From(n, pos)
  <2>1. n \in S
    <3> HIDE DEF S
    <3> QED BY <1>8, <1>9, SetInduction
  <2> QED BY <2>1
<1>11. out \in Seq(T) /\ DOMAIN out = 1..Len(out) /\ h[n] = out
      BY <1>7
<1>12. /\ pos \in [1..Len(out) -> 1..n]
       /\ \A i \in 1..Len(out) : pos[i] \in places /\ out[i] = list[pos[i]]
       /\ \A i, j \in 1..Len(out) : i < j => pos[i] < pos[j]
       /\ \A p \in 1..n : p \in places => \E i \in 1..Len(out) : pos[i] = p
      BY <1>10, <1>11
<1> HIDE DEF From
<1>13. /\ pos \in [DOMAIN out -> DOMAIN list]
       /\ \A i \in DOMAIN out : pos[i] \in places /\ out[i] = list[pos[i]]
       /\ \A i, j \in DOMAIN out : i < j => pos[i] < pos[j]
       /\ \A p \in DOMAIN list : p \in places => \E i \in DOMAIN out : pos[i] = p
       BY <1>1, <1>11, <1>12
<1>14. out \in Seq(ToSet(list))
       BY <1>2, <1>11
<1> QED BY <1>5, <1>13, <1>14

\* What it picks is what stands at those places.
LEMMA PickedMembers ==
    ASSUME NEW list, IsList(list), NEW places
    PROVE  /\ IsList(Picked(list, places))
           /\ \A x : x \in ToSet(Picked(list, places)) <=> \E i \in DOMAIN list : i \in places /\ list[i] = x
           /\ Picked(list, places) = <<>> <=> \A i \in DOMAIN list : i \notin places
<1>1. PICK out : out = Picked(list, places)
      OBVIOUS
<1>2. out \in Seq(ToSet(list))
      BY <1>1, PickedPlaces
<1>3. PICK pos : /\ pos \in [DOMAIN out -> DOMAIN list]
                 /\ \A i \in DOMAIN out : pos[i] \in places /\ out[i] = list[pos[i]]
                 /\ \A p \in DOMAIN list : p \in places => \E i \in DOMAIN out : pos[i] = p
      BY <1>1, PickedPlaces
<1>4. \A x : x \in ToSet(out) <=> \E i \in DOMAIN list : i \in places /\ list[i] = x
      BY <1>3 DEF ToSet
<1>5. out = <<>> <=> DOMAIN out = {}
      BY <1>2
<1>6. IsList(out)
      BY <1>2, SeqIsList
<1> QED BY <1>1, <1>3, <1>4, <1>5, <1>6

\* Going from entry to entry: what is found so far, and what is seen by then.
Finds(F, S, R, step) ==
    \A ref \in R : \A was \in S : step[ref][was].found \in Seq(F) /\ step[ref][was].seen \in S
Gathers(F, S, step, list, seen, found, by) ==
    /\ found \in [0..Len(list) -> Seq(F)] /\ by \in [0..Len(list) -> S]
    /\ found[0] = <<>> /\ by[0] = seen
    /\ \A i \in 1..Len(list) :
           /\ found[i] = found[i - 1] \o step[list[i]][by[i - 1]].found
           /\ by[i] = step[list[i]][by[i - 1]].seen
    /\ Gather(step, list, seen) = [found |-> found[Len(list)], seen |-> by[Len(list)]]
LEMMA GatherByStep ==
    ASSUME NEW F, NEW S, NEW R, NEW step, NEW list \in Seq(R), NEW seen \in S, Finds(F, S, R, step)
    PROVE  \E found, by : Gathers(F, S, step, list, seen, found, by)
<1>1. PICK n \in Nat : n = Len(list)
      OBVIOUS
<1> DEFINE Next1(before, i) == [found |-> before.found \o step[list[i]][before.seen].found,
                                seen |-> step[list[i]][before.seen].seen]
           First == [found |-> <<>>, seen |-> seen]
           Goes(g, m) == g = [i \in 0..m |-> IF i = 0 THEN First ELSE Next1(g[i - 1], i)]
           V == [found : Seq(F), seen : S]
           Q == {m \in Nat : m \in 0..n => \E g \in [0..m -> V] : Goes(g, m)}
<1>2. First \in V
  <2>1. <<>> \in Seq(F)
        OBVIOUS
  <2> QED BY <2>1
<1>3. \A v \in V : \A i \in 1..n : Next1(v, i) \in V
  <2> SUFFICES ASSUME NEW v \in V, NEW i \in 1..n PROVE Next1(v, i) \in V
      OBVIOUS
  <2>1. list[i] \in R /\ v.seen \in S /\ v.found \in Seq(F)
        BY <1>1
  <2>2. step[list[i]][v.seen].found \in Seq(F) /\ step[list[i]][v.seen].seen \in S
        BY <2>1 DEF Finds
  <2>3. v.found \o step[list[i]][v.seen].found \in Seq(F)
        BY <2>1, <2>2, ConcatProperties
  <2> QED BY <2>2, <2>3
<1>4. 0 \in Q
  <2>1. PICK g : g = [i \in 0..0 |-> First]
        OBVIOUS
  <2>2. g \in [0..0 -> V]
        BY <1>2, <2>1
  <2>3. Goes(g, 0)
        BY <2>1
  <2> QED BY <2>2, <2>3
<1>5. ASSUME NEW m \in Nat, m \in Q PROVE m + 1 \in Q
  <2>0. m + 1 \in Nat
        OBVIOUS
  <2>1. CASE m + 1 \in 1..n
    <3>0. m \in 0..n
          BY <2>1
    <3>1. PICK g \in [0..m -> V] : Goes(g, m)
      <4> HIDE DEF Goes, V
      <4> QED BY <1>5, <3>0
    <3>2. PICK last : last = Next1(g[m], m + 1)
          OBVIOUS
    <3>3. last \in V
          BY <1>3, <2>1, <3>2
    <3>4. PICK k : k = [i \in 0..(m + 1) |-> IF i = m + 1 THEN last ELSE g[i]]
          OBVIOUS
    <3> HIDE DEF V
    <3>5. k \in [0..(m + 1) -> V]
          BY <3>3, <3>4
    <3>6. ASSUME NEW i \in 0..(m + 1) PROVE k[i] = IF i = 0 THEN First ELSE Next1(k[i - 1], i)
      <4>1. CASE i = m + 1
        <5>1. k[m] = g[m] /\ i - 1 = m /\ i # 0
              BY <3>4, <4>1
        <5> HIDE DEF Next1, First
        <5> QED BY <4>1, <5>1, <3>2, <3>4
      <4>2. CASE i # m + 1
        <5>1. i \in 0..m /\ (i # 0 => i - 1 \in 0..m /\ i - 1 # m + 1 /\ i - 1 \in 0..(m + 1))
              BY <4>2
        <5> HIDE DEF Next1, First
        <5>2. g[i] = IF i = 0 THEN First ELSE Next1(g[i - 1], i)
              BY <3>1, <5>1
        <5>3. k[i] = g[i] /\ (i # 0 => k[i - 1] = g[i - 1])
              BY <5>1, <4>2, <3>4
        <5> QED BY <5>1, <5>2, <5>3
      <4> QED BY <4>1, <4>2
    <3>7. k = [i \in 0..(m + 1) |-> k[i]]
          BY <3>4
    <3>8. Goes(k, m + 1)
      <4> HIDE DEF Next1, First
      <4> QED BY <3>6, <3>7
    <3> QED BY <2>0, <3>5, <3>8
  <2>2. CASE m + 1 \notin 1..n
    <3>1. m + 1 \notin 0..n
          BY <2>2
    <3> HIDE DEF Goes, V
    <3> QED BY <2>0, <3>1
  <2> QED BY <2>1, <2>2
<1>6. \E g \in [0..n -> V] : Goes(g, n)
  <2>1. n \in Q
    <3> HIDE DEF Q
    <3> QED BY <1>4, <1>5, SetInduction
  <2>2. n \in 0..n
        OBVIOUS
  <2> HIDE DEF Goes, V
  <2> QED BY <2>1, <2>2
<1>7. PICK g : g = CHOOSE k : Goes(k, n)
      OBVIOUS
<1>8. Goes(g, n)
  <2> HIDE DEF Goes
  <2> QED BY <1>6, <1>7
<1>9. Gather(step, list, seen) = g[n]
      BY <1>1, <1>7 DEF Gather
<1>10. g[0] = First /\ \A i \in 1..n : i - 1 \in 0..n /\ g[i] = Next1(g[i - 1], i)
  <2> HIDE DEF Next1, First
  <2>1. \A i \in 1..n : i \in 0..n /\ i # 0 /\ i - 1 \in 0..n
        OBVIOUS
  <2> QED BY <1>8, <2>1
<1> DEFINE U == {m \in Nat : m \in 0..n => g[m] \in V}
<1>11. ASSUME NEW m \in Nat, m \in U PROVE m + 1 \in U
  <2>1. CASE m + 1 \in 1..n
    <3>1. m \in 0..n /\ (m + 1) - 1 = m /\ m + 1 \in Nat
          BY <2>1
    <3> HIDE DEF V, Next1
    <3>2. g[m + 1] = Next1(g[m], m + 1)
          BY <1>10, <2>1, <3>1
    <3>3. g[m] \in V
          BY <1>11, <3>1
    <3>4. Next1(g[m], m + 1) \in V
          BY <1>3, <2>1, <3>3
    <3> QED BY <3>1, <3>2, <3>4
  <2>2. CASE m + 1 \notin 1..n
        BY <2>2
  <2> QED BY <2>1, <2>2
<1>12. \A m \in 0..n : g[m] \in V
  <2>1. 0 \in U
        BY <1>2, <1>10
  <2>2. Nat \subseteq U
    <3> HIDE DEF U
    <3> QED BY <2>1, <1>11, SetInduction
  <2> QED BY <2>2
<1>13. PICK found : found = [i \in 0..n |-> g[i].found]
      OBVIOUS
<1>14. PICK by : by = [i \in 0..n |-> g[i].seen]
      OBVIOUS
<1>15. found \in [0..n -> Seq(F)] /\ by \in [0..n -> S]
      BY <1>12, <1>13, <1>14
<1>16. found[0] = <<>> /\ by[0] = seen
      BY <1>10, <1>13, <1>14
<1>17. ASSUME NEW i \in 1..n
       PROVE  /\ found[i] = found[i - 1] \o step[list[i]][by[i - 1]].found
              /\ by[i] = step[list[i]][by[i - 1]].seen
  <2>1. i \in 0..n /\ i - 1 \in 0..n
        OBVIOUS
  <2>2. found[i] = g[i].found /\ by[i] = g[i].seen /\ found[i - 1] = g[i - 1].found /\ by[i - 1] = g[i - 1].seen
        BY <2>1, <1>13, <1>14
  <2>3. g[i] = Next1(g[i - 1], i)
    <3> HIDE DEF Next1
    <3> QED BY <1>10
  <2>4. /\ g[i].found = g[i - 1].found \o step[list[i]][g[i - 1].seen].found
        /\ g[i].seen = step[list[i]][g[i - 1].seen].seen
    <3>1. PICK more : more = g[i - 1].found \o step[list[i]][g[i - 1].seen].found
          OBVIOUS
    <3>2. PICK after : after = step[list[i]][g[i - 1].seen].seen
          OBVIOUS
    <3>3. g[i] = [found |-> more, seen |-> after]
          BY <2>3, <3>1, <3>2
    <3>4. g[i].found = more
          BY <3>3
    <3>5. g[i].seen = after
          BY <3>3
    <3> QED BY <3>1, <3>2, <3>4, <3>5
  <2> QED BY <2>2, <2>4
<1>18. g[n] = [found |-> found[n], seen |-> by[n]]
  <2>1. n \in 0..n
        OBVIOUS
  <2>2. g[n] \in V
        BY <2>1, <1>12
  <2> QED BY <2>1, <2>2, <1>13, <1>14
<1> QED BY <1>1, <1>9, <1>15, <1>16, <1>17, <1>18 DEF Gathers

\* A finite set is read out member by member.
LEMMA ReadOut ==
    ASSUME NEW S, IsFiniteSet(S)
    PROVE  IsList(SetToSeq(S)) /\ ToSet(SetToSeq(S)) = S /\ Len(SetToSeq(S)) = Cardinality(S)
<1>1. PICK n \in Nat : n = Cardinality(S)
      BY FS_CardinalityType
<1>2. PICK f : f \in Bijection(1..n, S)
      BY <1>1, FS_CardinalityType DEF ExistsBijection
<1>3. f \in [1..n -> S] /\ IsInjective(f)
      BY <1>2 DEF Bijection, Injection, IsInjective
<1>4. PICK list : list = SetToSeq(S)
      OBVIOUS
<1>5. list \in [1..n -> S] /\ IsInjective(list)
      BY <1>1, <1>3, <1>4 DEF SetToSeq
<1>6. list \in Injection(1..n, S)
      BY <1>5 DEF Injection, IsInjective
<1>7. IsFiniteSet(1..n) /\ Cardinality(1..n) = n
      BY FS_Interval
<1>8. list \in Surjection(1..n, S)
      BY <1>1, <1>6, <1>7, FS_Injection
<1>9. ToSet(list) = S
      BY <1>5, <1>8 DEF Surjection, ToSet
<1>10. IsList(list) /\ Len(list) = n
      BY <1>5, MadeIsList
<1> QED BY <1>1, <1>4, <1>9, <1>10

LEMMA FlattenLists ==
    ASSUME NEW n \in Nat, NEW seqs, DOMAIN seqs = 1..n, seqs = [i \in 1..n |-> seqs[i]],
           \A i \in 1..n : IsList(seqs[i])
    PROVE  /\ IsList(FlattenSeq(seqs))
           /\ \A x : x \in ToSet(FlattenSeq(seqs)) <=> \E i \in 1..n : x \in ToSet(seqs[i])
<1>1. PICK T : T = UNION {ToSet(seqs[i]) : i \in 1..n}
      OBVIOUS
<1>2. ASSUME NEW i \in 1..n PROVE seqs[i] \in Seq(T)
  <2>1. ToSet(seqs[i]) \subseteq T
        BY <1>1
  <2>2. seqs[i] \in Seq(ToSet(seqs[i]))
        BY DEF IsList
  <2> QED BY <2>1, <2>2
<1>3. seqs \in Seq(Seq(T))
      BY <1>2
<1> QED BY <1>3, FlattenMembers, SeqIsList

LEMMA JoinLists ==
    ASSUME NEW a, IsList(a), NEW b, IsList(b)
    PROVE  IsList(a \o b) /\ \A x : x \in ToSet(a \o b) <=> x \in ToSet(a) \/ x \in ToSet(b)
<1>1. PICK T : T = ToSet(a) \cup ToSet(b)
      OBVIOUS
<1>2. a \in Seq(T)
      BY <1>1, Lists1
<1>3. b \in Seq(T)
      BY <1>1, Lists1
<1> QED BY <1>2, <1>3, JoinMembers, SeqIsList

LEMMA FirstOnceIsAList ==
    ASSUME NEW list, IsList(list)
    PROVE  IsList(FirstOnce(list)) /\ ToSet(FirstOnce(list)) \subseteq ToSet(list)
<1>1. \A i \in DOMAIN list : list[i] \in ToSet(list)
      BY Lists1
<1> QED BY <1>1, PickedMembers DEF FirstOnce

LEMMA CutIsAList ==
    ASSUME NEW list, IsList(list), NEW n \in Nat
    PROVE  /\ IsList(Cut(list, n)) /\ ToSet(Cut(list, n)) \subseteq ToSet(list)
           /\ (list # <<>> /\ n # 0) => Len(Cut(list, n)) >= 1
<1>1. Len(list) \in Nat /\ DOMAIN list = 1..Len(list) /\ \A i \in DOMAIN list : list[i] \in ToSet(list)
      BY Lists1
<1>2. PICK m : m = Min({n, Len(list)})
      OBVIOUS
<1>3. m \in Nat /\ m \in {n, Len(list)} /\ m <= Len(list)
  <2>1. {n, Len(list)} \subseteq Nat /\ {n, Len(list)} # {}
        BY <1>1
  <2>2. m \in {n, Len(list)} /\ \A y \in {n, Len(list)} : m <= y
        BY <1>2, <2>1, LeastIsThere
  <2> QED BY <2>1, <2>2
<1>4. \A i \in 1..m : list[i] \in ToSet(list)
  <2>1. PICK l \in Nat : l = Len(list)
        BY <1>1
  <2>2. m \in Nat /\ m <= l
        BY <1>3, <2>1
  <2>3. \A i \in 1..m : i \in 1..l
        BY <2>2
  <2> QED BY <1>1, <2>1, <2>3
<1>5. SubSeq(list, 1, m) \in Seq(ToSet(list)) /\ Len(SubSeq(list, 1, m)) = IF 1 <= m THEN m - 1 + 1 ELSE 0
  <2>1. PICK T : T = ToSet(list)
        OBVIOUS
  <2>2. m \in Int /\ 1 \in Int /\ \A i \in 1..m : list[i] \in T
        BY <1>3, <1>4, <2>1
  <2>3. SubSeq(list, 1, m) \in Seq(T)
        BY ONLY <2>2, SubSeqProperties
  <2>4. Len(SubSeq(list, 1, m)) = IF 1 <= m THEN m - 1 + 1 ELSE 0
        BY ONLY <2>2, SubSeqProperties
  <2> QED BY <2>1, <2>3, <2>4
<1>6. list # <<>> => Len(list) >= 1
      BY <1>1, EmptySeq DEF IsList
<1>7. Cut(list, n) = SubSeq(list, 1, m)
      BY <1>2 DEF Cut
<1>8. (list # <<>> /\ n # 0) => m >= 1
  <2>1. PICK l \in Nat : l = Len(list)
        BY <1>1
  <2>2. (m = n \/ m = l) /\ (list # <<>> => l >= 1)
        BY <1>3, <1>6, <2>1
  <2>3. m \in Nat
        BY <1>3
  <2> HIDE <2>1
  <2> QED BY <2>2, <2>3
<1>9. m >= 1 => Len(SubSeq(list, 1, m)) >= 1
      BY <1>3, <1>5
<1>10. IsList(SubSeq(list, 1, m)) /\ ToSet(SubSeq(list, 1, m)) \subseteq ToSet(list)
      BY <1>5, SeqIsList
<1> QED BY <1>7, <1>8, <1>9, <1>10

-----------------------------------------------------------------------------
(* The routes labels name. *)

LEMMA NamedIsFinite ==
    ASSUME NEW lbls, IsFiniteSet(DOMAIN lbls), NEW part
    PROVE  IsFiniteSet(NamedAt(lbls, part))
<1>1. PICK keys : keys = {key \in DOMAIN lbls : key[1] = part}
      OBVIOUS
<1>2. IsFiniteSet(keys)
      BY <1>1, FS_Subset
<1>3. PICK f : f = [key \in keys |-> key[2]]
      OBVIOUS
<1>4. f \in Surjection(keys, NamedAt(lbls, part))
      BY <1>1, <1>3 DEF Surjection, NamedAt
<1> QED BY <1>2, <1>4, FS_Surjection

LEMMA TraefikRoutes ==
    ASSUME NEW lbls, IsFiniteSet(DOMAIN lbls)
    PROVE  /\ IsList(Traefik(lbls))
           /\ \A r \in ToSet(Traefik(lbls)) : \E name \in NamedAt(lbls, "routers") : r = TraefikRoute(lbls, name)
<1>1. PICK names : names = SetToSeq(NamedAt(lbls, "routers"))
      OBVIOUS
<1>2. IsList(names) /\ ToSet(names) = NamedAt(lbls, "routers")
      BY <1>1, NamedIsFinite, ReadOut
<1>3. Len(names) \in Nat /\ DOMAIN names = 1..Len(names) /\ \A i \in DOMAIN names : names[i] \in ToSet(names)
      BY <1>2, Lists1
<1>4. PICK routes : routes = [i \in DOMAIN names |-> TraefikRoute(lbls, names[i])]
      OBVIOUS
<1>5. IsList(routes)
  <2>1. DOMAIN routes = 1..Len(names) /\ routes = [i \in 1..Len(names) |-> routes[i]]
        BY <1>3, <1>4
  <2> QED BY <1>3, <2>1, MadeIsList
<1>6. \A r \in ToSet(routes) : \E name \in NamedAt(lbls, "routers") : r = TraefikRoute(lbls, name)
      BY <1>2, <1>3, <1>4 DEF ToSet
<1>7. IsList(<<>>) /\ ToSet(<<>>) = {}
      BY EmptySeq DEF IsList, ToSet
<1>8. Traefik(lbls) = IF Falsy(At(lbls, <<"enable">>)) THEN <<>> ELSE routes
      BY <1>1, <1>4 DEF Traefik
<1> QED BY <1>5, <1>6, <1>7, <1>8

LEMMA CloudflareIsAList ==
    ASSUME NEW lbls, IsFiniteSet(DOMAIN lbls)
    PROVE  IsList(Cloudflare(lbls))
<1>1. PICK open : open = {i \in NamedAt(lbls, "tunnels") : TunnelOn(lbls, i)}
      OBVIOUS
<1>2. IsFiniteSet(open)
      BY <1>1, NamedIsFinite, FS_Subset
<1>3. PICK n \in Nat : n = Cardinality(open)
      BY <1>2, FS_CardinalityType
<1>4. PICK tunnels : tunnels = Cloudflare(lbls)
      OBVIOUS
<1>5. DOMAIN tunnels = 1..n /\ tunnels = [i \in 1..n |-> tunnels[i]]
      BY <1>1, <1>3, <1>4 DEF Cloudflare
<1> QED BY <1>4, <1>5, MadeIsList

-----------------------------------------------------------------------------
(* Where the endpoints may be. *)

\* What is known of a fleet whose routes are read.
SoundRoutes(svc) ==
    /\ IsList(svc.targets) /\ IsList(svc.docker.targets)
    /\ IsFiniteSet(DOMAIN svc.labels)
    /\ IsList(svc.routers) /\ IsList(svc.tunnels) /\ IsList(svc.env)
    /\ \A r \in ToSet(svc.routers) :
         /\ \E name \in NamedAt(svc.labels, "routers") : r = TraefikRoute(svc.labels, name)
         /\ IsFiniteSet(r.hosts)
         /\ IsList(r.middlewares) /\ ToSet(r.middlewares) \subseteq DOMAIN BareName
    /\ \A name \in NamedAt(svc.labels, "middlewares") :
         LET chain == ListAt(svc.labels, <<"middlewares", name, "chain">>)
         IN  IsList(chain) /\ ToSet(chain) \subseteq DOMAIN BareName
SoundFleet(f) == IsList(f.services) /\ \A k \in Keys(f) : SoundRoutes(Service(f, k))

\* Whose labels publish the API under a name or a host.
ApiRouters(lbls) == {r \in NamedAt(lbls, "routers") : At(lbls, <<"routers", r, "service">>) = "api@internal"}
Publishes(svc, host) ==
    /\ ApiRouters(svc.labels) # {}
    /\ \/ host \in {svc.name, svc.container}
       \/ \E r \in ApiRouters(svc.labels) : host \in At(svc.labels, <<"routers", r, "rule">>)
Proven(f, host) == \E k \in Keys(f) : Publishes(Service(f, k), host)

LEMMA RouterHostsAreLists ==
    ASSUME NEW routers, IsList(routers), \A r \in ToSet(routers) : IsFiniteSet(r.hosts)
    PROVE  /\ IsList(RouterHosts(routers))
           /\ \A h \in ToSet(RouterHosts(routers)) : \E r \in ToSet(routers) : h \in r.hosts
<1>1. PICK n \in Nat : n = Len(routers) /\ DOMAIN routers = 1..n
      BY Lists1
<1>2. PICK seqs : seqs = [i \in DOMAIN routers |-> SetToSeq(routers[i].hosts)]
      OBVIOUS
<1>3. ASSUME NEW i \in 1..n
      PROVE  /\ routers[i] \in ToSet(routers)
             /\ IsList(seqs[i]) /\ ToSet(seqs[i]) = routers[i].hosts
  <2>1. routers[i] \in ToSet(routers)
        BY <1>1, Lists1
  <2>2. IsFiniteSet(routers[i].hosts)
        BY <2>1
  <2>3. seqs[i] = SetToSeq(routers[i].hosts)
        BY <1>1, <1>2
  <2> QED BY <2>1, <2>2, <2>3, ReadOut
<1>4. DOMAIN seqs = 1..n /\ seqs = [i \in 1..n |-> seqs[i]]
      BY <1>1, <1>2
<1>5. /\ IsList(FlattenSeq(seqs))
      /\ \A x : x \in ToSet(FlattenSeq(seqs)) <=> \E i \in 1..n : x \in ToSet(seqs[i])
      BY <1>3, <1>4, FlattenLists
<1>6. RouterHosts(routers) = FlattenSeq(seqs)
      BY <1>2 DEF RouterHosts
<1> QED BY <1>3, <1>5, <1>6

LEMMA AllHostnamesIsAList ==
    ASSUME NEW svc, SoundRoutes(svc)
    PROVE  IsList(AllHostnames(svc))
<1>1. PICK n \in Nat : n = Len(svc.tunnels) /\ DOMAIN svc.tunnels = 1..n
      BY Lists1 DEF SoundRoutes
<1>2. PICK names : names = [i \in DOMAIN svc.tunnels |-> svc.tunnels[i].hostname]
      OBVIOUS
<1>3. DOMAIN names = 1..n /\ names = [i \in 1..n |-> names[i]]
      BY <1>1, <1>2
<1>4. IsList(names)
      BY <1>3, MadeIsList
<1>5. IsList(RouterHosts(svc.routers))
      BY RouterHostsAreLists DEF SoundRoutes
<1>6. IsList(names \o RouterHosts(svc.routers))
      BY <1>4, <1>5, JoinLists
<1> QED BY <1>2, <1>6, FirstOnceIsAList DEF AllHostnames

LEMMA DialNamesFit ==
    ASSUME NEW svc
    PROVE  IsList(DialNames(svc)) /\ ToSet(DialNames(svc)) \subseteq {svc.name, svc.container}
<1>1. PICK names : names = <<svc.container, svc.name>>
      OBVIOUS
<1>2. names \in Seq({svc.name, svc.container})
      BY <1>1
<1>3. IsList(names) /\ ToSet(names) \subseteq {svc.name, svc.container}
      BY <1>2, SeqIsList
<1>4. PICK some : some = Picked(names, {i \in DOMAIN names : names[i] # ""})
      OBVIOUS
<1>5. IsList(some) /\ ToSet(some) \subseteq ToSet(names)
  <2>1. \A i \in DOMAIN names : names[i] \in ToSet(names)
        BY <1>3, Lists1
  <2>2. PICK places : places = {i \in DOMAIN names : names[i] # ""}
        OBVIOUS
  <2>3. some = Picked(names, places)
        BY <1>4, <2>2
  <2>4. IsList(some) /\ \A x \in ToSet(some) : \E i \in DOMAIN names : names[i] = x
        BY <1>3, <2>3, PickedMembers
  <2> QED BY <2>1, <2>4
<1>6. IsList(FirstOnce(some)) /\ ToSet(FirstOnce(some)) \subseteq ToSet(some)
      BY <1>5, FirstOnceIsAList
<1>7. DialNames(svc) = FirstOnce(some)
      BY <1>1, <1>4 DEF DialNames
<1> QED BY <1>3, <1>5, <1>6, <1>7

LEMMA ApiPortsIsAList ==
    ASSUME NEW svc, SoundRoutes(svc), NEW default
    PROVE  IsList(ApiPorts(svc, default))
<1>1. <<default>> \in Seq({default})
      OBVIOUS
<1>2. IsList(<<default>>)
      BY <1>1, SeqIsList
<1>3. IsList(svc.targets \o svc.docker.targets)
      BY JoinLists DEF SoundRoutes
<1>4. IsList(svc.targets \o svc.docker.targets \o <<default>>)
      BY <1>2, <1>3, JoinLists
<1>5. IsList(FirstOnce(svc.targets \o svc.docker.targets \o <<default>>))
      BY <1>4, FirstOnceIsAList
<1> QED BY <1>5, CutIsAList DEF ApiPorts, MaxPortsPerCandidate

LEMMA InternalFits ==
    ASSUME NEW svc, SoundRoutes(svc), NEW k, NEW default, NEW owned
    PROVE  /\ IsList(Internal(k, svc, default, owned))
           /\ \A c \in ToSet(Internal(k, svc, default, owned)) :
                c.owned = owned /\ c.key = k /\ c.host \in {svc.name, svc.container}
<1>1. PICK names : names = DialNames(svc)
      OBVIOUS
<1>2. PICK ports : ports = ApiPorts(svc, default)
      OBVIOUS
<1>3. PICK n \in Nat : DOMAIN names = 1..n /\ \A i \in 1..n : names[i] \in {svc.name, svc.container}
  <2>1. IsList(names) /\ ToSet(names) \subseteq {svc.name, svc.container}
        BY <1>1, DialNamesFit
  <2> QED BY <2>1, Lists1
<1>4. PICK m \in Nat : DOMAIN ports = 1..m
      BY <1>2, ApiPortsIsAList, Lists1
<1> DEFINE Made(i, j) == [host |-> names[i], port |-> ports[j], key |-> k, owned |-> owned]
<1>5. PICK seqs : seqs = [i \in 1..n |-> [j \in 1..m |-> Made(i, j)]]
      OBVIOUS
<1>6. ASSUME NEW i \in 1..n
      PROVE  IsList(seqs[i]) /\ \A c \in ToSet(seqs[i]) : \E j \in 1..m : c = Made(i, j)
  <2> HIDE DEF Made
  <2>1. seqs[i] = [j \in 1..m |-> Made(i, j)]
        BY <1>5
  <2>2. DOMAIN seqs[i] = 1..m /\ seqs[i] = [j \in 1..m |-> seqs[i][j]]
        BY <2>1
  <2>3. IsList(seqs[i])
        BY <2>2, MadeIsList
  <2> QED BY <2>1, <2>3 DEF ToSet
<1>7. DOMAIN seqs = 1..n /\ seqs = [i \in 1..n |-> seqs[i]]
      BY <1>5
<1>8. /\ IsList(FlattenSeq(seqs))
      /\ \A x : x \in ToSet(FlattenSeq(seqs)) <=> \E i \in 1..n : x \in ToSet(seqs[i])
      BY <1>6, <1>7, FlattenLists
<1>9. Internal(k, svc, default, owned) = FlattenSeq(seqs)
      BY <1>1, <1>2, <1>3, <1>4, <1>5 DEF Internal
<1>10. \A i \in 1..n : \A j \in 1..m :
          Made(i, j).owned = owned /\ Made(i, j).key = k /\ Made(i, j).host \in {svc.name, svc.container}
       BY <1>3
<1> HIDE DEF Made
<1> QED BY <1>6, <1>8, <1>9, <1>10

LEMMA PublicFits ==
    ASSUME NEW hosts, IsList(hosts), NEW k, NEW owned
    PROVE  /\ IsList(Public(k, hosts, owned))
           /\ \A c \in ToSet(Public(k, hosts, owned)) : c.owned = owned /\ c.key = k /\ c.host \in ToSet(hosts)
<1>1. PICK n \in Nat : DOMAIN hosts = 1..n /\ \A i \in 1..n : hosts[i] \in ToSet(hosts)
      BY Lists1
<1>2. PICK out : out = Public(k, hosts, owned)
      OBVIOUS
<1>3. DOMAIN out = 1..n /\ \A i \in 1..n : out[i] = [host |-> hosts[i], port |-> "443", key |-> k, owned |-> owned]
      BY <1>1, <1>2 DEF Public
<1>4. out = [i \in 1..n |-> out[i]]
      BY <1>1, <1>2 DEF Public
<1>5. IsList(out)
      BY <1>3, <1>4, MadeIsList
<1>6. \A c \in ToSet(out) : \E i \in 1..n : c = [host |-> hosts[i], port |-> "443", key |-> k, owned |-> owned]
      BY <1>3 DEF ToSet
<1> QED BY <1>1, <1>2, <1>5, <1>6

LEMMA ApiHostnamesFit ==
    ASSUME NEW svc, SoundRoutes(svc), NEW owned
    PROVE  /\ IsList(ApiHostnames(svc, owned))
           /\ owned => \A h \in ToSet(ApiHostnames(svc, owned)) :
                        \E r \in ToSet(svc.routers) : r.service = InternalAPI /\ h \in r.hosts
<1>1. CASE owned
  <2>1. PICK api : api = Picked(svc.routers, {i \in DOMAIN svc.routers : svc.routers[i].service = InternalAPI})
        OBVIOUS
  <2>2. IsList(api) /\ \A r \in ToSet(api) : r \in ToSet(svc.routers) /\ r.service = InternalAPI
    <3>1. IsList(svc.routers)
          BY DEF SoundRoutes
    <3>2. \A i \in DOMAIN svc.routers : svc.routers[i] \in ToSet(svc.routers)
          BY <3>1, Lists1
    <3> QED BY <2>1, <3>1, <3>2, PickedMembers
  <2>3. \A r \in ToSet(api) : IsFiniteSet(r.hosts)
        BY <2>2 DEF SoundRoutes
  <2>4. /\ IsList(RouterHosts(api))
        /\ \A h \in ToSet(RouterHosts(api)) : \E r \in ToSet(api) : h \in r.hosts
        BY <2>2, <2>3, RouterHostsAreLists
  <2>5. /\ IsList(FirstOnce(RouterHosts(api)))
        /\ ToSet(FirstOnce(RouterHosts(api))) \subseteq ToSet(RouterHosts(api))
        BY <2>4, FirstOnceIsAList
  <2>6. ApiHostnames(svc, owned) = FirstOnce(RouterHosts(api))
        BY <1>1, <2>1 DEF ApiHostnames
  <2> QED BY <2>2, <2>4, <2>5, <2>6
<1>2. CASE ~owned
      BY <1>2, AllHostnamesIsAList DEF ApiHostnames
<1> QED BY <1>1, <1>2

\* A router of a service that publishes the API is one its labels name so.
LEMMA ApiRouterIsPublished ==
    ASSUME NEW svc, SoundRoutes(svc), NEW r \in ToSet(svc.routers), r.service = InternalAPI
    PROVE  /\ ApiRouters(svc.labels) # {}
           /\ \A h \in r.hosts : Publishes(svc, h)
<1>1. PICK name \in NamedAt(svc.labels, "routers") : r = TraefikRoute(svc.labels, name)
      BY DEF SoundRoutes
<1>2. r.service = At(svc.labels, <<"routers", name, "service">>)
      BY <1>1 DEF TraefikRoute
<1>3. name \in ApiRouters(svc.labels)
      BY <1>2 DEF ApiRouters, InternalAPI
<1>4. ASSUME NEW h \in r.hosts PROVE h \in At(svc.labels, <<"routers", name, "rule">>)
  <2>1. r.hosts = IF <<"routers", name, "rule">> \in DOMAIN svc.labels
                    THEN svc.labels[<<"routers", name, "rule">>] ELSE {}
        BY <1>1 DEF TraefikRoute
  <2>2. <<"routers", name, "rule">> \in DOMAIN svc.labels
        BY <2>1
  <2> QED BY <2>1, <2>2 DEF At
<1> QED BY <1>3, <1>4 DEF Publishes

\* What is offered a credential among the candidates is proven by its own labels.
LEMMA ProxyCandidatesFit ==
    ASSUME NEW f, SoundFleet(f), NEW origins
    PROVE  /\ IsList(ProxyCandidates(f, origins))
           /\ \A c \in ToSet(ProxyCandidates(f, origins)) : c.owned => Proven(f, c.host)
<1>1. PICK n \in Nat : n = Len(f.services) /\ Keys(f) = 1..n
      BY Lists1 DEF SoundFleet, Keys
<1>2. PICK all : all = [k \in Keys(f) |-> k]
      OBVIOUS
<1>3. IsList(all) /\ DOMAIN all = Keys(f) /\ \A k \in Keys(f) : all[k] = k
  <2>1. DOMAIN all = 1..n /\ all = [i \in 1..n |-> all[i]]
        BY <1>1, <1>2
  <2> QED BY <1>2, <2>1, MadeIsList
<1>4. PICK asks : asks = Picked(all, {k \in Keys(f) : Signals(Service(f, k), k, origins)})
      OBVIOUS
<1>5. IsList(asks) /\ \A x \in ToSet(asks) : x \in Keys(f)
      BY <1>3, <1>4, PickedMembers
<1>6. PICK m \in Nat : DOMAIN asks = 1..m /\ \A i \in 1..m : asks[i] \in Keys(f) /\ SoundRoutes(Service(f, asks[i]))
  <2>1. \A k \in Keys(f) : SoundRoutes(Service(f, k))
        BY DEF SoundFleet
  <2> QED BY <1>5, <2>1, Lists1
<1> DEFINE svc(i) == Service(f, asks[i])
           owned(i) == DeclaresInternalAPI(svc(i))
           inner(i) == Internal(asks[i], svc(i), "8080", owned(i))
           outer(i) == Public(asks[i], ApiHostnames(svc(i), owned(i)), owned(i))
<1>7. ASSUME NEW i \in 1..m
      PROVE  /\ IsList(inner(i)) /\ IsList(outer(i))
             /\ \A c \in ToSet(inner(i)) \cup ToSet(outer(i)) : c.owned => Proven(f, c.host)
  <2>1. PICK s : s = svc(i)
        OBVIOUS
  <2>2. asks[i] \in Keys(f) /\ SoundRoutes(s) /\ s = Service(f, asks[i])
        BY <1>6, <2>1
  <2>3. PICK o : o = owned(i)
        OBVIOUS
  <2>4. o <=> DeclaresInternalAPI(s)
        BY <2>1, <2>3
  <2>5. IsList(inner(i)) /\ \A c \in ToSet(inner(i)) : c.owned = o /\ c.host \in {s.name, s.container}
    <3>1. inner(i) = Internal(asks[i], s, "8080", o)
          BY <2>1, <2>3
    <3> QED BY <3>1, <2>2, InternalFits
  <2>6. IsList(ApiHostnames(s, o))
        BY <2>2, ApiHostnamesFit
  <2>7. IsList(outer(i)) /\ \A c \in ToSet(outer(i)) : c.owned = o /\ c.host \in ToSet(ApiHostnames(s, o))
    <3>1. outer(i) = Public(asks[i], ApiHostnames(s, o), o)
          BY <2>1, <2>3
    <3> QED BY <3>1, <2>6, PublicFits
  <2>8. ASSUME o, NEW h, h \in {s.name, s.container} \/ h \in ToSet(ApiHostnames(s, o))
        PROVE  Proven(f, h)
    <3>1. PICK r \in ToSet(s.routers) : r.service = InternalAPI
          BY <2>4, <2>8 DEF DeclaresInternalAPI
    <3>2. ApiRouters(s.labels) # {}
          BY <3>1, <2>2, ApiRouterIsPublished
    <3>3. CASE h \in {s.name, s.container}
      <4>1. Publishes(s, h)
            BY <3>2, <3>3 DEF Publishes
      <4> QED BY <4>1, <2>2 DEF Proven
    <3>4. CASE h \in ToSet(ApiHostnames(s, o))
      <4>1. PICK q \in ToSet(s.routers) : q.service = InternalAPI /\ h \in q.hosts
            BY <3>4, <2>2, <2>8, ApiHostnamesFit
      <4>2. Publishes(s, h)
            BY <4>1, <2>2, ApiRouterIsPublished
      <4> QED BY <4>2, <2>2 DEF Proven
    <3> QED BY <2>8, <3>3, <3>4
  <2>9. \A c \in ToSet(inner(i)) : c.owned => Proven(f, c.host)
    <3> HIDE DEF inner
    <3> QED BY <2>5, <2>8
  <2>10. \A c \in ToSet(outer(i)) : c.owned => Proven(f, c.host)
    <3> HIDE DEF outer
    <3> QED BY <2>7, <2>8
  <2> HIDE DEF inner, outer
  <2> QED BY <2>5, <2>7, <2>9, <2>10
<1>8. PICK inside : inside = [i \in 1..m |-> inner(i)]
      OBVIOUS
<1>9. PICK outside : outside = [i \in 1..m |-> outer(i)]
      OBVIOUS
<1>10. ProxyCandidates(f, origins) = FlattenSeq(inside) \o FlattenSeq(outside)
       BY <1>2, <1>4, <1>6, <1>8, <1>9 DEF ProxyCandidates
<1>11. IsList(FlattenSeq(inside)) /\ \A c \in ToSet(FlattenSeq(inside)) : c.owned => Proven(f, c.host)
  <2> HIDE DEF inner, outer
  <2>1. DOMAIN inside = 1..m /\ inside = [i \in 1..m |-> inside[i]] /\ \A i \in 1..m : inside[i] = inner(i)
        BY <1>8
  <2>2. \A i \in 1..m : IsList(inside[i])
        BY <1>7, <2>1
  <2>3. /\ IsList(FlattenSeq(inside))
        /\ \A x : x \in ToSet(FlattenSeq(inside)) <=> \E i \in 1..m : x \in ToSet(inside[i])
        BY <2>1, <2>2, FlattenLists
  <2> QED BY <1>7, <2>1, <2>3
<1>12. IsList(FlattenSeq(outside)) /\ \A c \in ToSet(FlattenSeq(outside)) : c.owned => Proven(f, c.host)
  <2> HIDE DEF inner, outer
  <2>1. DOMAIN outside = 1..m /\ outside = [i \in 1..m |-> outside[i]] /\ \A i \in 1..m : outside[i] = outer(i)
        BY <1>9
  <2>2. \A i \in 1..m : IsList(outside[i])
        BY <1>7, <2>1
  <2>3. /\ IsList(FlattenSeq(outside))
        /\ \A x : x \in ToSet(FlattenSeq(outside)) <=> \E i \in 1..m : x \in ToSet(outside[i])
        BY <2>1, <2>2, FlattenLists
  <2> QED BY <1>7, <2>1, <2>3
<1> QED BY <1>10, <1>11, <1>12, JoinLists

LEMMA IdentityCandidatesAreAList ==
    ASSUME NEW f, SoundFleet(f), NEW registry
    PROVE  IsList(IdentityCandidates(f, registry))
<1>1. PICK n \in Nat : n = Len(f.services) /\ Keys(f) = 1..n
      BY Lists1 DEF SoundFleet, Keys
<1>2. PICK all : all = [k \in Keys(f) |-> k]
      OBVIOUS
<1>3. IsList(all) /\ DOMAIN all = Keys(f) /\ \A k \in Keys(f) : all[k] = k
  <2>1. DOMAIN all = 1..n /\ all = [i \in 1..n |-> all[i]]
        BY <1>1, <1>2
  <2> QED BY <1>2, <2>1, MadeIsList
<1>4. PICK asks : asks = Picked(all, AuthentikServices(f, registry))
      OBVIOUS
<1>5. IsList(asks) /\ \A x \in ToSet(asks) : x \in Keys(f)
      BY <1>3, <1>4, PickedMembers
<1>6. PICK m \in Nat : DOMAIN asks = 1..m /\ \A i \in 1..m : SoundRoutes(Service(f, asks[i]))
  <2>1. \A k \in Keys(f) : SoundRoutes(Service(f, k))
        BY DEF SoundFleet
  <2> QED BY <1>5, <2>1, Lists1
<1>7. PICK inside : inside = [i \in 1..m |-> Internal(asks[i], Service(f, asks[i]), "9000", FALSE)]
      OBVIOUS
<1>8. PICK outside : outside = [i \in 1..m |-> Public(asks[i], AllHostnames(Service(f, asks[i])), FALSE)]
      OBVIOUS
<1>9. IdentityCandidates(f, registry) = FlattenSeq(inside) \o FlattenSeq(outside)
      BY <1>2, <1>4, <1>6, <1>7, <1>8 DEF IdentityCandidates
<1>10. IsList(FlattenSeq(inside))
  <2>1. DOMAIN inside = 1..m /\ inside = [i \in 1..m |-> inside[i]]
        BY <1>7
  <2>2. \A i \in 1..m : IsList(inside[i])
        BY <1>6, <1>7, InternalFits
  <2> QED BY <2>1, <2>2, FlattenLists
<1>11. IsList(FlattenSeq(outside))
  <2>1. DOMAIN outside = 1..m /\ outside = [i \in 1..m |-> outside[i]]
        BY <1>8
  <2>2. ASSUME NEW i \in 1..m PROVE IsList(outside[i])
    <3>1. PICK hosts : hosts = AllHostnames(Service(f, asks[i]))
          OBVIOUS
    <3>2. IsList(hosts)
          BY <3>1, <1>6, AllHostnamesIsAList
    <3>3. outside[i] = Public(asks[i], hosts, FALSE)
          BY <1>8, <3>1
    <3>4. IsList(Public(asks[i], hosts, FALSE))
          BY <3>2, PublicFits
    <3> QED BY <3>3, <3>4
  <2> QED BY <2>1, <2>2, FlattenLists
<1> QED BY <1>9, <1>10, <1>11, JoinLists

-----------------------------------------------------------------------------
(* The fleet, as the stages leave it. *)

\* A service is what was scanned, with its routes once they are read; only its environment is masked.
SameService(svc, was) ==
    /\ ServiceParts \subseteq DOMAIN svc
    /\ svc.name = was.name /\ svc.container = was.container /\ svc.image = was.image
    /\ svc.labels = was.labels /\ svc.targets = was.targets /\ svc.ports = was.ports
    /\ svc.docker = was.docker /\ svc.networks = was.networks /\ svc.stack = was.stack
Routed(svc) == svc.routers = Traefik(svc.labels) /\ svc.tunnels = Cloudflare(svc.labels)
FleetFits(f, at) ==
    /\ {"stacks", "services"} \subseteq DOMAIN f
    /\ IsList(f.services) /\ Keys(f) = Keys(world.fleet)
    /\ \A k \in Keys(f) :
         /\ SameService(Service(f, k), Service(world.fleet, k))
         /\ at # "routes" => Routed(Service(f, k))
         /\ at # "done" => Service(f, k).env = Service(world.fleet, k).env

LEMMA SoundAfterRoutes ==
    ASSUME SoundWorld(world), NEW f, FleetFits(f, "read")
    PROVE  SoundFleet(f)
<1>1. ASSUME NEW k \in Keys(f) PROVE SoundRoutes(Service(f, k))
  <2>1. PICK was : was = Service(world.fleet, k)
        OBVIOUS
  <2>2. PICK svc : svc = Service(f, k)
        OBVIOUS
  <2>3. SoundService(was)
        BY <2>1 DEF FleetFits, SoundWorld
  <2>4. SameService(svc, was) /\ Routed(svc)
        BY <2>1, <2>2 DEF FleetFits
  <2>5. PICK lbls : lbls = svc.labels /\ lbls = was.labels
        BY <2>4 DEF SameService
  <2>6. IsFiniteSet(DOMAIN lbls) /\ IsList(svc.targets) /\ IsList(svc.docker.targets) /\ IsList(svc.env)
    <3>1. svc.env = was.env
          BY <2>1, <2>2 DEF FleetFits
    <3> QED BY <2>3, <2>4, <2>5, <3>1 DEF SoundService, SameService
  <2>7. IsList(Traefik(lbls)) /\ IsList(Cloudflare(lbls))
        BY <2>6, TraefikRoutes, CloudflareIsAList
  <2>8. ASSUME NEW r \in ToSet(Traefik(lbls))
        PROVE  /\ \E name \in NamedAt(lbls, "routers") : r = TraefikRoute(lbls, name)
               /\ IsFiniteSet(r.hosts)
               /\ IsList(r.middlewares) /\ ToSet(r.middlewares) \subseteq DOMAIN BareName
    <3>1. PICK name \in NamedAt(lbls, "routers") : r = TraefikRoute(lbls, name)
          BY <2>6, TraefikRoutes
    <3> QED BY <3>1, <2>3, <2>5 DEF SoundService
  <2>9. svc.routers = Traefik(lbls) /\ svc.tunnels = Cloudflare(lbls)
        BY <2>4, <2>5 DEF Routed
  <2>10. \A name \in NamedAt(lbls, "middlewares") :
            /\ IsList(ListAt(lbls, <<"middlewares", name, "chain">>))
            /\ ToSet(ListAt(lbls, <<"middlewares", name, "chain">>)) \subseteq DOMAIN BareName
        BY <2>3, <2>5 DEF SoundService
  <2> QED BY <2>2, <2>5, <2>6, <2>7, <2>8, <2>9, <2>10 DEF SoundRoutes
<1> QED BY <1>1 DEF SoundFleet, FleetFits

LEMMA RoutesKeeps ==
    ASSUME SoundWorld(world), FleetFits(fleet, "routes"), Routes
    PROVE  FleetFits(fleet', "read")
<1>1. PICK old : old = fleet
      OBVIOUS
<1>2. PICK new : new = fleet'
      OBVIOUS
<1>3. PICK n \in Nat : DOMAIN old.services = 1..n /\ Keys(old) = 1..n
      BY <1>1, Lists1 DEF FleetFits, Keys
<1>4. PICK services : services = [k \in 1..n |->
            [old.services[k] EXCEPT !.tunnels = Cloudflare(old.services[k].labels),
                                    !.routers = Traefik(old.services[k].labels)]]
      OBVIOUS
<1>5. new = [old EXCEPT !.services = services]
      BY <1>1, <1>2, <1>3, <1>4 DEF Routes
<1>6. new.services = services /\ {"stacks", "services"} \subseteq DOMAIN new
      BY <1>1, <1>5 DEF FleetFits
<1>7. services = [i \in 1..n |-> services[i]] /\ DOMAIN services = 1..n
      BY <1>4
<1>8. IsList(new.services) /\ Keys(new) = Keys(old)
      BY <1>3, <1>6, <1>7, MadeIsList DEF Keys
<1>9. ASSUME NEW k \in Keys(new)
      PROVE  /\ SameService(Service(new, k), Service(world.fleet, k))
             /\ Routed(Service(new, k))
             /\ Service(new, k).env = Service(world.fleet, k).env
  <2>1. PICK svc : svc = Service(old, k)
        OBVIOUS
  <2>2. PICK now : now = Service(new, k)
        OBVIOUS
  <2>3. PICK was : was = Service(world.fleet, k)
        OBVIOUS
  <2>4. SameService(svc, was) /\ svc.env = was.env
        BY <1>1, <1>8, <2>1, <2>3 DEF FleetFits
  <2>5. k \in 1..n /\ svc = old.services[k]
        BY <1>3, <1>8, <2>1 DEF Service
  <2>6. now = services[k]
        BY <1>6, <2>2 DEF Service
  <2>7. PICK ts : ts = Cloudflare(svc.labels)
        OBVIOUS
  <2>8. PICK rs : rs = Traefik(svc.labels)
        OBVIOUS
  <2>9. now = [svc EXCEPT !.tunnels = ts, !.routers = rs]
        BY <1>4, <2>5, <2>6, <2>7, <2>8
  <2>10. ServiceParts \subseteq DOMAIN svc
        BY <2>4 DEF SameService
  <2>11. now.routers = rs /\ now.tunnels = ts
        BY <2>9, <2>10 DEF ServiceParts
  <2>12. DOMAIN now = DOMAIN svc
        BY <2>9
  <2>13. /\ now.name = svc.name /\ now.container = svc.container /\ now.image = svc.image
         /\ now.labels = svc.labels /\ now.targets = svc.targets /\ now.ports = svc.ports
         /\ now.docker = svc.docker /\ now.networks = svc.networks /\ now.stack = svc.stack
         /\ now.env = svc.env
        BY <2>9, <2>10 DEF ServiceParts
  <2>14. SameService(now, was)
        BY <2>4, <2>10, <2>12, <2>13 DEF SameService
  <2>15. Routed(now)
        BY <2>7, <2>8, <2>11, <2>13 DEF Routed
  <2> QED BY <2>2, <2>3, <2>4, <2>13, <2>14, <2>15
<1>10. Keys(old) = Keys(world.fleet)
       BY <1>1 DEF FleetFits
<1>11. FleetFits(new, "read")
       BY <1>6, <1>8, <1>9, <1>10 DEF FleetFits
<1> QED BY <1>2, <1>11

LEMMA PublishKeeps ==
    ASSUME SoundWorld(world), FleetFits(fleet, "publish"), Publish
    PROVE  /\ FleetFits(fleet', "done")
           /\ fleet'.stacks = fleet.stacks /\ Keys(fleet') = Keys(fleet)
           /\ \A k \in Keys(fleet) :
                /\ Service(fleet', k).tunnels = Service(fleet, k).tunnels
                /\ Service(fleet', k).routers = Service(fleet, k).routers
<1>1. PICK old : old = fleet
      OBVIOUS
<1>2. PICK new : new = fleet'
      OBVIOUS
<1>3. PICK n \in Nat : DOMAIN old.services = 1..n /\ Keys(old) = 1..n
      BY <1>1, Lists1 DEF FleetFits, Keys
<1>4. PICK masked : masked = [k \in 1..n |-> [i \in DOMAIN old.services[k].env |-> Masked(old.services[k].env[i])]]
      OBVIOUS
<1>5. PICK services : services = [k \in 1..n |-> [old.services[k] EXCEPT !.env = masked[k]]]
      OBVIOUS
<1>6. new = [old EXCEPT !.services = services]
  <2>1. PICK made : made = [k \in DOMAIN old.services |->
            [old.services[k] EXCEPT !.env = [i \in DOMAIN old.services[k].env |-> Masked(old.services[k].env[i])]]]
        OBVIOUS
  <2>2. new = [old EXCEPT !.services = made]
        BY <1>1, <1>2, <2>1 DEF Publish
  <2>3. \A k \in 1..n : masked[k] = [i \in DOMAIN old.services[k].env |-> Masked(old.services[k].env[i])]
        BY <1>4
  <2>4. \A k \in 1..n : made[k] = services[k]
        BY <1>3, <1>5, <2>1, <2>3
  <2>5. made = [k \in 1..n |-> made[k]] /\ services = [k \in 1..n |-> services[k]]
        BY <1>3, <1>5, <2>1
  <2>6. made = services
        BY <2>4, <2>5
  <2> QED BY <2>2, <2>6
<1>7. new.services = services /\ {"stacks", "services"} \subseteq DOMAIN new /\ new.stacks = old.stacks
      BY <1>1, <1>6 DEF FleetFits
<1>8. services = [i \in 1..n |-> services[i]] /\ DOMAIN services = 1..n
      BY <1>5
<1>9. IsList(new.services) /\ Keys(new) = Keys(old)
      BY <1>3, <1>7, <1>8, MadeIsList DEF Keys
<1>10. ASSUME NEW k \in Keys(new)
       PROVE  /\ SameService(Service(new, k), Service(world.fleet, k))
              /\ Routed(Service(new, k))
              /\ Service(new, k).tunnels = Service(old, k).tunnels
              /\ Service(new, k).routers = Service(old, k).routers
  <2>1. PICK svc : svc = Service(old, k)
        OBVIOUS
  <2>2. PICK now : now = Service(new, k)
        OBVIOUS
  <2>3. PICK was : was = Service(world.fleet, k)
        OBVIOUS
  <2>4. SameService(svc, was) /\ Routed(svc)
        BY <1>1, <1>9, <2>1, <2>3 DEF FleetFits
  <2>5. k \in 1..n /\ svc = old.services[k]
        BY <1>3, <1>9, <2>1 DEF Service
  <2>6. now = services[k]
        BY <1>7, <2>2 DEF Service
  <2>7. PICK env : env = masked[k]
        OBVIOUS
  <2>8. now = [svc EXCEPT !.env = env]
        BY <1>5, <2>5, <2>6, <2>7
  <2>9. ServiceParts \subseteq DOMAIN svc
        BY <2>4 DEF SameService
  <2>10. DOMAIN now = DOMAIN svc
        BY <2>8
  <2>11. /\ now.name = svc.name /\ now.container = svc.container /\ now.image = svc.image
         /\ now.labels = svc.labels /\ now.targets = svc.targets /\ now.ports = svc.ports
         /\ now.docker = svc.docker /\ now.networks = svc.networks /\ now.stack = svc.stack
         /\ now.tunnels = svc.tunnels /\ now.routers = svc.routers
        BY <2>8, <2>9 DEF ServiceParts
  <2>12. SameService(now, was)
        BY <2>4, <2>9, <2>10, <2>11 DEF SameService
  <2>13. Routed(now)
        BY <2>4, <2>11 DEF Routed
  <2> QED BY <2>1, <2>2, <2>3, <2>11, <2>12, <2>13
<1>11. Keys(old) = Keys(world.fleet)
       BY <1>1 DEF FleetFits
<1>12. FleetFits(new, "done")
       BY <1>7, <1>9, <1>10, <1>11 DEF FleetFits
<1> QED BY <1>1, <1>2, <1>7, <1>9, <1>10, <1>12

-----------------------------------------------------------------------------
(* Where credentials go. *)

\* What the invariant says of each reader: whom it may ask, whom it is at, and what it holds.
ProxyParts == {"pc", "at", "asks", "attempts", "phase", "key", "credential", "snapshot"}
ProxyPlaces == {"version", "retry", "raw", "entrypoints", "over"}
Owned(c, w) == c.owned => Proven(w.fleet, c.host)
ProxyFits(p, w) ==
    /\ ProxyParts \subseteq DOMAIN p
    /\ p.pc \in {"idle"} \cup ProxyPlaces
    /\ p.phase \in ConnectionPhases
    /\ IsList(p.asks) /\ p.at \in 0..Len(p.asks)
    /\ p.pc = "idle" => p.at = 0
    /\ p.pc \notin {"idle", "over"} /\ p.at = 0 => p.asks[1].host = w.proxy.url
    /\ p.at # 0 => \A i \in DOMAIN p.asks : Owned(p.asks[i], w)
    /\ p.pc \in {"idle", "version", "retry"} => p.credential = "none"
    /\ p.pc = "retry" \/ p.credential = "basic" => p.at = 0 \/ p.asks[p.at].owned

IdentityParts == {"pc", "at", "asks", "attempts", "phase", "page", "total", "applications", "proxy",
                  "oauth2", "outposts", "assembled", "recovered"}
Listing == {"applications", "proxy", "oauth2", "outposts"}
IdentityFits(i, w, hosts) ==
    /\ IdentityParts \subseteq DOMAIN i
    /\ i.pc \in {"idle", "probe", "over"} \cup Listing
    /\ i.phase \in ConnectionPhases
    /\ IsList(i.asks) /\ i.at \in 0..Len(i.asks)
    /\ i.pc = "idle" => i.at = 0
    /\ i.pc \in Listing /\ i.at = 0 => i.asks[1].host = w.identity.url
    /\ i.pc = "probe" => i.at # 0
    /\ i.pc \in Listing => i.at = 0 \/ i.asks[i.at].host \in hosts
    /\ i.page \in 1..MaxPages

SentFits(s, w, hosts) ==
    \/ s.configured /\ s.host = (IF s.reader = "proxy" THEN w.proxy.url ELSE w.identity.url)
    \/ s.reader = "identity" /\ s.host \in hosts
    \/ s.reader = "proxy" /\ Proven(w.fleet, s.host)

IInv ==
    /\ world \in Worlds
    /\ stage \in {"routes", "read", "publish", "done"}
    /\ edited \in BOOLEAN
    /\ FleetFits(fleet, stage)
    /\ ProxyFits(proxy, world)
    /\ IdentityFits(identity, world, vouched)
    /\ \A s \in sent : SentFits(s, world, vouched)

\* A read that worked is one that brought a body of JSON, and every phase it can end in is named.
LEMMA PhasesOfReads ==
    ASSUME NEW o \in Outcomes
    PROVE  /\ Fetched(o) \in ConnectionPhases /\ o.phase \in ConnectionPhases
           /\ Fetched(o) = "connected" => Ok(o) /\ o.json
           /\ Fetched(o) # "connected" => ~OK(Fetched(o))
           /\ ~o.failed /\ o.status \in {401, 403, 407} => ~OK(o.phase)
<1>1. ASSUME NEW s \in Statuses
      PROVE  /\ FromStatus(s) \in {"connected", "authenticate", "authorize", "path", "status"}
             /\ s \in {401, 403, 407} => FromStatus(s) # "connected"
  <2>1. PICK a : a = <<s \in 200..299, "connected">>
        OBVIOUS
  <2>2. PICK b : b = <<s \in {401, 407}, "authenticate">>
        OBVIOUS
  <2>3. PICK c : c = <<s = 403, "authorize">>
        OBVIOUS
  <2>4. PICK d : d = <<s \in {404, 405}, "path">>
        OBVIOUS
  <2>5. PICK e : e = <<TRUE, "status">>
        OBVIOUS
  <2>6. FromStatus(s) = FirstHolding(<<a, b, c, d, e>>)
        BY <2>1, <2>2, <2>3, <2>4, <2>5 DEF FromStatus
  <2>7. FirstHolding(<<a, b, c, d, e>>) = IF a[1] THEN a[2] ELSE IF b[1] THEN b[2] ELSE IF c[1] THEN c[2] ELSE
                                           IF d[1] THEN d[2] ELSE e[2]
        BY <2>5, FirstOf5
  <2>8. FromStatus(s) \in {a[2], b[2], c[2], d[2], e[2]}
        BY <2>6, <2>7
  <2>9. FromStatus(s) \in {"connected", "authenticate", "authorize", "path", "status"}
        BY <2>1, <2>2, <2>3, <2>4, <2>5, <2>8
  <2>10. ASSUME s \in {401, 403, 407} PROVE FromStatus(s) # "connected"
    <3>1. s \notin 200..299
          BY <2>10
    <3>2. ~a[1]
          BY <2>1, <3>1
    <3>3. FromStatus(s) \in {b[2], c[2], d[2], e[2]}
          BY <2>6, <2>7, <3>2
    <3> QED BY <2>2, <2>3, <2>4, <2>5, <3>3
  <2> QED BY <2>9, <2>10
<1>2. CASE o.failed
  <2>1. PICK p \in Errors : o = [failed |-> TRUE, status |-> 0, json |-> FALSE, phase |-> p]
        BY <1>2 DEF Outcomes
  <2>2. p \in NetworkPhases \cup {"authorize"}
        BY ReadersAssumption
  <2>3. ~Ok(o) /\ Fetched(o) = p /\ o.phase = p
        BY <2>1 DEF Ok, Fetched
  <2>4. p \in ConnectionPhases /\ p # "connected" /\ ~OK(p)
        BY <2>2 DEF NetworkPhases, ConnectionPhases, AnswerPhases, OK
  <2> QED BY <1>2, <2>3, <2>4
<1>3. CASE ~o.failed
  <2>1. PICK s \in Statuses, j \in BOOLEAN : o = [failed |-> FALSE, status |-> s, json |-> j, phase |-> FromStatus(s)]
        BY <1>3 DEF Outcomes
  <2>2. o.json = j /\ o.phase = FromStatus(s) /\ o.status = s
        BY <2>1
  <2>3. Body(o) = (IF j THEN "connected" ELSE "protocol")
    <3>1. CASE j
          BY <2>2, <3>1 DEF Body, ReadJSON
    <3>2. CASE ~j
          BY <2>2, <3>2 DEF Body, ReadJSON
    <3> QED BY <3>1, <3>2
  <2>4. Fetched(o) = IF Ok(o) THEN (IF j THEN "connected" ELSE "protocol") ELSE FromStatus(s)
        BY <2>2, <2>3 DEF Fetched
  <2>5. Ok(o) <=> FromStatus(s) = "connected"
        BY <1>3, <2>2 DEF Ok
  <2>6. PICK phase \in {"connected", "authenticate", "authorize", "path", "status"} : phase = FromStatus(s)
        BY <1>1
  <2>7. Fetched(o) = IF phase = "connected" THEN (IF j THEN "connected" ELSE "protocol") ELSE phase
        BY <2>4, <2>5, <2>6
  <2>8. s \in {401, 403, 407} => phase # "connected"
        BY <1>1, <2>6
  <2>9. phase \in ConnectionPhases /\ "protocol" \in ConnectionPhases /\ ~OK("protocol") /\ (phase # "connected" => ~OK(phase))
        BY <2>6 DEF ConnectionPhases, AnswerPhases, OK
  <2>10. o.phase = phase /\ (Fetched(o) = "connected" => Ok(o) /\ o.json)
        BY <2>2, <2>5, <2>6, <2>7
  <2>11. Fetched(o) \in ConnectionPhases /\ (Fetched(o) # "connected" => ~OK(Fetched(o)))
        BY <2>6, <2>7, <2>9
  <2> QED BY <2>2, <2>8, <2>9, <2>10, <2>11
<1> QED BY <1>2, <1>3

LEMMA BeginsAlike ==
    ASSUME NEW reader, NEW url, NEW enabled, NEW candidates, NEW first, NEW configured
    PROVE  Begin(reader, url, enabled, candidates, first, configured) =
             IF ~enabled THEN [reader EXCEPT !.pc = "over", !.phase = "disabled"]
             ELSE IF url # "" THEN [reader EXCEPT !.pc = configured, !.asks = <<[host |-> url, owned |-> TRUE]>>]
             ELSE IF candidates = <<>> THEN [reader EXCEPT !.pc = "over", !.phase = "not-configured"]
             ELSE [reader EXCEPT !.pc = first, !.at = 1, !.asks = Cut(candidates, MaxCandidates)]
<1>1. PICK r1 : r1 = [reader EXCEPT !.pc = "over", !.phase = "disabled"]
      OBVIOUS
<1>2. PICK r2 : r2 = [reader EXCEPT !.pc = configured, !.asks = <<[host |-> url, owned |-> TRUE]>>]
      OBVIOUS
<1>3. PICK r3 : r3 = [reader EXCEPT !.pc = "over", !.phase = "not-configured"]
      OBVIOUS
<1>4. PICK r4 : r4 = [reader EXCEPT !.pc = first, !.at = 1, !.asks = Cut(candidates, MaxCandidates)]
      OBVIOUS
<1>5. PICK a : a = <<~enabled, r1>>
      OBVIOUS
<1>6. PICK b : b = <<url # "", r2>>
      OBVIOUS
<1>7. PICK c : c = <<candidates = <<>>, r3>>
      OBVIOUS
<1>8. PICK d : d = <<TRUE, r4>>
      OBVIOUS
<1>9. Begin(reader, url, enabled, candidates, first, configured) = FirstHolding(<<a, b, c, d>>)
      BY <1>1, <1>2, <1>3, <1>4, <1>5, <1>6, <1>7, <1>8 DEF Begin
<1>10. FirstHolding(<<a, b, c, d>>) = IF a[1] THEN a[2] ELSE IF b[1] THEN b[2] ELSE IF c[1] THEN c[2] ELSE d[2]
       BY <1>8, FirstOf4
<1>11. (a[1] <=> ~enabled) /\ (b[1] <=> url # "") /\ (c[1] <=> candidates = <<>>)
       BY <1>5, <1>6, <1>7
<1>12. a[2] = r1 /\ b[2] = r2 /\ c[2] = r3 /\ d[2] = r4
       BY <1>5, <1>6, <1>7, <1>8
<1>13. Begin(reader, url, enabled, candidates, first, configured) =
         IF ~enabled THEN r1 ELSE IF url # "" THEN r2 ELSE IF candidates = <<>> THEN r3 ELSE r4
       BY <1>9, <1>10, <1>11, <1>12
<1> QED BY <1>13, <1>1, <1>2, <1>3, <1>4

LEMMA ProxyMoves ==
    ASSUME NEW p, NEW q, NEW w, ProxyFits(p, w), p.pc \notin {"idle", "over"},
           DOMAIN q = DOMAIN p, q.asks = p.asks, q.at = p.at,
           q.pc \in ProxyPlaces, q.phase \in ConnectionPhases,
           q.pc \in {"version", "retry"} => q.credential = "none",
           q.pc = "retry" \/ q.credential = "basic" => p.at = 0 \/ p.asks[p.at].owned
    PROVE  ProxyFits(q, w)
<1>1. q.pc # "idle" /\ (q.pc \notin {"idle", "over"} /\ q.at = 0 => q.asks[1].host = w.proxy.url)
      BY DEF ProxyFits, ProxyPlaces
<1> QED BY <1>1 DEF ProxyFits, ProxyPlaces

LEMMA ProxyRejected ==
    ASSUME NEW p, NEW w, ProxyFits(p, w), p.pc \in {"version", "retry"}, NEW phase \in ConnectionPhases
    PROVE  ProxyFits(Rejected(p, phase, "version"), w)
<1>1. PICK q : q = Rejected(p, phase, "version")
      OBVIOUS
<1>2. ProxyParts \subseteq DOMAIN p /\ p.credential = "none"
      BY DEF ProxyFits
<1>3. CASE p.at = 0 \/ p.at = Len(p.asks)
  <2>1. PICK attempts : attempts = IF p.at = 0 THEN p.attempts ELSE Append(p.attempts, phase)
        OBVIOUS
  <2>2. q = [p EXCEPT !.pc = "over", !.phase = phase, !.attempts = attempts]
        BY <1>1, <1>3, <2>1 DEF Rejected
  <2>3. DOMAIN q = DOMAIN p /\ q.asks = p.asks /\ q.at = p.at /\ q.pc = "over" /\ q.phase = phase /\ q.credential = "none"
        BY <1>2, <2>2 DEF ProxyParts
  <2>4. ProxyFits(q, w)
        BY <2>3, ProxyMoves DEF ProxyPlaces
  <2> QED BY <1>1, <2>4
<1>4. CASE ~(p.at = 0 \/ p.at = Len(p.asks))
  <2>1. PICK attempts : attempts = Append(p.attempts, phase)
        OBVIOUS
  <2>2. PICK n \in Nat : n = Len(p.asks)
        BY Lists1 DEF ProxyFits
  <2>3. p.at \in 1..n /\ p.at + 1 \in 1..n
        BY <1>4, <2>2 DEF ProxyFits
  <2>4. q = [p EXCEPT !.pc = "version", !.at = p.at + 1, !.attempts = attempts]
        BY <1>1, <1>4, <2>1 DEF Rejected
  <2>5. /\ DOMAIN q = DOMAIN p /\ q.asks = p.asks /\ q.at = p.at + 1 /\ q.pc = "version" /\ q.phase = p.phase
        /\ q.credential = "none"
        BY <1>2, <2>4 DEF ProxyParts
  <2>6. IsList(p.asks) /\ p.phase \in ConnectionPhases /\ \A i \in DOMAIN p.asks : Owned(p.asks[i], w)
        BY <2>3 DEF ProxyFits
  <2>7. q.at # 0 /\ q.at \in 0..n
        BY <2>3, <2>5
  <2>8. ProxyFits(q, w)
        BY <1>2, <2>2, <2>5, <2>6, <2>7 DEF ProxyFits, ProxyPlaces
  <2> QED BY <1>1, <2>8
<1> QED BY <1>3, <1>4

\* What the labels of a fleet prove, they prove whatever stage it is in.
LEMMA ProvenAnywhere ==
    ASSUME NEW f, NEW at, FleetFits(f, at), NEW host
    PROVE  Proven(f, host) <=> Proven(world.fleet, host)
<1>1. Keys(f) = Keys(world.fleet)
      BY DEF FleetFits
<1>2. ASSUME NEW k \in Keys(f) PROVE Publishes(Service(f, k), host) <=> Publishes(Service(world.fleet, k), host)
  <2>1. SameService(Service(f, k), Service(world.fleet, k))
        BY DEF FleetFits
  <2>2. /\ Service(f, k).labels = Service(world.fleet, k).labels
        /\ Service(f, k).name = Service(world.fleet, k).name
        /\ Service(f, k).container = Service(world.fleet, k).container
        BY <2>1 DEF SameService
  <2> QED BY <2>2 DEF Publishes
<1> QED BY <1>1, <1>2 DEF Proven

LEMMA ProxyStartKeeps ==
    ASSUME SoundWorld(world), FleetFits(fleet, "read"), ProxyFits(proxy, world), ProxyStart
    PROVE  ProxyFits(proxy', world)
<1>1. PICK p : p = proxy
      OBVIOUS
<1>2. PICK q : q = proxy'
      OBVIOUS
<1>3. PICK candidates : candidates = ProxyCandidates(fleet, world.origins)
      OBVIOUS
<1>4. SoundFleet(fleet)
      BY SoundAfterRoutes
<1>5. IsList(candidates) /\ \A c \in ToSet(candidates) : Owned(c, world)
  <2>1. IsList(candidates) /\ \A c \in ToSet(candidates) : c.owned => Proven(fleet, c.host)
        BY <1>3, <1>4, ProxyCandidatesFit
  <2>2. \A h : Proven(fleet, h) <=> Proven(world.fleet, h)
        BY ProvenAnywhere
  <2> QED BY <2>1, <2>2 DEF Owned
<1>6. /\ ProxyParts \subseteq DOMAIN p /\ p.pc = "idle" /\ p.credential = "none" /\ p.phase \in ConnectionPhases
      /\ IsList(p.asks) /\ p.at \in 0..Len(p.asks)
      /\ p.at # 0 => \A i \in DOMAIN p.asks : Owned(p.asks[i], world)
      BY <1>1 DEF ProxyFits, ProxyStart, Reading
<1>7. p.at = 0
      BY <1>1, <1>6 DEF ProxyFits
<1>8. PICK url : url = world.proxy.url
      OBVIOUS
<1>9. q = IF ~world.proxy.enabled THEN [p EXCEPT !.pc = "over", !.phase = "disabled"]
             ELSE IF url # "" THEN [p EXCEPT !.pc = "version", !.asks = <<[host |-> url, owned |-> TRUE]>>]
             ELSE IF candidates = <<>> THEN [p EXCEPT !.pc = "over", !.phase = "not-configured"]
             ELSE [p EXCEPT !.pc = "version", !.at = 1, !.asks = Cut(candidates, MaxCandidates)]
      BY <1>1, <1>2, <1>3, <1>8, BeginsAlike DEF ProxyStart
<1>10. CASE \E phase \in {"disabled", "not-configured"} : q = [p EXCEPT !.pc = "over", !.phase = phase]
  <2>1. PICK phase \in {"disabled", "not-configured"} : q = [p EXCEPT !.pc = "over", !.phase = phase]
        BY <1>10
  <2>2. DOMAIN q = DOMAIN p /\ q.asks = p.asks /\ q.at = p.at /\ q.pc = "over" /\ q.phase = phase /\ q.credential = "none"
        BY <1>6, <2>1 DEF ProxyParts
  <2>3. phase \in ConnectionPhases
        BY DEF ConnectionPhases, BeforeTheNetwork
  <2> QED BY <1>2, <1>6, <1>7, <2>2, <2>3 DEF ProxyFits, ProxyPlaces
<1>11. CASE q = [p EXCEPT !.pc = "version", !.asks = <<[host |-> url, owned |-> TRUE]>>]
  <2>1. PICK asks : asks = <<[host |-> url, owned |-> TRUE]>>
        OBVIOUS
  <2>2. asks \in Seq({asks[1]}) /\ Len(asks) = 1 /\ asks[1].host = url
        BY <2>1
  <2>3. IsList(asks)
        BY <2>2, SeqIsList
  <2>4. /\ DOMAIN q = DOMAIN p /\ q.asks = asks /\ q.at = 0 /\ q.pc = "version" /\ q.phase = p.phase
        /\ q.credential = "none"
        BY <1>6, <1>7, <1>11, <2>1 DEF ProxyParts
  <2> QED BY <1>2, <1>6, <1>8, <2>2, <2>3, <2>4 DEF ProxyFits, ProxyPlaces
<1>12. CASE candidates # <<>> /\ q = [p EXCEPT !.pc = "version", !.at = 1, !.asks = Cut(candidates, MaxCandidates)]
  <2>1. PICK asks : asks = Cut(candidates, MaxCandidates)
        OBVIOUS
  <2>2. IsList(asks) /\ ToSet(asks) \subseteq ToSet(candidates) /\ Len(asks) >= 1
        BY <1>5, <1>12, <2>1, CutIsAList DEF MaxCandidates
  <2>3. Len(asks) \in Nat /\ \A i \in DOMAIN asks : asks[i] \in ToSet(asks)
        BY <2>2, Lists1
  <2>4. \A i \in DOMAIN asks : Owned(asks[i], world)
        BY <1>5, <2>2, <2>3
  <2>5. /\ DOMAIN q = DOMAIN p /\ q.asks = asks /\ q.at = 1 /\ q.pc = "version" /\ q.phase = p.phase
        /\ q.credential = "none"
        BY <1>6, <1>12, <2>1 DEF ProxyParts
  <2>6. 1 \in 0..Len(asks)
    <3>1. PICK n \in Nat : n = Len(asks)
          BY <2>3
    <3> QED BY <2>2, <3>1
  <2> QED BY <1>2, <1>6, <2>2, <2>4, <2>5, <2>6 DEF ProxyFits, ProxyPlaces
<1> QED BY <1>9, <1>10, <1>11, <1>12

LEMMA OffersAreProven ==
    ASSUME NEW p, NEW w, ProxyFits(p, w), p.pc \notin {"idle", "over"}, p.at = 0 \/ p.asks[p.at].owned, NEW hosts
    PROVE  SentFits([reader |-> "proxy", host |-> Asked(p).host, configured |-> p.at = 0], w, hosts)
<1>1. CASE p.at = 0
  <2>1. Asked(p) = p.asks[1] /\ p.asks[1].host = w.proxy.url
        BY <1>1 DEF Asked, ProxyFits
  <2> QED BY <1>1, <2>1 DEF SentFits
<1>2. CASE p.at # 0
  <2>1. PICK n \in Nat : n = Len(p.asks) /\ DOMAIN p.asks = 1..n
        BY Lists1 DEF ProxyFits
  <2>2. p.at \in 1..n
        BY <1>2, <2>1 DEF ProxyFits
  <2>3. Asked(p) = p.asks[p.at] /\ p.asks[p.at].owned
        BY <1>2 DEF Asked
  <2>4. Owned(p.asks[p.at], w)
        BY <1>2, <2>1, <2>2 DEF ProxyFits
  <2>5. Proven(w.fleet, Asked(p).host)
        BY <2>3, <2>4 DEF Owned
  <2> QED BY <2>5 DEF SentFits
<1> QED BY <1>1, <1>2

LEMMA ProxyVersionKeeps ==
    ASSUME IInv, ProxyVersion
    PROVE  ProxyFits(proxy', world) /\ \A s \in sent' : SentFits(s, world, vouched)
<1>1. PICK p : p = proxy
      OBVIOUS
<1>2. PICK q : q = proxy'
      OBVIOUS
<1>3. /\ ProxyFits(p, world) /\ p.pc = "version" /\ ProxyParts \subseteq DOMAIN p /\ p.credential = "none"
      /\ p.phase \in ConnectionPhases /\ \A s \in sent : SentFits(s, world, vouched)
      BY <1>1 DEF IInv, ProxyVersion, Reading, ProxyFits
<1>4. PICK o \in Outcomes :
         IF ~o.failed /\ Challenged(o.status) /\ Offers
           THEN q = [p EXCEPT !.pc = "retry"] /\ Send("proxy", Target(proxy))
           ELSE /\ sent' = sent
                /\ q = IF Fetched(o) = "connected" THEN Selected(p)
                       ELSE IF ~o.failed /\ Challenged(o.status) /\ p.at = 0
                         THEN Rejected(p, "credential", "version")
                         ELSE Rejected(p, Fetched(o), "version")
      BY <1>1, <1>2 DEF ProxyVersion
<1>5. Fetched(o) \in ConnectionPhases /\ "credential" \in ConnectionPhases
      BY PhasesOfReads DEF ConnectionPhases, NetworkPhases
<1>6. CASE q = [p EXCEPT !.pc = "retry"] /\ Offers /\ Send("proxy", Target(proxy))
  <2>1. Asked(p).owned
        BY <1>1, <1>6 DEF Offers
  <2>2. p.at = 0 \/ p.asks[p.at].owned
        BY <2>1 DEF Asked
  <2>3. /\ DOMAIN q = DOMAIN p /\ q.asks = p.asks /\ q.at = p.at /\ q.pc = "retry" /\ q.phase = p.phase
        /\ q.credential = "none"
        BY <1>3, <1>6 DEF ProxyParts
  <2>4. ProxyFits(q, world)
        BY <1>3, <2>2, <2>3, ProxyMoves DEF ProxyPlaces
  <2>5. PICK one : one = [reader |-> "proxy", host |-> Asked(p).host, configured |-> p.at = 0]
        OBVIOUS
  <2>6. sent' = sent \cup {one}
        BY <1>1, <1>6, <2>5 DEF Send, Target
  <2>7. SentFits(one, world, vouched)
        BY <1>3, <2>2, <2>5, OffersAreProven
  <2> QED BY <1>2, <1>3, <2>4, <2>6, <2>7
<1>7. CASE sent' = sent /\ q = Selected(p)
  <2>1. PICK key : key = IF p.at = 0 THEN 0 ELSE Asked(p).key
        OBVIOUS
  <2>2. q = [p EXCEPT !.pc = "raw", !.key = key]
        BY <1>7, <2>1 DEF Selected
  <2>3. /\ DOMAIN q = DOMAIN p /\ q.asks = p.asks /\ q.at = p.at /\ q.pc = "raw" /\ q.phase = p.phase
        /\ q.credential = "none"
        BY <1>3, <2>2 DEF ProxyParts
  <2>4. ProxyFits(q, world)
        BY <1>3, <2>3, ProxyMoves DEF ProxyPlaces
  <2> QED BY <1>2, <1>3, <1>7, <2>4
<1>8. CASE sent' = sent /\ \E phase \in ConnectionPhases : q = Rejected(p, phase, "version")
  <2>1. ProxyFits(q, world)
        BY <1>3, <1>8, ProxyRejected
  <2> QED BY <1>2, <1>3, <1>8, <2>1
<1> QED BY <1>4, <1>5, <1>6, <1>7, <1>8

LEMMA ProxyRetryKeeps ==
    ASSUME IInv, ProxyRetry
    PROVE  ProxyFits(proxy', world)
<1>1. PICK p : p = proxy
      OBVIOUS
<1>2. PICK q : q = proxy'
      OBVIOUS
<1>3. /\ ProxyFits(p, world) /\ p.pc = "retry" /\ ProxyParts \subseteq DOMAIN p /\ p.credential = "none"
      /\ p.phase \in ConnectionPhases /\ (p.at = 0 \/ p.asks[p.at].owned)
      BY <1>1 DEF IInv, ProxyRetry, Reading, ProxyFits
<1>4. PICK o \in Outcomes :
         q = IF Fetched(o) = "connected" THEN Selected([p EXCEPT !.credential = "basic"])
                                         ELSE Rejected(p, Fetched(o), "version")
      BY <1>1, <1>2 DEF ProxyRetry
<1>5. CASE q = Selected([p EXCEPT !.credential = "basic"])
  <2>1. PICK r : r = [p EXCEPT !.credential = "basic"]
        OBVIOUS
  <2>2. PICK key : key = IF r.at = 0 THEN 0 ELSE Asked(r).key
        OBVIOUS
  <2>3. q = [r EXCEPT !.pc = "raw", !.key = key]
        BY <1>5, <2>1, <2>2 DEF Selected
  <2>4. /\ DOMAIN r = DOMAIN p /\ r.asks = p.asks /\ r.at = p.at /\ r.phase = p.phase /\ r.credential = "basic"
        BY <1>3, <2>1 DEF ProxyParts
  <2>5. /\ DOMAIN q = DOMAIN p /\ q.asks = p.asks /\ q.at = p.at /\ q.pc = "raw" /\ q.phase = p.phase
        BY <1>3, <2>3, <2>4 DEF ProxyParts
  <2>6. ProxyFits(q, world)
        BY <1>3, <2>5, ProxyMoves DEF ProxyPlaces
  <2> QED BY <1>2, <2>6
<1>6. CASE q = Rejected(p, Fetched(o), "version")
  <2>1. ProxyFits(q, world)
        BY <1>3, <1>6, ProxyRejected, PhasesOfReads
  <2> QED BY <1>2, <2>1
<1> QED BY <1>4, <1>5, <1>6

\* A further read takes the reader to its next place, or its end.
LEMMA ProxyReadsOn ==
    ASSUME NEW p, ProxyFits(p, world), p.pc \in {"raw", "entrypoints"}, NEW q, DOMAIN q = DOMAIN p,
           q.asks = p.asks, q.at = p.at, q.credential = p.credential,
           q.pc \in {"entrypoints", "over"}, q.phase \in ConnectionPhases
    PROVE  ProxyFits(q, world)
<1>1. q.credential = "basic" => p.at = 0 \/ p.asks[p.at].owned
      BY DEF ProxyFits
<1> QED BY <1>1, ProxyMoves DEF ProxyPlaces

LEMMA SendsAsSelected ==
    ASSUME IInv, proxy.pc \in {"raw", "entrypoints"}, SendAsSelected
    PROVE  \A s \in sent' : SentFits(s, world, vouched)
<1>1. PICK p : p = proxy
      OBVIOUS
<1>2. ProxyFits(p, world) /\ \A s \in sent : SentFits(s, world, vouched)
      BY <1>1 DEF IInv
<1>3. CASE p.credential = "basic"
  <2>1. PICK one : one = [reader |-> "proxy", host |-> Asked(p).host, configured |-> p.at = 0]
        OBVIOUS
  <2>2. sent' = sent \cup {one}
        BY <1>1, <1>3, <2>1 DEF Send, Target, SendAsSelected
  <2>3. SentFits(one, world, vouched)
    <3>1. p.at = 0 \/ p.asks[p.at].owned
          BY <1>2, <1>3 DEF ProxyFits
    <3>2. p.pc \notin {"idle", "over"}
          BY <1>1
    <3> QED BY <1>2, <2>1, <3>1, <3>2, OffersAreProven
  <2> QED BY <1>2, <2>2, <2>3
<1>4. CASE p.credential # "basic"
      BY <1>1, <1>2, <1>4 DEF SendAsSelected
<1> QED BY <1>3, <1>4

LEMMA ProxyRawDataKeeps ==
    ASSUME IInv, ProxyRawData
    PROVE  ProxyFits(proxy', world) /\ \A s \in sent' : SentFits(s, world, vouched)
<1>1. PICK p : p = proxy
      OBVIOUS
<1>2. PICK q : q = proxy'
      OBVIOUS
<1>3. ProxyFits(p, world) /\ p.pc = "raw" /\ ProxyParts \subseteq DOMAIN p /\ p.phase \in ConnectionPhases
      BY <1>1 DEF IInv, ProxyRawData, Reading, ProxyFits
<1>4. PICK o, table :
         /\ o \in Outcomes
         /\ q = IF Fetched(o) = "connected" THEN [p EXCEPT !.pc = "entrypoints", !.snapshot = table]
                                            ELSE [p EXCEPT !.pc = "over", !.phase = Fetched(o)]
      BY <1>1, <1>2 DEF ProxyRawData
<1>5. \A s \in sent' : SentFits(s, world, vouched)
      BY <1>1, <1>3, SendsAsSelected DEF ProxyRawData
<1>6. CASE q = [p EXCEPT !.pc = "entrypoints", !.snapshot = table]
  <2>1. /\ DOMAIN q = DOMAIN p /\ q.asks = p.asks /\ q.at = p.at /\ q.pc = "entrypoints" /\ q.phase = p.phase
        /\ q.credential = p.credential
        BY <1>3, <1>6 DEF ProxyParts
  <2> QED BY <1>2, <1>3, <1>5, <2>1, ProxyReadsOn
<1>7. CASE q = [p EXCEPT !.pc = "over", !.phase = Fetched(o)]
  <2>1. /\ DOMAIN q = DOMAIN p /\ q.asks = p.asks /\ q.at = p.at /\ q.pc = "over" /\ q.phase = Fetched(o)
        /\ q.credential = p.credential
        BY <1>3, <1>7 DEF ProxyParts
  <2>2. q.phase \in ConnectionPhases
    <3>1. o \in Outcomes
          BY <1>4
    <3> QED BY <2>1, <3>1, PhasesOfReads
  <2> QED BY <1>2, <1>3, <1>5, <2>1, <2>2, ProxyReadsOn
<1> QED BY <1>4, <1>6, <1>7

LEMMA ProxyEntrypointsKeeps ==
    ASSUME IInv, ProxyEntrypoints
    PROVE  ProxyFits(proxy', world) /\ \A s \in sent' : SentFits(s, world, vouched)
<1>1. PICK p : p = proxy
      OBVIOUS
<1>2. PICK q : q = proxy'
      OBVIOUS
<1>3. ProxyFits(p, world) /\ p.pc = "entrypoints" /\ ProxyParts \subseteq DOMAIN p /\ p.phase \in ConnectionPhases
      BY <1>1 DEF IInv, ProxyEntrypoints, Reading, ProxyFits
<1>4. PICK o \in Outcomes :
         q = IF Fetched(o) = "connected"
                    THEN [p EXCEPT !.pc = "over", !.phase = "connected",
                                   !.snapshot.entrypoints = world.entrypoints,
                                   !.snapshot.entrypointsRead = TRUE]
                    ELSE [p EXCEPT !.pc = "over", !.phase = "partial"]
      BY <1>1, <1>2 DEF ProxyEntrypoints
<1>5. /\ DOMAIN q = DOMAIN p /\ q.asks = p.asks /\ q.at = p.at /\ q.pc = "over" /\ q.phase \in {"connected", "partial"}
      /\ q.credential = p.credential
      BY <1>3, <1>4 DEF ProxyParts
<1>6. q.phase \in ConnectionPhases
      BY <1>5 DEF ConnectionPhases, AnswerPhases
<1>7. \A s \in sent' : SentFits(s, world, vouched)
      BY <1>1, <1>3, SendsAsSelected DEF ProxyEntrypoints
<1> QED BY <1>2, <1>3, <1>5, <1>6, <1>7, ProxyReadsOn

\* The other reader, at whatever place it is.
LEMMA IdentityMoves ==
    ASSUME NEW i, NEW j, NEW w, NEW hosts, NEW more, IdentityFits(i, w, hosts), i.pc # "idle", hosts \subseteq more,
           DOMAIN j = DOMAIN i, j.asks = i.asks, j.at = i.at,
           j.pc \in {"over"} \cup Listing, j.phase \in ConnectionPhases, j.page \in 1..MaxPages,
           j.pc \in Listing => i.pc \in Listing \/ (i.at # 0 /\ i.asks[i.at].host \in more)
    PROVE  IdentityFits(j, w, more)
<1>1. j.pc \notin {"idle", "probe"}
      BY DEF Listing
<1>2. j.pc \in Listing => j.at = 0 \/ j.asks[j.at].host \in more
      BY DEF IdentityFits
<1>3. j.pc \in Listing /\ j.at = 0 => j.asks[1].host = w.identity.url
      BY DEF IdentityFits
<1> QED BY <1>1, <1>2, <1>3 DEF IdentityFits

LEMMA ChosenFits ==
    ASSUME NEW i, IdentityParts \subseteq DOMAIN i, NEW j, j = Chosen(i)
    PROVE  /\ DOMAIN j = DOMAIN i /\ j.asks = i.asks /\ j.at = i.at /\ j.page = i.page
           /\ j.pc \in {"applications", "over"}
           /\ j.phase = i.phase \/ j.phase = "authenticate"
<1>1. CASE j = [i EXCEPT !.pc = "applications"]
      BY <1>1 DEF IdentityParts
<1>2. CASE j = [i EXCEPT !.pc = "over", !.phase = "authenticate"]
      BY <1>2 DEF IdentityParts
<1> QED BY <1>1, <1>2 DEF Chosen

LEMMA IdentityStartKeeps ==
    ASSUME SoundWorld(world), FleetFits(fleet, "read"), IdentityFits(identity, world, vouched), IdentityStart
    PROVE  IdentityFits(identity', world, vouched)
<1>1. PICK p : p = identity
      OBVIOUS
<1>2. PICK q : q = identity'
      OBVIOUS
<1>3. PICK candidates : candidates = IdentityCandidates(fleet, Registry)
      OBVIOUS
<1>4. IsList(candidates)
      BY <1>3, SoundAfterRoutes, IdentityCandidatesAreAList
<1>5. /\ IdentityParts \subseteq DOMAIN p /\ p.pc = "idle" /\ p.phase \in ConnectionPhases
      /\ IsList(p.asks) /\ p.at = 0 /\ p.at \in 0..Len(p.asks) /\ p.page \in 1..MaxPages
      BY <1>1 DEF IdentityFits, IdentityStart, Reading
<1>6. PICK url : url = world.identity.url
      OBVIOUS
<1>7. PICK begun : begun = Begin(p, url, world.identity.enabled, candidates, "probe", "chosen")
      OBVIOUS
<1>8. q = IF begun.pc = "chosen" THEN Chosen(begun) ELSE begun
      BY <1>1, <1>2, <1>3, <1>6, <1>7 DEF IdentityStart
<1>9. begun = IF ~world.identity.enabled THEN [p EXCEPT !.pc = "over", !.phase = "disabled"]
             ELSE IF url # "" THEN [p EXCEPT !.pc = "chosen", !.asks = <<[host |-> url, owned |-> TRUE]>>]
             ELSE IF candidates = <<>> THEN [p EXCEPT !.pc = "over", !.phase = "not-configured"]
             ELSE [p EXCEPT !.pc = "probe", !.at = 1, !.asks = Cut(candidates, MaxCandidates)]
      BY <1>7, BeginsAlike
<1>10. CASE \E phase \in {"disabled", "not-configured"} : begun = [p EXCEPT !.pc = "over", !.phase = phase]
  <2>1. PICK phase \in {"disabled", "not-configured"} : begun = [p EXCEPT !.pc = "over", !.phase = phase]
        BY <1>10
  <2>2. /\ DOMAIN begun = DOMAIN p /\ begun.asks = p.asks /\ begun.at = p.at /\ begun.pc = "over"
        /\ begun.phase = phase /\ begun.page = p.page
        BY <1>5, <2>1 DEF IdentityParts
  <2>3. phase \in ConnectionPhases
        BY DEF ConnectionPhases, BeforeTheNetwork
  <2>4. q = begun
        BY <1>8, <2>2
  <2> QED BY <1>2, <1>5, <2>2, <2>3, <2>4 DEF IdentityFits, Listing
<1>11. CASE begun = [p EXCEPT !.pc = "chosen", !.asks = <<[host |-> url, owned |-> TRUE]>>]
  <2>1. PICK asks : asks = <<[host |-> url, owned |-> TRUE]>>
        OBVIOUS
  <2>2. asks \in Seq({asks[1]}) /\ Len(asks) = 1 /\ asks[1].host = url
        BY <2>1
  <2>3. IsList(asks)
        BY <2>2, SeqIsList
  <2>4. /\ DOMAIN begun = DOMAIN p /\ begun.asks = asks /\ begun.at = 0 /\ begun.pc = "chosen"
        /\ begun.phase = p.phase /\ begun.page = p.page
        BY <1>5, <1>11, <2>1 DEF IdentityParts
  <2>5. q = Chosen(begun)
        BY <1>8, <2>4
  <2>6. /\ DOMAIN q = DOMAIN p /\ q.asks = asks /\ q.at = 0 /\ q.page = p.page
        /\ q.pc \in {"applications", "over"}
        /\ q.phase = p.phase \/ q.phase = "authenticate"
        BY <1>5, <2>4, <2>5, ChosenFits
  <2>7. q.phase \in ConnectionPhases
        BY <1>5, <2>6 DEF ConnectionPhases, AnswerPhases
  <2> QED BY <1>2, <1>5, <1>6, <2>2, <2>3, <2>6, <2>7 DEF IdentityFits, Listing
<1>12. CASE candidates # <<>> /\ begun = [p EXCEPT !.pc = "probe", !.at = 1, !.asks = Cut(candidates, MaxCandidates)]
  <2>1. PICK asks : asks = Cut(candidates, MaxCandidates)
        OBVIOUS
  <2>2. IsList(asks) /\ Len(asks) >= 1
        BY <1>4, <1>12, <2>1, CutIsAList DEF MaxCandidates
  <2>3. PICK n \in Nat : n = Len(asks)
        BY <2>2, Lists1
  <2>4. /\ DOMAIN begun = DOMAIN p /\ begun.asks = asks /\ begun.at = 1 /\ begun.pc = "probe"
        /\ begun.phase = p.phase /\ begun.page = p.page
        BY <1>5, <1>12, <2>1 DEF IdentityParts
  <2>5. 1 \in 0..Len(asks)
        BY <2>2, <2>3
  <2>6. q = begun
        BY <1>8, <2>4
  <2> QED BY <1>2, <1>5, <2>2, <2>4, <2>5, <2>6 DEF IdentityFits, Listing
<1> QED BY <1>9, <1>10, <1>11, <1>12

LEMMA IdentityProbeKeeps ==
    ASSUME IInv, IdentityProbe
    PROVE  IdentityFits(identity', world, vouched') /\ vouched \subseteq vouched'
<1>1. PICK p : p = identity
      OBVIOUS
<1>2. PICK q : q = identity'
      OBVIOUS
<1>3. /\ IdentityFits(p, world, vouched) /\ p.pc = "probe" /\ IdentityParts \subseteq DOMAIN p
      /\ p.phase \in ConnectionPhases /\ p.at # 0 /\ p.at \in 0..Len(p.asks) /\ p.page \in 1..MaxPages /\ IsList(p.asks)
      BY <1>1 DEF IInv, IdentityProbe, Reading, IdentityFits, Listing
<1>4. PICK hosts : hosts = vouched
      OBVIOUS
<1>5. PICK more : more = vouched'
      OBVIOUS
<1>6. PICK o \in Outcomes :
         /\ q = IF ~o.failed /\ o.status \in {401, 403, 407} THEN [p EXCEPT !.pc = "over", !.phase = o.phase]
                ELSE IF Fetched(o) = "connected" THEN Chosen(p)
                ELSE Rejected(p, Fetched(o), "probe")
         /\ more = IF Ok(o) /\ o.json THEN hosts \cup {Asked(p).host} ELSE hosts
      BY <1>1, <1>2, <1>4, <1>5 DEF IdentityProbe
<1>7. hosts \subseteq more
      BY <1>6
<1>8. Asked(p) = p.asks[p.at]
      BY <1>3 DEF Asked
<1>9. o.phase \in ConnectionPhases /\ Fetched(o) \in ConnectionPhases
      BY PhasesOfReads
<1>10. CASE q = [p EXCEPT !.pc = "over", !.phase = o.phase]
  <2>1. /\ DOMAIN q = DOMAIN p /\ q.asks = p.asks /\ q.at = p.at /\ q.page = p.page
        /\ q.pc = "over" /\ q.phase = o.phase
        BY <1>3, <1>10 DEF IdentityParts
  <2>2. IdentityFits(q, world, more)
        BY <1>3, <1>4, <1>7, <1>9, <2>1, IdentityMoves DEF Listing
  <2> QED BY <1>2, <1>4, <1>5, <1>7, <2>2
<1>11. CASE Fetched(o) = "connected" /\ q = Chosen(p)
  <2>1. /\ DOMAIN q = DOMAIN p /\ q.asks = p.asks /\ q.at = p.at /\ q.page = p.page
        /\ q.pc \in {"applications", "over"}
        /\ q.phase = p.phase \/ q.phase = "authenticate"
        BY <1>3, <1>11, ChosenFits
  <2>2. p.asks[p.at].host \in more
        BY <1>6, <1>8, <1>11, PhasesOfReads
  <2>3. q.phase \in ConnectionPhases
        BY <1>3, <2>1 DEF ConnectionPhases, AnswerPhases
  <2>4. IdentityFits(q, world, more)
        BY <1>3, <1>4, <1>7, <2>1, <2>2, <2>3, IdentityMoves DEF Listing
  <2> QED BY <1>2, <1>4, <1>5, <1>7, <2>4
<1>12. CASE q = Rejected(p, Fetched(o), "probe")
  <2>1. CASE p.at = Len(p.asks)
    <3>1. PICK attempts : attempts = Append(p.attempts, Fetched(o))
          OBVIOUS
    <3>2. q = [p EXCEPT !.pc = "over", !.phase = Fetched(o), !.attempts = attempts]
          BY <1>3, <1>12, <2>1, <3>1 DEF Rejected
    <3>3. /\ DOMAIN q = DOMAIN p /\ q.asks = p.asks /\ q.at = p.at /\ q.page = p.page
          /\ q.pc = "over" /\ q.phase = Fetched(o)
          BY <1>3, <3>2 DEF IdentityParts
    <3>4. IdentityFits(q, world, more)
          BY <1>3, <1>4, <1>7, <1>9, <3>3, IdentityMoves DEF Listing
    <3> QED BY <1>2, <1>4, <1>5, <1>7, <3>4
  <2>2. CASE p.at # Len(p.asks)
    <3>1. PICK attempts : attempts = Append(p.attempts, Fetched(o))
          OBVIOUS
    <3>2. PICK n \in Nat : n = Len(p.asks)
          BY <1>3, Lists1
    <3>3. p.at + 1 \in 0..n /\ p.at + 1 # 0 /\ p.at \in Nat
          BY <1>3, <2>2, <3>2
    <3>4. q = [p EXCEPT !.pc = "probe", !.at = p.at + 1, !.attempts = attempts]
          BY <1>3, <1>12, <2>2, <3>1 DEF Rejected
    <3>5. /\ DOMAIN q = DOMAIN p /\ q.asks = p.asks /\ q.at = p.at + 1 /\ q.page = p.page
          /\ q.pc = "probe" /\ q.phase = p.phase
          BY <1>3, <3>4 DEF IdentityParts
    <3>6. IdentityFits(q, world, more)
          BY <1>3, <3>2, <3>3, <3>5 DEF IdentityFits, Listing
    <3> QED BY <1>2, <1>4, <1>5, <1>7, <3>6
  <2> QED BY <2>1, <2>2
<1> QED BY <1>6, <1>10, <1>11, <1>12

LEMMA ListsInOrder ==
    /\ After("applications") = "proxy" /\ After("proxy") = "oauth2"
    /\ After("oauth2") = "outposts" /\ After("outposts") = "over"
    /\ ToSet(Lists) = Listing \cup {"over"}
<1>1. /\ Len(Lists) = 5 /\ DOMAIN Lists = 1..5
      /\ Lists[1] = "applications" /\ Lists[2] = "proxy" /\ Lists[3] = "oauth2" /\ Lists[4] = "outposts" /\ Lists[5] = "over"
      BY DEF Lists
<1>2. ToSet(Lists) = Listing \cup {"over"}
  <2>1. \A x : x \in ToSet(Lists) <=> \E n \in 1..5 : Lists[n] = x
        BY <1>1 DEF ToSet
  <2>2. \A n : n \in 1..5 <=> n = 1 \/ n = 2 \/ n = 3 \/ n = 4 \/ n = 5
        OBVIOUS
  <2> QED BY <1>1, <2>1, <2>2 DEF Listing
<1>3. ASSUME NEW n \in 1..4 PROVE After(Lists[n]) = Lists[n + 1]
  <2>1. PICK list : list = Lists[n]
        OBVIOUS
  <2>2. \A i \in 2..5 : Lists[i - 1] = list <=> i = n + 1
        BY <1>1, <2>1
  <2>3. (CHOOSE i \in 2..Len(Lists) : Lists[i - 1] = list) = n + 1
        BY <1>1, <2>2
  <2> QED BY <2>1, <2>3 DEF After
<1>4. \A n : n \in 1..4 <=> n = 1 \/ n = 2 \/ n = 3 \/ n = 4
      OBVIOUS
<1>5. 1 + 1 = 2 /\ 2 + 1 = 3 /\ 3 + 1 = 4 /\ 4 + 1 = 5
      OBVIOUS
<1> QED BY <1>1, <1>2, <1>3, <1>4, <1>5

LEMMA TokensGoWhereVouched ==
    ASSUME NEW p, NEW w, NEW hosts, IdentityFits(p, w, hosts), p.pc \in Listing
    PROVE  SentFits([reader |-> "identity", host |-> Asked(p).host, configured |-> p.at = 0], w, hosts)
<1>1. CASE p.at = 0
  <2>1. Asked(p) = p.asks[1] /\ p.asks[1].host = w.identity.url
        BY <1>1 DEF Asked, IdentityFits
  <2> QED BY <1>1, <2>1 DEF SentFits
<1>2. CASE p.at # 0
  <2>1. Asked(p) = p.asks[p.at] /\ p.asks[p.at].host \in hosts
        BY <1>2 DEF Asked, IdentityFits
  <2> QED BY <2>1 DEF SentFits
<1> QED BY <1>1, <1>2

\* A page read, with what it brought.
WithPage(p, list, entries, total) == [p EXCEPT ![list] = entries, !.total = total]
LEMMA PageRead ==
    ASSUME NEW p, IdentityParts \subseteq DOMAIN p, NEW list \in Listing, NEW entries, NEW total, NEW read,
           read = WithPage(p, list, entries, total)
    PROVE  /\ DOMAIN read = DOMAIN p /\ read.asks = p.asks /\ read.at = p.at /\ read.pc = p.pc /\ read.page = p.page
           /\ read.phase = p.phase /\ read.total = total /\ read[list] = entries
           /\ \A other \in Listing : other # list => read[other] = p[other]
<1>1. PICK r : r = [p EXCEPT ![list] = entries]
      OBVIOUS
<1>2. read = [r EXCEPT !.total = total]
      BY <1>1 DEF WithPage
<1>3. DOMAIN r = DOMAIN p /\ \A x \in DOMAIN p : r[x] = IF x = list THEN entries ELSE p[x]
      BY <1>1
<1>4. DOMAIN read = DOMAIN p /\ \A x \in DOMAIN p : read[x] = IF x = "total" THEN total ELSE r[x]
      BY <1>2, <1>3
<1>5. list \notin {"asks", "at", "pc", "page", "phase", "total"}
      BY DEF Listing
<1>6. Listing \subseteq DOMAIN p /\ {"asks", "at", "pc", "page", "phase", "total"} \subseteq DOMAIN p
      BY DEF Listing, IdentityParts
<1>7. \A other \in Listing : other # "total"
      BY DEF Listing
<1> QED BY <1>3, <1>4, <1>5, <1>6, <1>7

LEMMA ReportsEnd ==
    ASSUME NEW p, IdentityParts \subseteq DOMAIN p
    PROVE  /\ DOMAIN ReportOf(p) = DOMAIN p /\ ReportOf(p).asks = p.asks /\ ReportOf(p).at = p.at
           /\ ReportOf(p).pc = p.pc /\ ReportOf(p).page = p.page /\ ReportOf(p).phase \in {"partial", "connected"}
<1>1. PICK phase, recovered, assembled :
         /\ ReportOf(p) = [p EXCEPT !.phase = phase, !.recovered = recovered, !.assembled = assembled]
         /\ phase \in {"partial", "connected"}
  <2>1. PICK details : details = p.proxy \o p.oauth2
        OBVIOUS
  <2>2. PICK recovered : recovered = Cardinality(RecoveredSlugs(p.applications, details))
        OBVIOUS
  <2>3. PICK phase : phase = IF Invisible(p.total, Len(p.applications), recovered) > 0 THEN "partial" ELSE "connected"
        OBVIOUS
  <2>4. PICK assembled : assembled = Assemble(p.applications, details, p.outposts)
        OBVIOUS
  <2>5. ReportOf(p) = [p EXCEPT !.phase = phase, !.recovered = recovered, !.assembled = assembled]
        BY <2>1, <2>2, <2>3, <2>4 DEF ReportOf
  <2> QED BY <2>3, <2>5
<1> QED BY <1>1 DEF IdentityParts

LEMMA IdentityPageKeeps ==
    ASSUME IInv, IdentityPage
    PROVE  IdentityFits(identity', world, vouched) /\ \A s \in sent' : SentFits(s, world, vouched)
<1>1. PICK p : p = identity
      OBVIOUS
<1>2. PICK q : q = identity'
      OBVIOUS
<1>3. /\ IdentityFits(p, world, vouched) /\ p.pc \in Listing /\ IdentityParts \subseteq DOMAIN p
      /\ p.phase \in ConnectionPhases /\ p.page \in 1..MaxPages
      BY <1>1, ListsInOrder DEF IInv, IdentityPage, Reading, IdentityFits
<1>4. PICK list : list = p.pc
      OBVIOUS
<1>5. PICK entries : entries = p[list] \o PageOf(list, p.page)
      OBVIOUS
<1>6. PICK total : total = IF list = "applications" /\ p.page = 1 /\ world.counted THEN Len(far) ELSE p.total
      OBVIOUS
<1>7. PICK read : read = [p EXCEPT ![list] = entries, !.total = total]
      OBVIOUS
<1>8. PICK next : next = [read EXCEPT !.pc = After(list), !.page = 1]
      OBVIOUS
<1>9. PICK more \in BOOLEAN : more <=> HasNext(list, p.page) /\ PageOf(list, p.page) # <<>> /\ p.page < MaxPages
      OBVIOUS
<1>10. PICK o \in Outcomes :
         q = IF Fetched(o) # "connected" THEN [p EXCEPT !.pc = "over", !.phase = Fetched(o)]
                         ELSE IF more THEN [read EXCEPT !.page = read.page + 1]
                         ELSE IF next.pc = "over" THEN ReportOf(next)
                         ELSE next
  <2>1. read = [identity EXCEPT ![list] = identity[list] \o PageOf(list, identity.page),
            !.total = IF list = "applications" /\ identity.page = 1 /\ world.counted THEN Len(far) ELSE identity.total]
        BY <1>1, <1>5, <1>6, <1>7
  <2> QED BY <1>1, <1>2, <1>4, <1>8, <1>9, <2>1 DEF IdentityPage
<1>11. /\ DOMAIN read = DOMAIN p /\ read.asks = p.asks /\ read.at = p.at /\ read.pc = p.pc /\ read.page = p.page
       /\ read.phase = p.phase
  <2>1. list \in Listing /\ IdentityParts \subseteq DOMAIN p
        BY <1>3, <1>4
  <2>2. read = WithPage(p, list, entries, total)
        BY <1>7 DEF WithPage
  <2> QED BY <2>1, <2>2, PageRead
<1>12. \A s \in sent' : SentFits(s, world, vouched)
  <2>1. PICK one : one = [reader |-> "identity", host |-> Asked(p).host, configured |-> p.at = 0]
        OBVIOUS
  <2>2. sent' = sent \cup {one}
        BY <1>1, <2>1 DEF IdentityPage, Send, Target
  <2>3. SentFits(one, world, vouched)
        BY <1>3, <2>1, TokensGoWhereVouched
  <2> QED BY <2>2, <2>3 DEF IInv
<1>13. IdentityFits(q, world, vouched)
  <2>1. PICK hosts : hosts = vouched
        OBVIOUS
  <2>2. IdentityFits(p, world, hosts) /\ p.pc # "idle"
        BY <1>3, <2>1 DEF Listing
  <2>3. PICK max \in Nat \ {0} : max = MaxPages
        BY ReadersAssumption
  <2>4. 1 \in 1..MaxPages
        BY <2>3
  <2>5. CASE q = [p EXCEPT !.pc = "over", !.phase = Fetched(o)]
    <3>1. /\ DOMAIN q = DOMAIN p /\ q.asks = p.asks /\ q.at = p.at /\ q.pc = "over" /\ q.phase = Fetched(o)
          /\ q.page = p.page
          BY <1>3, <2>5 DEF IdentityParts
    <3> QED BY <1>3, <2>1, <2>2, <3>1, PhasesOfReads, IdentityMoves DEF Listing
  <2>6. CASE more /\ q = [read EXCEPT !.page = read.page + 1]
    <3>1. p.page + 1 \in 1..MaxPages
          BY <1>3, <1>9, <2>3, <2>6
    <3>2. /\ DOMAIN q = DOMAIN p /\ q.asks = p.asks /\ q.at = p.at /\ q.pc = p.pc /\ q.phase = p.phase
          /\ q.page = p.page + 1
          BY <1>3, <1>11, <2>6 DEF IdentityParts
    <3> QED BY <1>3, <2>1, <2>2, <3>1, <3>2, IdentityMoves
  <2>7. /\ DOMAIN next = DOMAIN p /\ next.asks = p.asks /\ next.at = p.at /\ next.pc = After(list) /\ next.phase = p.phase
        /\ next.page = 1
        BY <1>3, <1>8, <1>11 DEF IdentityParts
  <2>8. After(list) \in {"over"} \cup Listing
        BY <1>3, <1>4, ListsInOrder DEF Listing
  <2>9. CASE q = next
        BY <1>3, <2>1, <2>2, <2>4, <2>7, <2>8, <2>9, IdentityMoves
  <2>10. CASE q = ReportOf(next)
    <3>1. /\ DOMAIN q = DOMAIN p /\ q.asks = p.asks /\ q.at = p.at /\ q.pc = After(list)
          /\ q.phase \in {"partial", "connected"} /\ q.page = 1
          BY <1>3, <2>7, <2>10, ReportsEnd
    <3>2. q.phase \in ConnectionPhases
          BY <3>1 DEF ConnectionPhases, AnswerPhases
    <3> QED BY <1>3, <2>1, <2>2, <2>4, <2>8, <3>1, <3>2, IdentityMoves
  <2> QED BY <1>10, <2>5, <2>6, <2>9, <2>10
<1> QED BY <1>2, <1>12, <1>13

-----------------------------------------------------------------------------
(* The inductive invariant, and what follows from it. *)

LEMMA Start ==
    ASSUME Init
    PROVE  IInv
<1>1. SoundWorld(world)
      BY WorldsAssumption DEF Init
<1>2. FleetFits(fleet, stage)
  <2>1. \A k \in Keys(world.fleet) : SameService(Service(world.fleet, k), Service(world.fleet, k))
        BY <1>1 DEF SoundWorld, SoundService, SameService
  <2> QED BY <1>1, <2>1 DEF Init, FleetFits, SoundWorld
<1>3. IsList(<<>>) /\ Len(<<>>) = 0
  <2>1. <<>> \in Seq({}) /\ Len(<<>>) = 0
        OBVIOUS
  <2> QED BY <2>1, SeqIsList
<1>4. ProxyFits(proxy, world)
  <2>1. PICK p : p = proxy
        OBVIOUS
  <2>2. /\ DOMAIN p = ProxyParts /\ p.pc = "idle" /\ p.phase = "disabled" /\ p.asks = <<>> /\ p.at = 0
        /\ p.credential = "none"
        BY <2>1 DEF Init, NoProxy, ProxyParts
  <2>3. p.phase \in ConnectionPhases
        BY <2>2 DEF ConnectionPhases, BeforeTheNetwork
  <2> QED BY <1>3, <2>1, <2>2, <2>3 DEF ProxyFits
<1>5. IdentityFits(identity, world, vouched)
  <2>1. PICK p : p = identity
        OBVIOUS
  <2>2. /\ DOMAIN p = IdentityParts /\ p.pc = "idle" /\ p.phase = "disabled" /\ p.asks = <<>> /\ p.at = 0
        /\ p.page = 1
        BY <2>1 DEF Init, NoIdentity, IdentityParts
  <2>3. p.phase \in ConnectionPhases
        BY <2>2 DEF ConnectionPhases, BeforeTheNetwork
  <2>4. 1 \in 1..MaxPages
    <3>1. PICK max \in Nat \ {0} : max = MaxPages
          BY ReadersAssumption
    <3> QED BY <3>1
  <2> QED BY <1>3, <2>1, <2>2, <2>3, <2>4 DEF IdentityFits, Listing
<1> QED BY <1>2, <1>4, <1>5 DEF Init, IInv

LEMMA Step ==
    ASSUME IInv, [Next]_vars
    PROVE  IInv'
<1>1. SoundWorld(world)
      BY WorldsAssumption DEF IInv
<1> USE DEF IInv
<1>2. CASE Routes
  <2>1. FleetFits(fleet', "read")
        BY <1>1, <1>2, RoutesKeeps DEF Routes
  <2>2. FleetFits(fleet, stage)'
        BY <1>2, <2>1 DEF Routes, FleetFits
  <2> QED BY <1>2, <2>2 DEF Routes
<1>3. CASE Publish
  <2>1. FleetFits(fleet', "done")
        BY <1>1, <1>3, PublishKeeps DEF Publish
  <2>2. FleetFits(fleet, stage)'
        BY <1>3, <2>1 DEF Publish, FleetFits
  <2> QED BY <1>3, <2>2 DEF Publish
<1>4. CASE Conclude
  <2>1. FleetFits(fleet, stage)'
        BY <1>4 DEF Conclude, FleetFits
  <2> QED BY <1>4, <2>1 DEF Conclude
<1>5. ASSUME UNCHANGED <<world, fleet, stage>>
      PROVE  FleetFits(fleet, stage)'
      BY <1>5 DEF FleetFits
<1>6. CASE Finished \/ UNCHANGED vars
      BY <1>5, <1>6 DEF Finished, vars
<1>7. CASE ProxyStart
  <2>1. ProxyFits(proxy', world)
        BY <1>1, <1>7, ProxyStartKeeps DEF ProxyStart, Reading
  <2> QED BY <1>5, <1>7, <2>1 DEF ProxyStart, OnlyProxy
<1>8. CASE ProxyVersion
      BY <1>5, <1>8, ProxyVersionKeeps DEF ProxyVersion, OnlyProxy
<1>9. CASE ProxyRetry
      BY <1>5, <1>9, ProxyRetryKeeps DEF ProxyRetry, OnlyProxy
<1>10. CASE ProxyRawData
      BY <1>5, <1>10, ProxyRawDataKeeps DEF ProxyRawData, OnlyProxy
<1>11. CASE ProxyEntrypoints
      BY <1>5, <1>11, ProxyEntrypointsKeeps DEF ProxyEntrypoints, OnlyProxy
<1>12. CASE IdentityStart
  <2>1. IdentityFits(identity', world, vouched)
        BY <1>1, <1>12, IdentityStartKeeps DEF IdentityStart, Reading
  <2> QED BY <1>5, <1>12, <2>1 DEF IdentityStart, OnlyIdentity
<1>13. CASE IdentityProbe
  <2>1. IdentityFits(identity', world, vouched') /\ vouched \subseteq vouched'
        BY <1>13, IdentityProbeKeeps
  <2>2. \A s \in sent : SentFits(s, world, vouched')
        BY <2>1 DEF SentFits
  <2> QED BY <1>5, <1>13, <2>1, <2>2 DEF IdentityProbe, OnlyIdentity
<1>14. CASE IdentityPage
      BY <1>5, <1>14, IdentityPageKeeps DEF IdentityPage, OnlyIdentity
<1>15. CASE Edit
      BY <1>5, <1>15 DEF Edit, OnlyIdentity
<1> QED BY <1>2, <1>3, <1>4, <1>6, <1>7, <1>8, <1>9, <1>10, <1>11, <1>12, <1>13, <1>14, <1>15 DEF Next

LEMMA Inductive == Spec => []IInv
<1>1. Init => IInv
      BY Start
<1>2. IInv /\ [Next]_vars => IInv'
      BY Step
<1> QED BY <1>1, <1>2, PTL DEF Spec

\* Each reader is at one of its places, and every phase it reports is one of the closed set.
THEOREM ReadersTypeOK == Spec => []TypeOK
<1>1. IInv => TypeOK
      BY ListsInOrder DEF IInv, TypeOK, ProxyFits, ProxyPlaces, IdentityFits, Listing
<1> QED BY <1>1, Inductive, PTL

\* No password or token is ever sent to an address nobody vouched for: the labels of any fleet that
\* may be scanned, whatever the far ends answer on the way.
THEOREM CredentialsStayWithTheProven == Spec => []CredentialsGoToProvenAddresses
<1>1. ASSUME IInv PROVE CredentialsGoToProvenAddresses
  <2> SUFFICES ASSUME NEW s \in sent
               PROVE  \/ s.configured /\ s.host = (IF s.reader = "proxy" THEN world.proxy.url ELSE world.identity.url)
                      \/ s.reader = "identity" /\ s.host \in vouched
                      \/ /\ s.reader = "proxy"
                         /\ \E k \in Keys(fleet) :
                              LET lbls == Service(fleet, k).labels
                                  api == {r \in NamedAt(lbls, "routers") : At(lbls, <<"routers", r, "service">>) = "api@internal"}
                              IN  /\ api # {}
                                  /\ \/ s.host \in {Service(fleet, k).name, Service(fleet, k).container}
                                     \/ \E r \in api : s.host \in At(lbls, <<"routers", r, "rule">>)
      BY DEF CredentialsGoToProvenAddresses
  <2>1. SentFits(s, world, vouched)
        BY <1>1 DEF IInv
  <2>2. Proven(world.fleet, s.host) <=> Proven(fleet, s.host)
        BY <1>1, ProvenAnywhere DEF IInv
  <2> QED BY <2>1, <2>2 DEF SentFits, Proven, Publishes, ApiRouters
<1> QED BY <1>1, Inductive, PTL

-----------------------------------------------------------------------------
(* What a recursion that goes level by level comes to. *)

Levels(D, v0, next, n, g) == g \in [0..n -> D] /\ g[0] = v0 /\ \A i \in 1..n : g[i] = next[g[i - 1]]
LEMMA LevelsExist ==
    ASSUME NEW D, NEW v0 \in D, NEW next \in [D -> D], NEW n \in Nat
    PROVE  \E g : Levels(D, v0, next, n, g)
<1> DEFINE Q == {m \in Nat : \E g \in [0..m -> D] : g[0] = v0 /\ \A i \in 1..m : g[i] = next[g[i - 1]]}
<1>1. 0 \in Q
  <2>1. PICK g : g = [i \in 0..0 |-> v0]
        OBVIOUS
  <2>2. g \in [0..0 -> D] /\ g[0] = v0
        BY <2>1
  <2> QED BY <2>2
<1>2. ASSUME NEW m \in Nat, m \in Q PROVE m + 1 \in Q
  <2>1. PICK g \in [0..m -> D] : g[0] = v0 /\ \A i \in 1..m : g[i] = next[g[i - 1]]
        BY <1>2
  <2>2. PICK k : k = [i \in 0..(m + 1) |-> IF i = m + 1 THEN next[g[m]] ELSE g[i]]
        OBVIOUS
  <2>3. m \in 0..m /\ g[m] \in D /\ next[g[m]] \in D
        BY <2>1
  <2>4. k \in [0..(m + 1) -> D]
    <3>1. \A i \in 0..(m + 1) : i # m + 1 => i \in 0..m
          OBVIOUS
    <3> QED BY <2>1, <2>2, <2>3, <3>1
  <2>5. k[0] = v0
        BY <2>1, <2>2
  <2>6. ASSUME NEW i \in 1..(m + 1) PROVE k[i] = next[k[i - 1]]
    <3>1. i - 1 \in 0..m /\ i - 1 # m + 1 /\ i - 1 \in 0..(m + 1) /\ i \in 0..(m + 1)
          OBVIOUS
    <3>2. k[i - 1] = g[i - 1]
          BY <2>2, <3>1
    <3>3. CASE i = m + 1
      <4>1. i - 1 = m
            BY <3>3
      <4> QED BY <2>2, <3>2, <3>3, <4>1
    <3>4. CASE i # m + 1
      <4>1. i \in 1..m
            BY <3>4
      <4> QED BY <2>1, <2>2, <3>1, <3>2, <3>4, <4>1
    <3> QED BY <3>3, <3>4
  <2>7. m + 1 \in Nat
        OBVIOUS
  <2> QED BY <2>4, <2>5, <2>6, <2>7
<1>3. n \in Q
  <2> HIDE DEF Q
  <2> QED BY <1>1, <1>2, SetInduction
<1> QED BY <1>3 DEF Levels

LEMMA LevelsFit ==
    ASSUME NEW D, NEW v0 \in D, NEW next \in [D -> D], NEW n \in Nat, NEW k, k[0] = v0,
           \A i \in 1..n : k[i - 1] \in D => k[i] = next[k[i - 1]]
    PROVE  \A i \in 0..n : k[i] \in D /\ (i # 0 => i - 1 \in 0..n /\ k[i] = next[k[i - 1]])
<1> DEFINE Q == {m \in Nat : m \in 0..n => k[m] \in D}
<1>1. 0 \in Q
      OBVIOUS
<1>2. ASSUME NEW m \in Nat, m \in Q PROVE m + 1 \in Q
  <2>1. m + 1 \in Nat /\ (m + 1) - 1 = m
        OBVIOUS
  <2>2. CASE m + 1 \in 1..n
    <3>1. m \in 0..n
          BY <2>2
    <3>2. k[m] \in D
          BY <1>2, <3>1
    <3>3. k[m + 1] = next[k[m]]
          BY <2>1, <2>2, <3>2
    <3> QED BY <2>1, <3>2, <3>3
  <2>3. CASE m + 1 \notin 1..n
        BY <2>1, <2>3
  <2> QED BY <2>2, <2>3
<1>3. \A i \in 0..n : k[i] \in D
  <2>1. Nat \subseteq Q
    <3> HIDE DEF Q
    <3> QED BY <1>1, <1>2, SetInduction
  <2> QED BY <2>1
<1>4. ASSUME NEW i \in 0..n, i # 0 PROVE i - 1 \in 0..n /\ i \in 1..n
      BY <1>4
<1> QED BY <1>3, <1>4

LEMMA GatherFits ==
    ASSUME NEW F, NEW S, NEW R, NEW step, NEW list, IsList(list), ToSet(list) \subseteq R, NEW seen \in S, Finds(F, S, R, step)
    PROVE  Gather(step, list, seen) \in [found : Seq(F), seen : S]
<1>1. list \in Seq(R)
      BY Lists1
<1>2. PICK found, by : Gathers(F, S, step, list, seen, found, by)
      BY <1>1, GatherByStep
<1>3. Len(list) \in 0..Len(list)
      BY <1>1
<1> QED BY <1>2, <1>3 DEF Gathers

LEMMA ImageIsFinite ==
    ASSUME NEW f, IsFiniteSet(DOMAIN f)
    PROVE  IsFiniteSet({f[x] : x \in DOMAIN f})
<1>1. PICK S : S = DOMAIN f
      OBVIOUS
<1>2. PICK g : g = [x \in S |-> f[x]]
      OBVIOUS
<1>3. g \in Surjection(S, {f[x] : x \in DOMAIN f})
      BY <1>1, <1>2 DEF Surjection
<1> QED BY <1>1, <1>3, FS_Surjection

-----------------------------------------------------------------------------
(* What labels say of a gate. *)

Methods == {"authentik-forward-auth", "authentik-oauth", "authentik-ldap", "forward-auth",
            "other-oauth", "ldap", "basic-auth"}
GateTypes == {"forwardauth", "basicauth", "digestauth"}

\* A registry whose chains lead somewhere, and what can be said with it.
Leads(registry) == \A n \in DOMAIN registry :
    IsList(registry[n].middlewares) /\ ToSet(registry[n].middlewares) \subseteq DOMAIN BareName
Saids(registry) ==
    [method : Methods, detail : DOMAIN BareName, confidence : {"observed", "inferred"},
     address : {NoAddress} \cup {registry[n].address : n \in DOMAIN registry}, live : {FALSE}]

\* A type that counts is a gate's wherever one of the types is.
LEMMA GatesCount ==
    ASSUME NEW types, NEW places, places \subseteq Nat, places # {}
    PROVE  /\ Counting(types, places) \in places
           /\ (\E i \in places : types[i] \in GateTypes) => types[Counting(types, places)] \in GateTypes
<1>1. PICK gates : gates = {i \in places : IsAuthType(types[i])}
      OBVIOUS
<1>2. Counting(types, places) = Min(IF gates = {} THEN places ELSE gates)
      BY <1>1 DEF Counting
<1>3. CASE gates = {}
  <2>1. Min(places) \in places
        BY LeastIsThere
  <2> QED BY <1>1, <1>2, <1>3, <2>1 DEF IsAuthType, GateTypes
<1>4. CASE gates # {}
  <2>1. gates \subseteq Nat
        BY <1>1
  <2>2. Min(gates) \in gates
        BY <1>4, <2>1, LeastIsThere
  <2> QED BY <1>1, <1>2, <1>4, <2>2 DEF IsAuthType, GateTypes
<1> QED BY <1>3, <1>4

LEMMA DefsFit ==
    ASSUME NEW svc, SoundRoutes(svc), NEW k
    PROVE  /\ IsFiniteSet(MiddlewareDefs(k, svc))
           /\ \A d \in MiddlewareDefs(k, svc) :
                IsList(d.middlewares) /\ ToSet(d.middlewares) \subseteq DOMAIN BareName
           /\ \A name : \A t \in GateTypes : <<"middlewares", name, t>> \in DOMAIN svc.labels =>
                \E d \in MiddlewareDefs(k, svc) : d.name = name /\ d.type \in GateTypes
<1>1. PICK lbls : lbls = svc.labels
      OBVIOUS
<1>2. PICK names : names = NamedAt(lbls, "middlewares")
      OBVIOUS
<1> DEFINE kinds(name) == {i \in DOMAIN TypeOrder : <<"middlewares", name, TypeOrder[i]>> \in DOMAIN lbls}
           type(name) == TypeOrder[Counting(TypeOrder, kinds(name))]
           address(name) == AddressAt(lbls, <<"middlewares", name, "forwardauth">>)
           chain(name) == ListAt(lbls, <<"middlewares", name, "chain">>)
<1>3. PICK def : def = [name \in names |-> [name |-> name, where |-> k, type |-> type(name), address |-> address(name),
                                            middlewares |-> chain(name)]]
      OBVIOUS
<1>4. MiddlewareDefs(k, svc) = {def[name] : name \in DOMAIN def} /\ DOMAIN def = names
      BY <1>1, <1>2, <1>3 DEF MiddlewareDefs
<1>5. IsFiniteSet(names)
      BY <1>1, <1>2, NamedIsFinite DEF SoundRoutes
<1>6. IsFiniteSet(MiddlewareDefs(k, svc))
      BY <1>4, <1>5, ImageIsFinite
<1>7. \A name \in names : def[name].name = name /\ def[name].type = type(name) /\ def[name].middlewares = chain(name)
      BY <1>3
<1>8. \A name \in names : IsList(chain(name)) /\ ToSet(chain(name)) \subseteq DOMAIN BareName
      BY <1>1, <1>2 DEF SoundRoutes
<1>9. ASSUME NEW name, NEW t \in GateTypes, <<"middlewares", name, t>> \in DOMAIN lbls
      PROVE  name \in names /\ type(name) \in GateTypes
  <2>1. PICK key : key = <<"middlewares", name, t>>
        OBVIOUS
  <2>2. key \in DOMAIN lbls /\ key[1] = "middlewares" /\ key[2] = name
        BY <1>9, <2>1
  <2>3. name \in names
        BY <1>2, <2>2 DEF NamedAt
  <2>4. DOMAIN TypeOrder = 1..5 /\ TypeOrder[1] = "basicauth" /\ TypeOrder[3] = "digestauth" /\ TypeOrder[4] = "forwardauth"
        BY DEF TypeOrder
  <2>5. PICK i \in {1, 3, 4} : TypeOrder[i] = t
        BY <2>4 DEF GateTypes
  <2>6. PICK places : places = kinds(name)
        OBVIOUS
  <2>7. i \in places /\ places \subseteq Nat
        BY <1>9, <2>4, <2>5, <2>6
  <2>8. TypeOrder[Counting(TypeOrder, places)] \in GateTypes
        BY <2>5, <2>7, GatesCount
  <2> QED BY <2>3, <2>6, <2>8
<1> HIDE DEF kinds, type, address, chain
<1> QED BY <1>1, <1>4, <1>6, <1>7, <1>8, <1>9

\* The registry has whatever the labels of the fleet define, and a gate for a gate.
LEMMA RegistryFits ==
    ASSUME NEW f, SoundFleet(f)
    PROVE  /\ Leads(NewRegistry(f))
           /\ \A s \in Keys(f) : \A name : \A t \in GateTypes :
                <<"middlewares", name, t>> \in DOMAIN Service(f, s).labels =>
                    name \in DOMAIN NewRegistry(f) /\ NewRegistry(f)[name].type \in GateTypes
<1>1. PICK n \in Nat : n = Len(f.services) /\ Keys(f) = 1..n
      BY Lists1 DEF SoundFleet, Keys
<1>2. PICK seqs : seqs = [k \in 1..n |-> SetToSeq(MiddlewareDefs(k, Service(f, k)))]
      OBVIOUS
<1>3. ASSUME NEW k \in 1..n
      PROVE  IsList(seqs[k]) /\ ToSet(seqs[k]) = MiddlewareDefs(k, Service(f, k))
  <2>1. IsFiniteSet(MiddlewareDefs(k, Service(f, k)))
        BY <1>1, DefsFit DEF SoundFleet
  <2> QED BY <1>2, <2>1, ReadOut
<1>4. PICK all : all = FlattenSeq(seqs)
      OBVIOUS
<1>5. IsList(all) /\ \A d : d \in ToSet(all) <=> \E k \in 1..n : d \in MiddlewareDefs(k, Service(f, k))
  <2>1. DOMAIN seqs = 1..n /\ seqs = [i \in 1..n |-> seqs[i]]
        BY <1>2
  <2> QED BY <1>3, <1>4, <2>1, FlattenLists
<1>6. PICK m \in Nat : DOMAIN all = 1..m
      BY <1>5, Lists1
<1>7. PICK types : types = [i \in 1..m |-> all[i].type]
      OBVIOUS
<1>8. PICK registry : registry = [name \in {d.name : d \in ToSet(all)} |->
            all[Counting(types, {i \in 1..m : all[i].name = name})]]
      OBVIOUS
<1>9. NewRegistry(f) = registry
      BY <1>1, <1>2, <1>4, <1>6, <1>7, <1>8 DEF NewRegistry
<1>10. ASSUME NEW name \in DOMAIN registry
       PROVE  /\ \E i \in 1..m : registry[name] = all[i]
              /\ (\E i \in 1..m : all[i].name = name /\ all[i].type \in GateTypes) => registry[name].type \in GateTypes
  <2>1. PICK places : places = {i \in 1..m : all[i].name = name}
        OBVIOUS
  <2>2. PICK d \in ToSet(all) : d.name = name
        BY <1>8
  <2>3. PICK i \in 1..m : all[i] = d
        BY <1>5, <1>6, Lists1
  <2>4. i \in places /\ places \subseteq 1..m
        BY <2>1, <2>2, <2>3
  <2>5. PICK c : c = Counting(types, places)
        OBVIOUS
  <2>6. c \in places /\ ((\E j \in places : types[j] \in GateTypes) => types[c] \in GateTypes)
    <3>1. places \subseteq Nat /\ places # {}
          BY <2>4
    <3> QED BY <2>5, <3>1, GatesCount
  <2>7. registry[name] = all[c]
        BY <1>8, <2>1, <2>5
  <2>8. c \in 1..m /\ types[c] = all[c].type /\ \A j \in places : types[j] = all[j].type
        BY <1>7, <2>4, <2>6
  <2> QED BY <2>1, <2>6, <2>7, <2>8
<1>11. \A i \in 1..m : \E k \in 1..n : all[i] \in MiddlewareDefs(k, Service(f, k))
       BY <1>5, <1>6, Lists1
<1>12. Leads(registry)
  <2> SUFFICES ASSUME NEW name \in DOMAIN registry
               PROVE  IsList(registry[name].middlewares) /\ ToSet(registry[name].middlewares) \subseteq DOMAIN BareName
      BY DEF Leads
  <2>1. PICK i \in 1..m : registry[name] = all[i]
        BY <1>10
  <2>2. PICK k \in 1..n : all[i] \in MiddlewareDefs(k, Service(f, k))
        BY <1>11
  <2>3. SoundRoutes(Service(f, k))
        BY <1>1 DEF SoundFleet
  <2> QED BY <2>1, <2>2, <2>3, DefsFit
<1>13. ASSUME NEW s \in Keys(f), NEW name, NEW t \in GateTypes, <<"middlewares", name, t>> \in DOMAIN Service(f, s).labels
       PROVE  name \in DOMAIN registry /\ registry[name].type \in GateTypes
  <2>1. SoundRoutes(Service(f, s))
        BY DEF SoundFleet
  <2>2. PICK d \in MiddlewareDefs(s, Service(f, s)) : d.name = name /\ d.type \in GateTypes
        BY <1>13, <2>1, DefsFit
  <2>3. d \in ToSet(all)
        BY <1>1, <1>5
  <2>4. PICK i \in 1..m : all[i] = d
        BY <1>5, <1>6, <2>3, Lists1
  <2>5. name \in DOMAIN registry
        BY <1>8, <2>2, <2>3
  <2> QED BY <1>10, <2>2, <2>4, <2>5
<1> QED BY <1>9, <1>12, <1>13

LEMMA OneIsAList ==
    ASSUME NEW F, NEW x \in F
    PROVE  <<x>> \in Seq(F) /\ ToSet(<<x>>) = {x}
<1>1. PICK s : s = <<x>>
      OBVIOUS
<1>2. s \in Seq(F) /\ DOMAIN s = 1..1 /\ s[1] = x
      BY <1>1
<1>3. ToSet(s) = {x}
      BY <1>2 DEF ToSet
<1> QED BY <1>1, <1>2, <1>3

LEMMA Said ==
    ASSUME NEW registry, NEW m \in Methods, NEW d \in DOMAIN BareName, NEW c \in {"observed", "inferred"},
           NEW a \in {NoAddress} \cup {registry[n].address : n \in DOMAIN registry}
    PROVE  Account(m, d, c, a, FALSE) \in Saids(registry) /\ Account(m, d, c, a, FALSE).confidence = c
BY DEF Account, Saids

\* A reference says what can be said, and a gate says that it is one.
LEMMA ConsultFits ==
    ASSUME NEW registry, Leads(registry), NEW hints, NEW inner,
           Finds(Saids(registry), SUBSET BareNames, DOMAIN BareName, inner),
           NEW ref \in DOMAIN BareName, NEW seen \in SUBSET BareNames
    PROVE  /\ Consult(registry, hints, inner, ref, seen) \in [found : Seq(Saids(registry)), seen : SUBSET BareNames]
           /\ BareName[ref] \notin seen \cup {""} /\ BareName[ref] \in DOMAIN registry
                /\ registry[BareName[ref]].type \in GateTypes =>
              \E a \in ToSet(Consult(registry, hints, inner, ref, seen).found) : a.confidence = "observed"
<1>1. PICK out : out = Consult(registry, hints, inner, ref, seen)
      OBVIOUS
<1>2. PICK bare : bare = BareName[ref]
      OBVIOUS
<1>3. PICK F : F = Saids(registry)
      OBVIOUS
<1>4. bare \in BareNames /\ seen \cup {bare} \in SUBSET BareNames /\ <<>> \in Seq(F)
      BY <1>2 DEF BareNames
<1> DEFINE Fine(found, now) ==
        /\ found \in Seq(F) /\ now \in SUBSET BareNames
        /\ bare \notin seen \cup {""} /\ bare \in DOMAIN registry /\ registry[bare].type \in GateTypes =>
              \E a \in ToSet(found) : a.confidence = "observed"
<1>5. ASSUME NEW found, NEW now, out = [found |-> found, seen |-> now], Fine(found, now)
      PROVE  /\ out \in [found : Seq(F), seen : SUBSET BareNames]
             /\ bare \notin seen \cup {""} /\ bare \in DOMAIN registry /\ registry[bare].type \in GateTypes =>
                   \E a \in ToSet(out.found) : a.confidence = "observed"
  <2>1. out.found = found /\ out.seen = now
        BY <1>5
  <2> QED BY <1>5, <2>1
<1>6. CASE bare = "" \/ bare \in seen
  <2>1. out = [found |-> <<>>, seen |-> seen]
        BY <1>1, <1>2, <1>6 DEF Consult
  <2>2. Fine(<<>>, seen)
        BY <1>4, <1>6
  <2> HIDE DEF Fine
  <2> QED BY <1>1, <1>2, <1>3, <1>5, <2>1, <2>2
<1>7. CASE ~(bare = "" \/ bare \in seen) /\ bare \notin DOMAIN registry
  <2>1. out = [found |-> FromName(hints, ref), seen |-> seen \cup {bare}]
        BY <1>1, <1>2, <1>7 DEF Consult
  <2>2. FromName(hints, ref) \in Seq(F)
    <3>1. PICK m : m = IF "authentik" \in ToSet(Tokens[BareName[ref]]) \/ HintMatch(hints, BareName[ref])
                         THEN "authentik-forward-auth" ELSE "forward-auth"
          OBVIOUS
    <3>2. PICK one : one = Account(m, ref, "inferred", NoAddress, FALSE)
          OBVIOUS
    <3>3. m \in Methods
          BY <3>1 DEF Methods
    <3>4. one \in F
          BY <1>3, <3>2, <3>3, Said
    <3>5. FromName(hints, ref) \in {<<>>, <<one>>}
          BY <3>1, <3>2 DEF FromName
    <3>6. <<one>> \in Seq(F)
          BY <3>4, OneIsAList
    <3> QED BY <1>4, <3>5, <3>6
  <2>3. Fine(FromName(hints, ref), seen \cup {bare})
        BY <1>4, <1>7, <2>2
  <2> HIDE DEF Fine
  <2> QED BY <1>1, <1>2, <1>3, <1>5, <2>1, <2>3
<1>8. CASE ~(bare = "" \/ bare \in seen) /\ bare \in DOMAIN registry
  <2>1. PICK def : def = registry[bare]
        OBVIOUS
  <2>2. IsList(def.middlewares) /\ ToSet(def.middlewares) \subseteq DOMAIN BareName
        BY <1>8, <2>1 DEF Leads
  <2>3. PICK addresses : addresses = {NoAddress} \cup {registry[n].address : n \in DOMAIN registry}
        OBVIOUS
  <2>4. def.address \in addresses /\ NoAddress \in addresses
        BY <1>8, <2>1, <2>3
  <2>5. PICK m : m = IF NamesProvider(hints, def.address) THEN "authentik-forward-auth" ELSE "forward-auth"
        OBVIOUS
  <2>6. m \in Methods /\ "basic-auth" \in Methods
        BY <2>5 DEF Methods
  <2>7. CASE def.type = "forwardauth"
    <3>1. PICK one : one = Account(m, ref, "observed", def.address, FALSE)
          OBVIOUS
    <3>2. one \in F /\ one.confidence = "observed"
      <4>1. PICK a \in {NoAddress} \cup {registry[n].address : n \in DOMAIN registry} : a = def.address
            BY <2>3, <2>4
      <4>2. one = Account(m, ref, "observed", a, FALSE)
            BY <3>1, <4>1
      <4>3. Account(m, ref, "observed", a, FALSE) \in Saids(registry)
            BY <2>6, Said
      <4>4. one.confidence = "observed"
            BY <3>1 DEF Account
      <4> QED BY <1>3, <4>2, <4>3, <4>4
    <3>3. out = [found |-> <<one>>, seen |-> seen \cup {bare}]
          BY <1>1, <1>2, <1>8, <2>1, <2>5, <2>7, <3>1 DEF Consult
    <3>4. <<one>> \in Seq(F) /\ ToSet(<<one>>) = {one}
          BY <3>2, OneIsAList
    <3>5. Fine(<<one>>, seen \cup {bare})
          BY <1>4, <3>2, <3>4
    <3> HIDE DEF Fine
    <3> QED BY <1>1, <1>2, <1>3, <1>5, <3>3, <3>5
  <2>8. CASE def.type \in {"basicauth", "digestauth"}
    <3>1. PICK one : one = Account("basic-auth", ref, "observed", NoAddress, FALSE)
          OBVIOUS
    <3>2. one \in F /\ one.confidence = "observed"
          BY <1>3, <2>3, <2>4, <2>6, <3>1, Said
    <3>3. out = [found |-> <<one>>, seen |-> seen \cup {bare}]
          BY <1>1, <1>2, <1>8, <2>1, <2>8, <3>1 DEF Consult
    <3>4. <<one>> \in Seq(F) /\ ToSet(<<one>>) = {one}
          BY <3>2, OneIsAList
    <3>5. Fine(<<one>>, seen \cup {bare})
          BY <1>4, <3>2, <3>4
    <3> HIDE DEF Fine
    <3> QED BY <1>1, <1>2, <1>3, <1>5, <3>3, <3>5
  <2>9. CASE def.type = "chain"
    <3>1. out = Gather(inner, def.middlewares, seen \cup {bare})
          BY <1>1, <1>2, <1>8, <2>1, <2>9 DEF Consult
    <3>2. out \in [found : Seq(F), seen : SUBSET BareNames]
      <4>1. PICK now : now = seen \cup {bare}
            OBVIOUS
      <4>2. Finds(F, SUBSET BareNames, DOMAIN BareName, inner)
            BY <1>3
      <4> QED BY <1>4, <2>2, <3>1, <4>1, <4>2, GatherFits
    <3>3. registry[bare].type \notin GateTypes
          BY <2>1, <2>9 DEF GateTypes
    <3> QED BY <1>1, <1>2, <1>3, <3>2, <3>3
  <2>10. CASE def.type \notin {"forwardauth", "basicauth", "digestauth", "chain"}
    <3>1. out = [found |-> <<>>, seen |-> seen \cup {bare}]
          BY <1>1, <1>2, <1>8, <2>1, <2>10 DEF Consult
    <3>2. Fine(<<>>, seen \cup {bare})
          BY <1>4, <2>1, <2>10 DEF GateTypes
    <3> HIDE DEF Fine
    <3> QED BY <1>1, <1>2, <1>3, <1>5, <3>1, <3>2
  <2> QED BY <2>7, <2>8, <2>9, <2>10
<1> QED BY <1>6, <1>7, <1>8

\* So does a reading of it, as many chains deep as may be left.
LEMMA ClassifyFits ==
    ASSUME NEW registry, Leads(registry), NEW hints
    PROVE  /\ Finds(Saids(registry), SUBSET BareNames, DOMAIN BareName, Classify(registry, hints))
           /\ \A ref \in DOMAIN BareName :
                BareName[ref] # "" /\ BareName[ref] \in DOMAIN registry /\ registry[BareName[ref]].type \in GateTypes =>
                    \E a \in ToSet(Classify(registry, hints)[ref][{}].found) : a.confidence = "observed"
<1>1. PICK F : F = Saids(registry)
      OBVIOUS
<1>2. PICK R : R = DOMAIN BareName
      OBVIOUS
<1>3. PICK S : S = SUBSET BareNames
      OBVIOUS
<1>4. PICK V : V = [found : Seq(F), seen : S]
      OBVIOUS
<1>5. PICK D : D = [R -> [S -> V]]
      OBVIOUS
<1>6. PICK v0 : v0 = [ref \in R |-> [seen \in S |-> [found |-> <<>>, seen |-> seen]]]
      OBVIOUS
<1>7. v0 \in D
  <2>1. \A seen \in S : [found |-> <<>>, seen |-> seen] \in V
        BY <1>4
  <2> QED BY <2>1, <1>5, <1>6
<1>8. ASSUME NEW v \in D PROVE Finds(F, S, R, v)
      BY <1>4, <1>5 DEF Finds
<1>9. PICK next : next = [v \in D |-> [ref \in R |-> [seen \in S |-> Consult(registry, hints, v, ref, seen)]]]
      OBVIOUS
<1>10. ASSUME NEW v \in D, NEW ref \in R, NEW seen \in S
       PROVE  /\ Consult(registry, hints, v, ref, seen) \in V
              /\ BareName[ref] \notin seen \cup {""} /\ BareName[ref] \in DOMAIN registry
                   /\ registry[BareName[ref]].type \in GateTypes =>
                 \E a \in ToSet(Consult(registry, hints, v, ref, seen).found) : a.confidence = "observed"
  <2>1. Finds(F, S, R, v)
        BY <1>8
  <2> QED BY <1>1, <1>2, <1>3, <1>4, <2>1, ConsultFits
<1>11. next \in [D -> D]
  <2>1. \A v \in D : [ref \in R |-> [seen \in S |-> Consult(registry, hints, v, ref, seen)]] \in D
        BY <1>5, <1>10
  <2> QED BY <1>9, <2>1
<1> DEFINE Level(g, left) == [ref \in R |-> [seen \in S |->
                IF left = 0 THEN [found |-> <<>>, seen |-> seen]
                ELSE Consult(registry, hints, g[left - 1], ref, seen)]]
           Reads(g) == g = [left \in 0..9 |-> Level(g, left)]
<1>12. \E g : Reads(g)
  <2>1. 9 \in Nat
        OBVIOUS
  <2>2. PICK g \in [0..9 -> D] : g[0] = v0 /\ \A i \in 1..9 : g[i] = next[g[i - 1]]
    <3>1. \E g : Levels(D, v0, next, 9, g)
          BY <1>7, <1>11, <2>1, LevelsExist
    <3> QED BY <3>1 DEF Levels
  <2>3. ASSUME NEW left \in 0..9 PROVE g[left] = Level(g, left)
    <3>1. CASE left = 0
          BY <1>6, <2>2, <3>1
    <3>2. CASE left # 0
      <4>1. left \in 1..9 /\ left - 1 \in 0..9
            BY <3>2
      <4>2. PICK v \in D : v = g[left - 1]
            BY <2>2, <4>1
      <4>3. g[left] = [ref \in R |-> [seen \in S |-> Consult(registry, hints, v, ref, seen)]]
            BY <1>9, <2>2, <4>1, <4>2
      <4>4. Level(g, left) = [ref \in R |-> [seen \in S |-> Consult(registry, hints, v, ref, seen)]]
            BY <3>2, <4>2
      <4> QED BY <4>3, <4>4
    <3> QED BY <3>1, <3>2
  <2>4. g = [left \in 0..9 |-> g[left]]
        BY <2>2
  <2>5. Reads(g)
    <3> HIDE DEF Level
    <3> QED BY <2>3, <2>4
  <2> QED BY <2>5
<1>13. PICK g : g = CHOOSE h : Reads(h)
       OBVIOUS
<1>14. Reads(g)
  <2> HIDE DEF Reads
  <2> QED BY <1>12, <1>13
<1>15. Classify(registry, hints) = g[9]
       BY <1>2, <1>3, <1>13 DEF Classify, MaxChainDepth
<1>16. \A left \in 0..9 : g[left] = Level(g, left)
  <2> HIDE DEF Level
  <2> QED BY <1>14
<1>17. g[0] = v0
  <2>1. Level(g, 0) = v0
        BY <1>6
  <2> HIDE DEF Level
  <2> QED BY <1>16, <2>1
<1>18. ASSUME NEW i \in 1..9, g[i - 1] \in D PROVE g[i] = next[g[i - 1]]
  <2>1. i \in 0..9 /\ i # 0
        OBVIOUS
  <2>2. PICK v \in D : v = g[i - 1]
        BY <1>18
  <2>3. Level(g, i) = [ref \in R |-> [seen \in S |-> Consult(registry, hints, v, ref, seen)]]
        BY <2>1, <2>2
  <2>4. next[v] = [ref \in R |-> [seen \in S |-> Consult(registry, hints, v, ref, seen)]]
        BY <1>9
  <2> HIDE DEF Level
  <2> QED BY <1>16, <2>1, <2>2, <2>3, <2>4
<1>19. \A i \in 0..9 : g[i] \in D /\ (i # 0 => i - 1 \in 0..9 /\ g[i] = next[g[i - 1]])
  <2>1. 9 \in Nat
        OBVIOUS
  <2> HIDE DEF Level, Reads
  <2> QED BY <1>7, <1>11, <1>17, <1>18, <2>1, LevelsFit
<1>20. PICK v \in D : g[9] \in D /\ g[9] = [ref \in R |-> [seen \in S |-> Consult(registry, hints, v, ref, seen)]]
  <2>1. 9 \in 0..9 /\ 9 # 0 /\ 9 - 1 \in 0..9
        OBVIOUS
  <2>2. g[9] \in D /\ g[9 - 1] \in D /\ g[9] = next[g[9 - 1]]
        BY <1>19, <2>1
  <2> QED BY <1>9, <2>2
<1>21. Finds(F, S, R, Classify(registry, hints))
       BY <1>8, <1>15, <1>20
<1>22. ASSUME NEW ref \in R, BareName[ref] # "", BareName[ref] \in DOMAIN registry, registry[BareName[ref]].type \in GateTypes
       PROVE  \E a \in ToSet(Classify(registry, hints)[ref][{}].found) : a.confidence = "observed"
  <2>1. {} \in S
        BY <1>3
  <2>2. Classify(registry, hints)[ref][{}] = Consult(registry, hints, v, ref, {})
        BY <1>15, <1>20, <2>1
  <2>3. BareName[ref] \notin {} \cup {""}
        BY <1>22
  <2> QED BY <1>10, <1>22, <2>1, <2>2, <2>3
<1> QED BY <1>1, <1>2, <1>3, <1>21, <1>22

LEMMA CollapseFits ==
    ASSUME NEW accounts, IsList(accounts)
    PROVE  /\ IsList(Collapse(accounts)) /\ ToSet(Collapse(accounts)) \subseteq ToSet(accounts)
           /\ \A a \in ToSet(accounts) : \E b \in ToSet(Collapse(accounts)) : SameAccount(b, a)
<1>1. PICK n \in Nat : DOMAIN accounts = 1..n /\ \A i \in 1..n : accounts[i] \in ToSet(accounts)
      BY Lists1
<1>2. PICK places : places = {i \in DOMAIN accounts : \A j \in 1..(i - 1) : ~SameAccount(accounts[j], accounts[i])}
      OBVIOUS
<1>3. Collapse(accounts) = Picked(accounts, places)
      BY <1>2 DEF Collapse
<1>4. /\ IsList(Collapse(accounts))
      /\ \A x : x \in ToSet(Collapse(accounts)) <=> \E i \in DOMAIN accounts : i \in places /\ accounts[i] = x
      BY <1>3, PickedMembers
<1>5. ASSUME NEW a \in ToSet(accounts) PROVE \E b \in ToSet(Collapse(accounts)) : SameAccount(b, a)
  <2>1. PICK same : same = {i \in 1..n : SameAccount(accounts[i], a)}
        OBVIOUS
  <2>2. same # {} /\ same \subseteq Nat
    <3>1. PICK i \in 1..n : accounts[i] = a
          BY <1>1, Lists1
    <3>2. i \in same
          BY <2>1, <3>1 DEF SameAccount
    <3> QED BY <2>1, <3>2
  <2>3. PICK i \in same : \A j \in same : i <= j
        BY <2>2, LeastIsThere
  <2>4. i \in 1..n /\ SameAccount(accounts[i], a)
        BY <2>1
  <2>5. ASSUME NEW j \in 1..(i - 1), SameAccount(accounts[j], accounts[i]) PROVE FALSE
    <3>1. j \in 1..n /\ ~(i <= j)
          BY <2>4
    <3>2. SameAccount(accounts[j], a)
          BY <2>4, <2>5 DEF SameAccount
    <3> QED BY <2>1, <2>3, <3>1, <3>2
  <2>6. i \in places
        BY <1>1, <1>2, <2>4, <2>5
  <2> QED BY <1>1, <1>4, <2>4, <2>6
<1> QED BY <1>1, <1>4, <1>5

\* An account that labels and an environment give reason for.
LabelAccount(a) == a.method \in Methods /\ a.confidence \in {"observed", "inferred"} /\ a.live = FALSE

LEMMA EnvAccountFits ==
    ASSUME NEW svc, NEW hints, NEW kind, NEW named \in Methods, NEW generic \in Methods
    PROVE  IsList(EnvAccount(svc, hints, kind, named, generic))
           /\ \A a \in ToSet(EnvAccount(svc, hints, kind, named, generic)) : LabelAccount(a)
<1>1. PICK out : out = EnvAccount(svc, hints, kind, named, generic)
      OBVIOUS
<1>2. out = <<>> \/ \E m, d : m \in Methods /\ out = <<Account(m, d, "observed", NoAddress, FALSE)>>
      BY <1>1 DEF EnvAccount
<1>3. CASE out = <<>>
  <2>1. <<>> \in Seq({}) /\ ToSet(<<>>) = {}
        BY DEF ToSet
  <2> QED BY <1>1, <1>3, <2>1, SeqIsList
<1>4. CASE \E m, d : m \in Methods /\ out = <<Account(m, d, "observed", NoAddress, FALSE)>>
  <2>1. PICK m, d : m \in Methods /\ out = <<Account(m, d, "observed", NoAddress, FALSE)>>
        BY <1>4
  <2>2. PICK one : one = Account(m, d, "observed", NoAddress, FALSE)
        OBVIOUS
  <2>3. LabelAccount(one)
        BY <2>1, <2>2 DEF Account, LabelAccount
  <2>4. <<one>> \in Seq({one}) /\ ToSet(<<one>>) = {one}
        BY OneIsAList
  <2> QED BY <1>1, <2>1, <2>2, <2>3, <2>4, SeqIsList
<1> QED BY <1>2, <1>3, <1>4

LEMMA AccessPoliciesFit ==
    ASSUME NEW svc, SoundRoutes(svc)
    PROVE  IsList(FromAccessPolicies(svc)) /\ \A a \in ToSet(FromAccessPolicies(svc)) : LabelAccount(a)
<1>1. PICK with : with = Picked(svc.tunnels, {i \in DOMAIN svc.tunnels : svc.tunnels[i].access})
      OBVIOUS
<1>2. PICK n \in Nat : DOMAIN with = 1..n
  <2>1. PICK places : places = {i \in DOMAIN svc.tunnels : svc.tunnels[i].access}
        OBVIOUS
  <2>2. IsList(svc.tunnels) /\ with = Picked(svc.tunnels, places)
        BY <1>1, <2>1 DEF SoundRoutes
  <2>3. IsList(with)
        BY <2>2, PickedMembers
  <2> QED BY <2>3, Lists1
<1>3. PICK one : one = Account("other-oauth", "Cloudflare Access", "observed", NoAddress, FALSE)
      OBVIOUS
<1>4. PICK out : out = FromAccessPolicies(svc)
      OBVIOUS
<1>5. out = [i \in 1..n |-> one]
      BY <1>1, <1>2, <1>3, <1>4 DEF FromAccessPolicies
<1>6. DOMAIN out = 1..n /\ out = [i \in 1..n |-> out[i]] /\ \A x \in ToSet(out) : x = one
      BY <1>5 DEF ToSet
<1>7. LabelAccount(one)
      BY <1>3 DEF Account, LabelAccount, Methods
<1> QED BY <1>4, <1>6, <1>7, MadeIsList

\* What is read of a service's labels, and a gate they name is read as one.
LEMMA FromLabelsFits ==
    ASSUME NEW svc, SoundRoutes(svc), NEW registry, Leads(registry), NEW hints
    PROVE  /\ IsList(FromLabels(svc, registry, hints))
           /\ \A a \in ToSet(FromLabels(svc, registry, hints)) : LabelAccount(a)
           /\ (\E r \in ToSet(svc.routers) : \E ref \in ToSet(r.middlewares) :
                 BareName[ref] # "" /\ BareName[ref] \in DOMAIN registry /\ registry[BareName[ref]].type \in GateTypes) =>
              \E a \in ToSet(FromLabels(svc, registry, hints)) : a.confidence = "observed"
<1>1. PICK F : F = Saids(registry)
      OBVIOUS
<1>2. \A a \in F : LabelAccount(a)
      BY <1>1 DEF Saids, LabelAccount
<1>3. PICK reading : reading = Classify(registry, hints)
      OBVIOUS
<1>4. /\ \A ref \in DOMAIN BareName : reading[ref][{}].found \in Seq(F)
      /\ \A ref \in DOMAIN BareName :
                BareName[ref] # "" /\ BareName[ref] \in DOMAIN registry /\ registry[BareName[ref]].type \in GateTypes =>
                    \E a \in ToSet(reading[ref][{}].found) : a.confidence = "observed"
  <2>1. Finds(F, SUBSET BareNames, DOMAIN BareName, reading)
        BY <1>1, <1>3, ClassifyFits
  <2>2. {} \in SUBSET BareNames
        OBVIOUS
  <2>3. \A ref \in DOMAIN BareName : reading[ref][{}].found \in Seq(F)
        BY <2>1, <2>2 DEF Finds
  <2> QED BY <1>3, <2>3, ClassifyFits
<1> DEFINE ofRoute(route) == FlattenSeq([i \in DOMAIN route.middlewares |-> reading[route.middlewares[i]][{}].found])
<1>5. ASSUME NEW r \in ToSet(svc.routers)
      PROVE  /\ IsList(ofRoute(r)) /\ \A a \in ToSet(ofRoute(r)) : LabelAccount(a)
             /\ \A ref \in ToSet(r.middlewares) : \A a \in ToSet(reading[ref][{}].found) : a \in ToSet(ofRoute(r))
  <2>1. IsList(r.middlewares) /\ ToSet(r.middlewares) \subseteq DOMAIN BareName
        BY DEF SoundRoutes
  <2>2. PICK mws : mws = r.middlewares
        OBVIOUS
  <2>3. PICK n \in Nat : DOMAIN mws = 1..n /\ \A i \in 1..n : mws[i] \in ToSet(mws)
        BY <2>1, <2>2, Lists1
  <2>4. PICK seqs : seqs = [i \in DOMAIN mws |-> reading[mws[i]][{}].found]
        OBVIOUS
  <2>5. DOMAIN seqs = 1..n /\ seqs = [i \in 1..n |-> seqs[i]] /\ \A i \in 1..n : seqs[i] = reading[mws[i]][{}].found
        BY <2>3, <2>4
  <2>6. \A i \in 1..n : seqs[i] \in Seq(F)
        BY <1>4, <2>1, <2>2, <2>3, <2>5
  <2>7. \A i \in 1..n : IsList(seqs[i]) /\ ToSet(seqs[i]) \subseteq F
        BY <2>6, SeqIsList
  <2>8. IsList(FlattenSeq(seqs)) /\ \A x : x \in ToSet(FlattenSeq(seqs)) <=> \E i \in 1..n : x \in ToSet(seqs[i])
        BY <2>5, <2>7, FlattenLists
  <2>9. ofRoute(r) = FlattenSeq(seqs)
        BY <2>2, <2>4
  <2>10. \A ref \in ToSet(r.middlewares) : \E i \in 1..n : mws[i] = ref
        BY <2>1, <2>2, <2>3, Lists1
  <2> HIDE DEF ofRoute
  <2> QED BY <1>2, <2>5, <2>7, <2>8, <2>9, <2>10
<1>6. PICK m \in Nat : DOMAIN svc.routers = 1..m /\ \A i \in 1..m : svc.routers[i] \in ToSet(svc.routers)
      BY Lists1 DEF SoundRoutes
<1>7. PICK routes : routes = [i \in DOMAIN svc.routers |-> ofRoute(svc.routers[i])]
      OBVIOUS
<1> HIDE DEF ofRoute
<1>8. DOMAIN routes = 1..m /\ routes = [i \in 1..m |-> routes[i]] /\ \A i \in 1..m : routes[i] = ofRoute(svc.routers[i])
      BY <1>6, <1>7
<1>9. \A i \in 1..m : IsList(routes[i])
      BY <1>5, <1>6, <1>8
<1>10. IsList(FlattenSeq(routes)) /\ \A x : x \in ToSet(FlattenSeq(routes)) <=> \E i \in 1..m : x \in ToSet(routes[i])
      BY <1>8, <1>9, FlattenLists
<1>11. \A a \in ToSet(FlattenSeq(routes)) : LabelAccount(a)
      BY <1>5, <1>6, <1>8, <1>10
<1>12. PICK access : access = FromAccessPolicies(svc)
      OBVIOUS
<1>13. IsList(access) /\ \A a \in ToSet(access) : LabelAccount(a)
      BY <1>12, AccessPoliciesFit
<1>14. PICK ldap : ldap = EnvAccount(svc, hints, "ldap", "authentik-ldap", "ldap")
      OBVIOUS
<1>15. PICK oauth : oauth = EnvAccount(svc, hints, "oauth", "authentik-oauth", "other-oauth")
      OBVIOUS
<1>16. /\ IsList(ldap) /\ \A a \in ToSet(ldap) : LabelAccount(a)
       /\ IsList(oauth) /\ \A a \in ToSet(oauth) : LabelAccount(a)
  <2>1. {"authentik-ldap", "ldap", "authentik-oauth", "other-oauth"} \subseteq Methods
        BY DEF Methods
  <2> QED BY <1>14, <1>15, <2>1, EnvAccountFits
<1>17. PICK all : all = FlattenSeq(routes) \o access \o ldap \o oauth
       OBVIOUS
<1>18. IsList(all) /\ \A x : x \in ToSet(all) <=>
            x \in ToSet(FlattenSeq(routes)) \/ x \in ToSet(access) \/ x \in ToSet(ldap) \/ x \in ToSet(oauth)
  <2>1. PICK a : a = FlattenSeq(routes) \o access
        OBVIOUS
  <2>2. IsList(a) /\ \A x : x \in ToSet(a) <=> x \in ToSet(FlattenSeq(routes)) \/ x \in ToSet(access)
        BY <1>10, <1>13, <2>1, JoinLists
  <2>3. PICK b : b = a \o ldap
        OBVIOUS
  <2>4. IsList(b) /\ \A x : x \in ToSet(b) <=> x \in ToSet(a) \/ x \in ToSet(ldap)
        BY <1>16, <2>2, <2>3, JoinLists
  <2>5. all = b \o oauth
        BY <1>17, <2>1, <2>3
  <2> QED BY <1>16, <2>2, <2>4, <2>5, JoinLists
<1>19. FromLabels(svc, registry, hints) = Collapse(all)
       BY <1>3, <1>7, <1>12, <1>14, <1>15, <1>17 DEF FromLabels, ofRoute
<1>20. \A a \in ToSet(all) : LabelAccount(a)
       BY <1>11, <1>13, <1>16, <1>18
<1>21. ASSUME NEW r \in ToSet(svc.routers), NEW ref \in ToSet(r.middlewares),
              BareName[ref] # "", BareName[ref] \in DOMAIN registry, registry[BareName[ref]].type \in GateTypes
       PROVE  \E a \in ToSet(all) : a.confidence = "observed"
  <2>1. ref \in DOMAIN BareName
        BY DEF SoundRoutes
  <2>2. PICK a \in ToSet(reading[ref][{}].found) : a.confidence = "observed"
        BY <1>4, <1>21, <2>1
  <2>3. a \in ToSet(ofRoute(r))
        BY <1>5
  <2>4. PICK i \in 1..m : svc.routers[i] = r
        BY <1>6, Lists1 DEF SoundRoutes
  <2>5. a \in ToSet(FlattenSeq(routes))
        BY <1>8, <1>10, <2>3, <2>4
  <2> QED BY <1>18, <2>2, <2>5
<1>22. PICK few : few = FromLabels(svc, registry, hints)
       OBVIOUS
<1>23. /\ IsList(few) /\ ToSet(few) \subseteq ToSet(all)
       /\ \A a \in ToSet(all) : \E b \in ToSet(few) : SameAccount(b, a)
       BY <1>18, <1>19, <1>22, CollapseFits
<1>24. \A a \in ToSet(all) : \E b \in ToSet(few) : b.confidence = a.confidence
       BY <1>23 DEF SameAccount
<1>25. \A a \in ToSet(few) : LabelAccount(a)
       BY <1>20, <1>23
<1>26. \A r \in ToSet(svc.routers) : \A ref \in ToSet(r.middlewares) :
            BareName[ref] # "" /\ BareName[ref] \in DOMAIN registry /\ registry[BareName[ref]].type \in GateTypes =>
                \E a \in ToSet(few) : a.confidence = "observed"
       BY <1>21, <1>23, <1>24
<1> QED BY <1>22, <1>23, <1>25, <1>26

-----------------------------------------------------------------------------
(* What is weighed: the account that nothing outranks comes first. *)

\* An account that says something, of a confidence there is.
Weighable(a) == a.method \in Methods /\ a.confidence \in {"confirmed", "observed", "inferred"} /\ a.live \in BOOLEAN

\* What an account weighs: less is more.
Weight(a) == 32 * Rank(AuthConfidences, a.confidence) + 2 * Rank(AuthMethods, a.method) + (IF a.live THEN 0 ELSE 1)

LEMMA Ranks ==
    /\ Rank(AuthConfidences, "confirmed") = 1 /\ Rank(AuthConfidences, "observed") = 2
    /\ Rank(AuthConfidences, "inferred") = 3
    /\ \A m \in Methods : Rank(AuthMethods, m) \in 1..7
<1>1. DOMAIN AuthConfidences = 1..3 /\ DOMAIN AuthMethods = 1..8
      BY DEF AuthConfidences, AuthMethods
<1>2. AuthConfidences[1] = "confirmed" /\ AuthConfidences[2] = "observed" /\ AuthConfidences[3] = "inferred"
      BY DEF AuthConfidences
<1>3. \A i \in 1..3 : i = 1 \/ i = 2 \/ i = 3
      OBVIOUS
<1>4. ASSUME NEW m \in Methods PROVE Rank(AuthMethods, m) \in 1..7
  <2>1. \E i \in 1..7 : AuthMethods[i] = m
    <3>1. AuthMethods[1] = "authentik-forward-auth" /\ AuthMethods[2] = "authentik-oauth"
          /\ AuthMethods[3] = "authentik-ldap" /\ AuthMethods[4] = "forward-auth"
          /\ AuthMethods[5] = "other-oauth" /\ AuthMethods[6] = "ldap" /\ AuthMethods[7] = "basic-auth"
          BY DEF AuthMethods
    <3> QED BY <3>1 DEF Methods
  <2>2. PICK r : r = CHOOSE i \in DOMAIN AuthMethods : AuthMethods[i] = m
        OBVIOUS
  <2>3. r \in 1..8 /\ AuthMethods[r] = m
        BY <1>1, <2>1, <2>2
  <2>4. AuthMethods[8] = "none" /\ m # "none"
        BY DEF AuthMethods, Methods
  <2>5. r # 8
        BY <2>3, <2>4
  <2> QED BY <2>2, <2>3, <2>5 DEF Rank
<1> QED BY <1>1, <1>2, <1>3, <1>4 DEF Rank

LEMMA WeightsAreNumbers ==
    ASSUME NEW a, Weighable(a)
    PROVE  /\ Weight(a) \in Nat
           /\ a.confidence = "confirmed" <=> Weight(a) < 64
           /\ a.confidence \in {"confirmed", "observed"} <=> Weight(a) < 96
<1>1. PICK m \in 1..7 : m = Rank(AuthMethods, a.method)
      BY Ranks DEF Weighable
<1>2. PICK l \in 0..1 : l = IF a.live THEN 0 ELSE 1
      OBVIOUS
<1>3. PICK c \in 1..3 : c = Rank(AuthConfidences, a.confidence)
      BY Ranks DEF Weighable
<1>4. Weight(a) = 32 * c + 2 * m + l
      BY <1>1, <1>2, <1>3 DEF Weight
<1>5. (a.confidence = "confirmed" <=> c = 1) /\ (a.confidence \in {"confirmed", "observed"} <=> c = 1 \/ c = 2)
      BY <1>3, Ranks DEF Weighable
<1> QED BY <1>4, <1>5

\* Outranking is weighing less.
LEMMA OutranksByWeight ==
    ASSUME NEW a, Weighable(a), NEW b, Weighable(b)
    PROVE  Outranks(a, b) <=> Weight(a) < Weight(b)
<1>1. PICK m \in 1..7, n \in 1..7 : m = Rank(AuthMethods, a.method) /\ n = Rank(AuthMethods, b.method)
      BY Ranks DEF Weighable
<1>2. PICK l \in 0..1, k \in 0..1 : l = (IF a.live THEN 0 ELSE 1) /\ k = (IF b.live THEN 0 ELSE 1)
      OBVIOUS
<1>3. PICK c \in 1..3, d \in 1..3 : c = Rank(AuthConfidences, a.confidence) /\ d = Rank(AuthConfidences, b.confidence)
      BY Ranks DEF Weighable
<1>4. Weight(a) = 32 * c + 2 * m + l /\ Weight(b) = 32 * d + 2 * n + k
      BY <1>1, <1>2, <1>3 DEF Weight
<1>5. PICK p, q : p = <<c, m, l>> /\ q = <<d, n, k>>
      OBVIOUS
<1>6. Outranks(a, b) <=> \E i \in 1..3 : p[i] < q[i] /\ \A j \in 1..(i - 1) : p[j] = q[j]
      BY <1>1, <1>2, <1>3, <1>5 DEF Outranks
<1>7. p[1] = c /\ p[2] = m /\ p[3] = l /\ q[1] = d /\ q[2] = n /\ q[3] = k
      BY <1>5
<1>8. (\E i \in 1..3 : p[i] < q[i] /\ \A j \in 1..(i - 1) : p[j] = q[j]) <=>
         c < d \/ (c = d /\ m < n) \/ (c = d /\ m = n /\ l < k)
  <2>1. 1..(1 - 1) = {} /\ 1..(2 - 1) = {1} /\ 1..(3 - 1) = {1, 2}
        OBVIOUS
  <2>2. \A i \in 1..3 : i = 1 \/ i = 2 \/ i = 3
        OBVIOUS
  <2>3. ASSUME NEW i \in 1..3, p[i] < q[i], \A j \in 1..(i - 1) : p[j] = q[j]
        PROVE  c < d \/ (c = d /\ m < n) \/ (c = d /\ m = n /\ l < k)
        BY <1>7, <2>1, <2>2, <2>3
  <2>4. ASSUME c < d PROVE \E i \in 1..3 : p[i] < q[i] /\ \A j \in 1..(i - 1) : p[j] = q[j]
        BY <1>7, <2>1, <2>4
  <2>5. ASSUME c = d, m < n PROVE \E i \in 1..3 : p[i] < q[i] /\ \A j \in 1..(i - 1) : p[j] = q[j]
        BY <1>7, <2>1, <2>5
  <2>6. ASSUME c = d, m = n, l < k PROVE \E i \in 1..3 : p[i] < q[i] /\ \A j \in 1..(i - 1) : p[j] = q[j]
        BY <1>7, <2>1, <2>6
  <2> QED BY <2>3, <2>4, <2>5, <2>6
<1>9. 32 * c + 2 * m + l < 32 * d + 2 * n + k <=> c < d \/ (c = d /\ m < n) \/ (c = d /\ m = n /\ l < k)
      OBVIOUS
<1> QED BY <1>4, <1>6, <1>8, <1>9

\* The first in order is one of the accounts, and none weighs less.
LEMMA FirstInOrder ==
    ASSUME NEW accounts, IsList(accounts), accounts # <<>>, \A a \in ToSet(accounts) : Weighable(a)
    PROVE  /\ Ordered(accounts) # <<>>
           /\ Ordered(accounts)[1] \in ToSet(accounts)
           /\ \A a \in ToSet(accounts) : Weight(Ordered(accounts)[1]) <= Weight(a)
<1>1. PICK n \in Nat : n = Len(accounts) /\ DOMAIN accounts = 1..n /\ \A i \in 1..n : accounts[i] \in ToSet(accounts)
      BY Lists1
<1>2. n # 0
  <2>1. accounts \in Seq(ToSet(accounts))
        BY Lists1
  <2> QED BY <1>1, <2>1
<1>3. PICK w : w = [i \in 1..n |-> Weight(accounts[i])]
      OBVIOUS
<1>4. \A i \in 1..n : w[i] \in Nat
      BY <1>1, <1>3, WeightsAreNumbers
<1>5. ASSUME NEW i \in 1..n, NEW j \in 1..n
      PROVE  Precedes(accounts, i, j) <=> w[i] < w[j] \/ (i < j /\ ~(w[j] < w[i]))
  <2>1. Weighable(accounts[i]) /\ Weighable(accounts[j])
        BY <1>1
  <2>2. Outranks(accounts[i], accounts[j]) <=> w[i] < w[j]
        BY <1>3, <2>1, OutranksByWeight
  <2>3. Outranks(accounts[j], accounts[i]) <=> w[j] < w[i]
        BY <1>3, <2>1, OutranksByWeight
  <2> QED BY <2>2, <2>3 DEF Precedes
<1>6. PICK before : before = [i \in 1..n |-> {j \in 1..n : Precedes(accounts, j, i)}]
      OBVIOUS
<1>7. ASSUME NEW i \in 1..n PROVE Cardinality(before[i]) = 0 <=> before[i] = {}
  <2>1. before[i] \subseteq 1..n
        BY <1>6
  <2>2. IsFiniteSet(1..n)
        BY FS_Interval
  <2>3. IsFiniteSet(before[i])
        BY <2>1, <2>2, FS_Subset
  <2> QED BY <2>3, FS_EmptySet
<1>8. \E i \in 1..n : before[i] = {}
  <2>1. PICK least : least = {w[i] : i \in 1..n}
        OBVIOUS
  <2>2. least \subseteq Nat /\ least # {}
        BY <1>2, <1>4, <2>1
  <2>3. PICK m \in least : \A v \in least : m <= v
        BY <2>2, LeastIsThere
  <2>4. PICK places : places = {i \in 1..n : w[i] = m}
        OBVIOUS
  <2>5. places \subseteq Nat /\ places # {}
        BY <2>1, <2>4
  <2>6. PICK i \in places : \A j \in places : i <= j
        BY <2>5, LeastIsThere
  <2>7. i \in 1..n /\ w[i] = m
        BY <2>4
  <2>8. ASSUME NEW j \in 1..n PROVE ~Precedes(accounts, j, i)
    <3>1. m <= w[j]
          BY <2>1, <2>3
    <3>2. w[j] = m => i <= j
          BY <2>4, <2>6
    <3>3. ~(w[j] < w[i]) /\ ~(j < i /\ ~(w[i] < w[j]))
          BY <1>4, <2>7, <3>1, <3>2
    <3> QED BY <1>5, <2>7, <3>3
  <2>9. before[i] = {}
        BY <1>6, <2>7, <2>8
  <2> QED BY <2>7, <2>9
<1>9. PICK f : f = CHOOSE i \in DOMAIN accounts :
                        Cardinality({j \in DOMAIN accounts : Precedes(accounts, j, i)}) = 1 - 1
      OBVIOUS
<1>10. f \in 1..n /\ before[f] = {}
  <2>1. \A i \in 1..n : before[i] = {j \in DOMAIN accounts : Precedes(accounts, j, i)}
        BY <1>1, <1>6
  <2>2. 1 - 1 = 0
        OBVIOUS
  <2>3. \E i \in DOMAIN accounts : Cardinality({j \in DOMAIN accounts : Precedes(accounts, j, i)}) = 1 - 1
        BY <1>1, <1>7, <1>8, <2>1, <2>2
  <2>4. f \in DOMAIN accounts /\ Cardinality({j \in DOMAIN accounts : Precedes(accounts, j, f)}) = 1 - 1
        BY <1>9, <2>3
  <2> QED BY <1>1, <1>7, <2>1, <2>2, <2>4
<1>11. 1 \in DOMAIN accounts /\ Ordered(accounts)[1] = accounts[f] /\ DOMAIN Ordered(accounts) = 1..n
       BY <1>1, <1>2, <1>9 DEF Ordered
<1>12. ASSUME NEW j \in 1..n PROVE Weight(accounts[f]) <= Weight(accounts[j])
  <2>1. ~Precedes(accounts, j, f)
        BY <1>6, <1>10
  <2>2. ~(w[j] < w[f])
        BY <1>5, <1>10, <2>1
  <2>3. w[f] <= w[j]
        BY <1>4, <1>10, <2>2
  <2> QED BY <1>3, <1>10, <2>3
<1>13. \A a \in ToSet(accounts) : \E j \in 1..n : accounts[j] = a
       BY <1>1, Lists1
<1>14. Ordered(accounts) # <<>>
       BY <1>1, <1>11
<1> QED BY <1>1, <1>10, <1>11, <1>12, <1>13, <1>14

\* A posture is one of the accounts, and as sure as the surest of them.
LEMMA ResolveFits ==
    ASSUME NEW accounts, IsList(accounts), \A a \in ToSet(accounts) : Weighable(a)
    PROVE  /\ Resolve(accounts).confidence = "confirmed" => \E a \in ToSet(accounts) : a.confidence = "confirmed"
           /\ (\E a \in ToSet(accounts) : a.confidence = "observed") =>
                Detected(Resolve(accounts).method) /\ Resolve(accounts).confidence \in {"confirmed", "observed"}
<1>1. CASE accounts = <<>>
  <2>1. Ordered(accounts) = <<>> /\ ToSet(accounts) = {}
        BY <1>1 DEF Ordered, ToSet
  <2>2. Resolve(accounts).confidence = "observed"
        BY <2>1 DEF Resolve
  <2> QED BY <2>1, <2>2
<1>2. CASE accounts # <<>>
  <2>1. PICK first \in ToSet(accounts) : first = Ordered(accounts)[1] /\ \A a \in ToSet(accounts) : Weight(first) <= Weight(a)
        BY <1>2, FirstInOrder
  <2>2. Ordered(accounts) # <<>>
        BY <1>2, FirstInOrder
  <2>3. Resolve(accounts).confidence = first.confidence /\ Resolve(accounts).method = first.method
        BY <2>1, <2>2 DEF Resolve
  <2>4. Weighable(first) /\ Weight(first) \in Nat /\ (first.confidence \in {"confirmed", "observed"} <=> Weight(first) < 96)
        BY WeightsAreNumbers
  <2>5. ASSUME NEW a \in ToSet(accounts), a.confidence = "observed"
        PROVE  Detected(first.method) /\ first.confidence \in {"confirmed", "observed"}
    <3>1. Weight(a) \in Nat /\ Weight(a) < 96
          BY <2>5, WeightsAreNumbers
    <3>2. Weight(first) <= Weight(a)
          BY <2>1
    <3>3. Weight(first) < 96
          BY <2>4, <3>1, <3>2
    <3> QED BY <2>4, <3>3 DEF Weighable, Methods, Detected
  <2> QED BY <2>1, <2>3, <2>5
<1> QED BY <1>1, <1>2

-----------------------------------------------------------------------------
(* What the proxy's table leads to: every reference that was followed to its end is there with   *)
(* its type, and so is what it leads on to - or an entry says that it was not looked at.         *)

SoundSnapshot(snap) ==
    /\ IsList(snap.routers)
    /\ \A r \in ToSet(snap.routers) : IsList(r.middlewares) /\ IsList(r.entryPoints)
    /\ \A ref \in DOMAIN snap.middlewares : IsList(snap.middlewares[ref].chain)
    /\ \A ep \in DOMAIN snap.entrypoints : IsList(snap.entrypoints[ep])

Vias(snap) == {""} \cup {snap.middlewares[ref].name : ref \in DOMAIN snap.middlewares}
Entries(snap) ==
    LET held == {snap.middlewares[ref] : ref \in DOMAIN snap.middlewares}
    IN  [name : References(snap) \cup {m.name : m \in held}, type : {""} \cup {m.type : m \in held},
         address : {NoAddress} \cup {m.address : m \in held},
         error : {"undefined", "deeper"} \cup {m.error : m \in held}, via : Vias(snap), attached : BOOLEAN]
Turns(snap) == [found : Seq(Entries(snap)), seen : SUBSET References(snap)]

Deeper(found) == \E e \in ToSet(found) : e.error = "deeper"
Shown(snap, x, found, seen) ==
    /\ \E e \in ToSet(found) : e.type = snap.middlewares[x].type
    /\ ToSet(snap.middlewares[x].chain) \subseteq seen \cup {""}
Opens(snap, was, found, seen) ==
    /\ was \subseteq seen
    /\ Deeper(found) \/ \A x \in seen \ was : x \in DOMAIN snap.middlewares => Shown(snap, x, found, seen)
\* One that does so for every reference, whatever was seen.
Opening(snap, step) ==
    \A ref \in References(snap) : \A was \in SUBSET References(snap) :
        /\ step[ref][was] \in Turns(snap)
        /\ Opens(snap, was, step[ref][was].found, step[ref][was].seen)
        /\ Deeper(step[ref][was].found) \/ ref \in step[ref][was].seen \cup {""}

LEMMA ReferencesLead ==
    ASSUME NEW snap, SoundSnapshot(snap)
    PROVE  /\ \A ref \in DOMAIN snap.middlewares :
                /\ ref \in References(snap) /\ ToSet(snap.middlewares[ref].chain) \subseteq References(snap)
                /\ snap.middlewares[ref].name \in Vias(snap)
           /\ \A r \in ToSet(snap.routers) : ToSet(r.middlewares) \subseteq References(snap)
           /\ \A ep \in DOMAIN snap.entrypoints : ToSet(snap.entrypoints[ep]) \subseteq References(snap)
<1>1. \A ref \in DOMAIN snap.middlewares :
        ref \in References(snap) /\ snap.middlewares[ref].name \in Vias(snap)
      BY DEF References, Vias
<1>2. ASSUME NEW ref \in DOMAIN snap.middlewares PROVE ToSet(snap.middlewares[ref].chain) \subseteq References(snap)
  <2>1. ToSet(snap.middlewares[ref].chain) \subseteq (UNION {ToSet(snap.middlewares[m].chain) : m \in DOMAIN snap.middlewares})
        OBVIOUS
  <2> QED BY <2>1 DEF References
<1>3. ASSUME NEW r \in ToSet(snap.routers) PROVE ToSet(r.middlewares) \subseteq References(snap)
  <2>1. PICK a, b, c, d : /\ References(snap) = ((a \cup b) \cup c) \cup d
                          /\ c = UNION {ToSet(router.middlewares) : router \in ToSet(snap.routers)}
        BY DEF References
  <2>2. ToSet(r.middlewares) \subseteq c
        BY <2>1
  <2> QED BY <2>1, <2>2
<1>4. ASSUME NEW ep \in DOMAIN snap.entrypoints PROVE ToSet(snap.entrypoints[ep]) \subseteq References(snap)
  <2>1. PICK a, b, c, d : /\ References(snap) = ((a \cup b) \cup c) \cup d
                          /\ d = UNION {ToSet(snap.entrypoints[e]) : e \in DOMAIN snap.entrypoints}
        BY DEF References
  <2>2. ToSet(snap.entrypoints[ep]) \subseteq d
        BY <2>1
  <2> QED BY <2>1, <2>2
<1> QED BY <1>1, <1>2, <1>3, <1>4

LEMMA EntryFits ==
    ASSUME NEW snap, NEW attached \in BOOLEAN, NEW via \in Vias(snap)
    PROVE  /\ \A ref \in References(snap) : \A e \in {"undefined", "deeper"} :
                Entry(attached, via, ref, "", NoAddress, e) \in Entries(snap)
           /\ \A ref \in DOMAIN snap.middlewares : \A m : m = snap.middlewares[ref] =>
                Entry(attached, via, m.name, m.type, m.address, m.error) \in Entries(snap)
BY DEF Entry, Entries

\* What is found later is added to what was found before, and nothing of that is lost.
LEMMA OpensOn ==
    ASSUME NEW snap, NEW T, NEW a \in Seq(T), NEW b \in Seq(T), NEW was, NEW mid, NEW end,
           Opens(snap, was, a, mid), Opens(snap, mid, b, end)
    PROVE  Opens(snap, was, a \o b, end)
<1>1. a \o b \in Seq(T) /\ \A x : x \in ToSet(a \o b) <=> x \in ToSet(a) \/ x \in ToSet(b)
      BY JoinMembers
<1>2. was \subseteq end
      BY DEF Opens
<1>3. Deeper(a) \/ Deeper(b) => Deeper(a \o b)
      BY <1>1 DEF Deeper
<1>4. ASSUME ~Deeper(a), ~Deeper(b), NEW x \in end \ was, x \in DOMAIN snap.middlewares
      PROVE  Shown(snap, x, a \o b, end)
  <2>1. CASE x \in mid
    <3>1. Shown(snap, x, a, mid)
          BY <1>4, <2>1 DEF Opens
    <3>2. mid \subseteq end
          BY DEF Opens
    <3> QED BY <1>1, <3>1, <3>2 DEF Shown
  <2>2. CASE x \notin mid
    <3>1. Shown(snap, x, b, end)
          BY <1>4, <2>2 DEF Opens
    <3> QED BY <1>1, <3>1 DEF Shown
  <2> QED BY <2>1, <2>2
<1> QED BY <1>2, <1>3, <1>4 DEF Opens

LEMMA GatherOpens ==
    ASSUME NEW snap, NEW step, Opening(snap, step), NEW list, IsList(list), ToSet(list) \subseteq References(snap),
           NEW seen \in SUBSET References(snap)
    PROVE  /\ Gather(step, list, seen) \in Turns(snap)
           /\ Opens(snap, seen, Gather(step, list, seen).found, Gather(step, list, seen).seen)
           /\ \/ Deeper(Gather(step, list, seen).found)
              \/ ToSet(list) \subseteq Gather(step, list, seen).seen \cup {""}
<1>1. PICK F : F = Entries(snap)
      OBVIOUS
<1>2. PICK R : R = References(snap)
      OBVIOUS
<1>3. PICK S : S = SUBSET R
      OBVIOUS
<1>4. Finds(F, S, R, step)
      BY <1>1, <1>2, <1>3 DEF Opening, Finds, Turns
<1>5. list \in Seq(R) /\ Len(list) \in Nat /\ DOMAIN list = 1..Len(list)
      BY <1>2, Lists1
<1>6. PICK found, by : Gathers(F, S, step, list, seen, found, by)
      BY <1>2, <1>3, <1>4, <1>5, GatherByStep
<1>7. PICK n \in Nat : n = Len(list)
      BY <1>5
<1>8. /\ found \in [0..n -> Seq(F)] /\ by \in [0..n -> S] /\ found[0] = <<>> /\ by[0] = seen
      /\ \A i \in 1..n : /\ found[i] = found[i - 1] \o step[list[i]][by[i - 1]].found
                         /\ by[i] = step[list[i]][by[i - 1]].seen
      /\ Gather(step, list, seen) = [found |-> found[n], seen |-> by[n]]
      BY <1>6, <1>7 DEF Gathers
<1> DEFINE Good(i) == /\ Opens(snap, seen, found[i], by[i])
                      /\ Deeper(found[i]) \/ \A j \in 1..i : list[j] \in by[i] \cup {""}
           Q == {i \in Nat : i \in 0..n => Good(i)}
<1>9. 0 \in Q
  <2>1. Opens(snap, seen, found[0], by[0])
        BY <1>8 DEF Opens
  <2>2. 1..0 = {}
        OBVIOUS
  <2>3. Good(0)
        BY <2>1, <2>2
  <2> HIDE DEF Good
  <2> QED BY <2>3
<1> HIDE DEF Q, Good
<1>10. ASSUME NEW i \in Nat, Good(i), i + 1 \in 0..n PROVE Good(i + 1)
  <2>1. i \in 0..n /\ i + 1 \in 1..n /\ (i + 1) - 1 = i
        BY <1>10
  <2>2. Good(i)
        BY <1>10
  <2>3. PICK x \in R : x = list[i + 1]
        BY <1>5, <1>7, <2>1
  <2>4. PICK was \in S : was = by[i]
        BY <1>8, <2>1
  <2>5. PICK more, end : more = step[x][was].found /\ end = step[x][was].seen
        OBVIOUS
  <2>6. /\ more \in Seq(F) /\ Opens(snap, was, more, end)
        /\ Deeper(more) \/ x \in end \cup {""}
        BY <1>1, <1>2, <1>3, <2>5 DEF Opening, Turns
  <2>7. PICK before \in Seq(F) : before = found[i]
        BY <1>8, <2>1
  <2>8. found[i + 1] = before \o more /\ by[i + 1] = end
        BY <1>8, <2>1, <2>3, <2>4, <2>5, <2>7
  <2>9. Opens(snap, seen, before, was)
        BY <2>2, <2>4, <2>7 DEF Good
  <2>10. Opens(snap, seen, found[i + 1], by[i + 1])
         BY <2>6, <2>8, <2>9, OpensOn
  <2>11. was \subseteq end
         BY <2>6 DEF Opens
  <2>12. Deeper(before) \/ Deeper(more) => Deeper(found[i + 1])
    <3>1. \A y : y \in ToSet(before \o more) <=> y \in ToSet(before) \/ y \in ToSet(more)
          BY <2>6, JoinMembers
    <3> QED BY <2>8, <3>1 DEF Deeper
  <2>13. ASSUME ~Deeper(before), ~Deeper(more), NEW j \in 1..(i + 1) PROVE list[j] \in by[i + 1] \cup {""}
    <3>1. CASE j = i + 1
          BY <2>3, <2>6, <2>8, <2>13, <3>1
    <3>2. CASE j # i + 1
      <4>1. j \in 1..i
            BY <3>2
      <4>2. list[j] \in was \cup {""}
            BY <2>2, <2>4, <2>7, <2>13, <4>1 DEF Good
      <4> QED BY <2>8, <2>11, <4>2
    <3> QED BY <3>1, <3>2
  <2> QED BY <2>10, <2>12, <2>13 DEF Good
<1>11. Good(n)
  <2>1. n \in 0..n
        OBVIOUS
  <2>2. Nat \subseteq Q
    <3>1. ASSUME NEW i \in Nat, i \in Q PROVE i + 1 \in Q
      <4>1. i + 1 \in 0..n => i \in 0..n
            OBVIOUS
      <4>2. i + 1 \in 0..n => Good(i + 1)
            BY <1>10, <3>1, <4>1 DEF Q
      <4> QED BY <4>2 DEF Q
    <3> QED BY <1>9, <3>1, SetInduction
  <2> QED BY <2>1, <2>2 DEF Q
<1>12. found[n] \in Seq(F) /\ by[n] \in S
       BY <1>8
<1>13. \A x \in ToSet(list) : \E j \in 1..n : list[j] = x
       BY <1>5, <1>7, Lists1
<1>14. PICK got : got = Gather(step, list, seen)
       OBVIOUS
<1>15. got.found = found[n] /\ got.seen = by[n] /\ got \in [found : Seq(F), seen : S]
       BY <1>8, <1>12, <1>14
<1>16. Opens(snap, seen, got.found, got.seen) /\ (Deeper(got.found) \/ ToSet(list) \subseteq got.seen \cup {""})
       BY <1>11, <1>13, <1>15 DEF Good
<1> QED BY <1>1, <1>2, <1>3, <1>14, <1>15, <1>16 DEF Turns

LEMMA VisitOpens ==
    ASSUME NEW snap, SoundSnapshot(snap), NEW attached \in BOOLEAN, NEW inner,
           \A via \in Vias(snap) : Opening(snap, inner[via]),
           NEW via \in Vias(snap), NEW ref \in References(snap), NEW seen \in SUBSET References(snap), NEW got,
           got = Visit(snap, attached, inner, via, ref, seen)
    PROVE  got \in Turns(snap) /\ Opens(snap, seen, got.found, got.seen) /\ ref \in got.seen
<1>1. PICK F : F = Entries(snap)
      OBVIOUS
<1>2. CASE ref \in seen
  <2>1. got = [found |-> <<>>, seen |-> seen]
        BY <1>2 DEF Visit
  <2> QED BY <1>2, <2>1 DEF Turns, Opens
<1>3. CASE ref \notin seen /\ ref \notin DOMAIN snap.middlewares
  <2>1. PICK e \in F : e = Entry(attached, via, ref, "", NoAddress, "undefined")
        BY <1>1, EntryFits
  <2>2. got = [found |-> <<e>>, seen |-> seen \cup {ref}]
        BY <1>3, <2>1 DEF Visit
  <2>3. <<e>> \in Seq(F) /\ seen \cup {ref} \in SUBSET References(snap)
        OBVIOUS
  <2> QED BY <1>1, <1>3, <2>2, <2>3 DEF Turns, Opens
<1>4. CASE ref \notin seen /\ ref \in DOMAIN snap.middlewares
  <2>1. PICK def : def = snap.middlewares[ref]
        OBVIOUS
  <2>2. PICK e \in F : e = Entry(attached, via, def.name, def.type, def.address, def.error)
        BY <1>1, <1>4, <2>1, EntryFits
  <2>3. PICK was \in SUBSET References(snap) : was = seen \cup {ref}
        OBVIOUS
  <2>4. PICK step : step = inner[def.name]
        OBVIOUS
  <2>5. Opening(snap, step) /\ IsList(def.chain) /\ ToSet(def.chain) \subseteq References(snap)
        BY <1>4, <2>1, <2>4, ReferencesLead DEF SoundSnapshot
  <2>6. PICK list : list = def.chain
        OBVIOUS
  <2>7. PICK more : more = Gather(step, list, was)
        OBVIOUS
  <2>8. /\ more \in Turns(snap) /\ Opens(snap, was, more.found, more.seen)
        /\ Deeper(more.found) \/ ToSet(list) \subseteq more.seen \cup {""}
        BY <2>5, <2>6, <2>7, GatherOpens
  <2>9. got = [found |-> <<e>> \o more.found, seen |-> more.seen]
        BY <1>4, <2>1, <2>2, <2>3, <2>4, <2>6, <2>7 DEF Visit
  <2>10. more.found \in Seq(F) /\ <<e>> \in Seq(F) /\ ToSet(<<e>>) = {e}
         BY <1>1, <2>8, OneIsAList DEF Turns
  <2>11. PICK all \in Seq(F) : all = <<e>> \o more.found
         BY <2>10, JoinMembers
  <2>12. \A x : x \in ToSet(all) <=> x = e \/ x \in ToSet(more.found)
         BY <2>10, <2>11, JoinMembers
  <2>13. was \subseteq more.seen
         BY <2>8 DEF Opens
  <2>14. ASSUME ~Deeper(all), NEW x \in more.seen \ seen, x \in DOMAIN snap.middlewares
         PROVE  Shown(snap, x, all, more.seen)
    <3>1. ~Deeper(more.found)
          BY <2>12, <2>14 DEF Deeper
    <3>2. CASE x = ref
      <4>1. e.type = def.type
            BY <2>2 DEF Entry
      <4> QED BY <2>1, <2>6, <2>8, <2>12, <3>1, <3>2, <4>1 DEF Shown
    <3>3. CASE x # ref
      <4>1. x \in more.seen \ was
            BY <2>3, <2>14, <3>3
      <4>2. Shown(snap, x, more.found, more.seen)
            BY <2>8, <2>14, <3>1, <4>1 DEF Opens
      <4> QED BY <2>12, <4>2 DEF Shown
    <3> QED BY <3>2, <3>3
  <2>15. got.found = all /\ got.seen = more.seen
         BY <2>9, <2>11
  <2>16. Opens(snap, seen, all, more.seen)
         BY <2>3, <2>13, <2>14 DEF Opens
  <2>17. got \in Turns(snap)
    <3>1. more.seen \in SUBSET References(snap)
          BY <2>8 DEF Turns
    <3>2. got = [found |-> all, seen |-> more.seen]
          BY <2>9, <2>11
    <3> QED BY <1>1, <3>1, <3>2 DEF Turns
  <2> QED BY <2>3, <2>13, <2>15, <2>16, <2>17
<1> QED BY <1>2, <1>3, <1>4

LEMMA NothingOpens ==
    ASSUME NEW snap, NEW seen \in SUBSET References(snap), NEW got, got = [found |-> <<>>, seen |-> seen]
    PROVE  got \in Turns(snap) /\ got.seen = seen /\ Opens(snap, seen, got.found, got.seen)
<1>1. PICK F : F = Entries(snap)
      OBVIOUS
<1>2. <<>> \in Seq(F)
      OBVIOUS
<1>3. Opens(snap, seen, <<>>, seen)
      BY DEF Opens
<1> QED BY <1>1, <1>2, <1>3 DEF Turns

LEMMA EndOpens ==
    ASSUME NEW snap, NEW attached \in BOOLEAN, NEW via \in Vias(snap), NEW ref \in References(snap),
           NEW seen \in SUBSET References(snap), NEW list, list = <<Entry(attached, via, ref, "", NoAddress, "deeper")>>,
           NEW got, got = [found |-> list, seen |-> seen]
    PROVE  got \in Turns(snap) /\ Opens(snap, seen, got.found, got.seen) /\ Deeper(got.found)
<1>1. PICK F : F = Entries(snap)
      OBVIOUS
<1>2. PICK e \in F : e = Entry(attached, via, ref, "", NoAddress, "deeper")
      BY <1>1, EntryFits
<1>3. list = <<e>>
      BY <1>2
<1>4. list \in Seq(F) /\ e \in ToSet(list)
  <2>1. <<e>> \in Seq(F) /\ ToSet(<<e>>) = {e}
        BY OneIsAList
  <2> QED BY <1>3, <2>1
<1>5. e.error = "deeper"
      BY <1>2 DEF Entry
<1>6. Deeper(list)
      BY <1>4, <1>5 DEF Deeper
<1>7. Opens(snap, seen, list, seen)
      BY <1>6 DEF Opens
<1> QED BY <1>1, <1>4, <1>6, <1>7 DEF Turns

LEMMA ExpandOpens ==
    ASSUME NEW snap, SoundSnapshot(snap), NEW attached \in BOOLEAN
    PROVE  Opening(snap, Expand(snap, attached)[""])
<1>1. PICK R : R = References(snap)
      OBVIOUS
<1>2. PICK S : S = SUBSET R
      OBVIOUS
<1>3. PICK N : N = Vias(snap)
      OBVIOUS
<1>4. PICK V : V = Turns(snap)
      OBVIOUS
<1> DEFINE Fine(ref, seen, got) == got \in Turns(snap) /\ Opens(snap, seen, got.found, got.seen)
                                   /\ (Deeper(got.found) \/ ref \in got.seen \cup {""})
<1>5. PICK D : D = {v \in [N -> [R -> [S -> V]]] : \A via \in N : Opening(snap, v[via])}
      OBVIOUS
<1> DEFINE AtTurn(via, ref, seen) == IF ref = "" THEN [found |-> <<>>, seen |-> seen]
                ELSE [found |-> <<Entry(attached, via, ref, "", NoAddress, "deeper")>>, seen |-> seen]
           Up(v, via, ref, seen) == IF ref = "" THEN [found |-> <<>>, seen |-> seen]
                                    ELSE Visit(snap, attached, v, via, ref, seen)
<1>6. ASSUME NEW via \in N, NEW ref \in R, NEW seen \in S PROVE Fine(ref, seen, AtTurn(via, ref, seen))
  <2>1. PICK got : got = AtTurn(via, ref, seen)
        OBVIOUS
  <2>2. CASE ref = ""
    <3>1. got = [found |-> <<>>, seen |-> seen]
          BY <2>1, <2>2
    <3>2. got \in Turns(snap) /\ got.seen = seen /\ Opens(snap, seen, got.found, got.seen)
          BY <1>1, <1>2, <3>1, NothingOpens
    <3> HIDE DEF AtTurn
    <3> QED BY <2>1, <2>2, <3>2
  <2>3. CASE ref # ""
    <3>1. PICK list : list = <<Entry(attached, via, ref, "", NoAddress, "deeper")>>
          OBVIOUS
    <3>2. got = [found |-> list, seen |-> seen]
          BY <2>1, <2>3, <3>1
    <3>3. got \in Turns(snap) /\ Opens(snap, seen, got.found, got.seen) /\ Deeper(got.found)
          BY <1>1, <1>2, <1>3, <3>1, <3>2, EndOpens
    <3> HIDE DEF AtTurn
    <3> QED BY <2>1, <3>3
  <2> QED BY <2>2, <2>3
<1>7. ASSUME NEW v \in D, NEW via \in N, NEW ref \in R, NEW seen \in S PROVE Fine(ref, seen, Up(v, via, ref, seen))
  <2>1. CASE ref = ""
    <3>1. Up(v, via, ref, seen) = [found |-> <<>>, seen |-> seen]
          BY <2>1
    <3> HIDE DEF Up
    <3>2. PICK got : got = Up(v, via, ref, seen)
          OBVIOUS
    <3>3. got \in Turns(snap) /\ got.seen = seen /\ Opens(snap, seen, got.found, got.seen)
          BY <1>1, <1>2, <3>1, <3>2, NothingOpens
    <3> QED BY <2>1, <3>2, <3>3
  <2>2. CASE ref # ""
    <3>1. Up(v, via, ref, seen) = Visit(snap, attached, v, via, ref, seen)
          BY <2>2
    <3>2. \A x \in Vias(snap) : Opening(snap, v[x])
          BY <1>3, <1>5
    <3> HIDE DEF Up
    <3> QED BY <1>1, <1>2, <1>3, <3>1, <3>2, VisitOpens
  <2> QED BY <2>1, <2>2
<1>8. ASSUME NEW f, f \in [N -> [R -> [S -> V]]],
             \A via \in N : \A ref \in R : \A seen \in S : Fine(ref, seen, f[via][ref][seen])
      PROVE  f \in D
  <2>1. \A via \in N : Opening(snap, f[via])
        BY <1>1, <1>2, <1>8 DEF Opening
  <2> QED BY <1>5, <1>8, <2>1
<1>9. PICK v0 : v0 = [via \in N |-> [ref \in R |-> [seen \in S |-> AtTurn(via, ref, seen)]]]
      OBVIOUS
<1>10. v0 \in D
  <2>1. \A via \in N : \A ref \in R : \A seen \in S : AtTurn(via, ref, seen) \in V
        BY <1>4, <1>6
  <2> HIDE DEF AtTurn
  <2>2. v0 \in [N -> [R -> [S -> V]]]
        BY <1>9, <2>1
  <2>3. \A via \in N : \A ref \in R : \A seen \in S : v0[via][ref][seen] = AtTurn(via, ref, seen)
        BY <1>9
  <2> HIDE DEF Fine
  <2> QED BY <1>6, <1>8, <2>2, <2>3
<1> DEFINE Raised(v) == [via \in N |-> [ref \in R |-> [seen \in S |-> Up(v, via, ref, seen)]]]
<1>11. ASSUME NEW v \in D PROVE Raised(v) \in D
  <2>1. \A via \in N : \A ref \in R : \A seen \in S : Up(v, via, ref, seen) \in V
        BY <1>4, <1>7
  <2> HIDE DEF Up
  <2>2. Raised(v) \in [N -> [R -> [S -> V]]]
        BY <2>1
  <2>3. \A via \in N : \A ref \in R : \A seen \in S : Raised(v)[via][ref][seen] = Up(v, via, ref, seen)
        OBVIOUS
  <2> HIDE DEF Fine, Raised
  <2> QED BY <1>7, <1>8, <2>2, <2>3
<1>12. PICK next : next = [v \in D |-> Raised(v)]
       OBVIOUS
<1>13. next \in [D -> D]
  <2> HIDE DEF Raised
  <2> QED BY <1>11, <1>12
<1> DEFINE Level(g, left) == [via \in Vias(snap) |-> [ref \in References(snap) |-> [seen \in SUBSET References(snap) |->
                IF ref = "" THEN [found |-> <<>>, seen |-> seen]
                ELSE IF left = 0
                  THEN [found |-> <<Entry(attached, via, ref, "", NoAddress, "deeper")>>, seen |-> seen]
                ELSE Visit(snap, attached, g[left - 1], via, ref, seen)]]]
           Reads(g) == g = [left \in 0..5 |-> Level(g, left)]
<1>14. ASSUME NEW g PROVE Level(g, 0) = v0
       BY <1>1, <1>2, <1>3, <1>9
<1>15. ASSUME NEW g, NEW left \in 1..5, g[left - 1] \in D PROVE Level(g, left) = next[g[left - 1]]
  <2>1. PICK v \in D : v = g[left - 1]
        BY <1>15
  <2>2. left # 0
        OBVIOUS
  <2>3. Level(g, left) = Raised(v)
        BY <1>1, <1>2, <1>3, <2>1, <2>2
  <2> HIDE DEF Level, Raised
  <2> QED BY <1>12, <2>1, <2>3
<1>16. \E g : Reads(g)
  <2>1. 5 \in Nat
        OBVIOUS
  <2>2. PICK g \in [0..5 -> D] : g[0] = v0 /\ \A i \in 1..5 : g[i] = next[g[i - 1]]
    <3>1. \E g : Levels(D, v0, next, 5, g)
          BY <1>10, <1>13, <2>1, LevelsExist
    <3> QED BY <3>1 DEF Levels
  <2>3. ASSUME NEW left \in 0..5 PROVE g[left] = Level(g, left)
    <3>1. CASE left = 0
      <4> HIDE DEF Level
      <4> QED BY <1>14, <2>2, <3>1
    <3>2. CASE left # 0
      <4>1. left \in 1..5 /\ left - 1 \in 0..5
            BY <3>2
      <4>2. g[left - 1] \in D
            BY <2>2, <4>1
      <4> HIDE DEF Level
      <4> QED BY <1>15, <2>2, <4>1, <4>2
    <3> QED BY <3>1, <3>2
  <2>4. g = [left \in 0..5 |-> g[left]]
        BY <2>2
  <2>5. Reads(g)
    <3> HIDE DEF Level
    <3> QED BY <2>3, <2>4
  <2> QED BY <2>5
<1>17. PICK g : g = CHOOSE h : Reads(h)
       OBVIOUS
<1>18. Reads(g)
  <2> HIDE DEF Reads
  <2> QED BY <1>16, <1>17
<1>19. Expand(snap, attached) = g[5]
       BY <1>17 DEF Expand, ChainDepth, Vias
<1>20. \A left \in 0..5 : g[left] = Level(g, left)
  <2> HIDE DEF Level
  <2> QED BY <1>18
<1>21. g[0] = v0
  <2> HIDE DEF Level
  <2> QED BY <1>14, <1>20
<1>22. ASSUME NEW i \in 1..5, g[i - 1] \in D PROVE g[i] = next[g[i - 1]]
  <2> HIDE DEF Level
  <2> QED BY <1>15, <1>20, <1>22
<1>23. g[5] \in D
  <2>1. 5 \in Nat /\ 5 \in 0..5
        OBVIOUS
  <2> HIDE DEF Level, Reads
  <2> QED BY <1>10, <1>13, <1>21, <1>22, <2>1, LevelsFit
<1>24. "" \in N
       BY <1>3 DEF Vias
<1> QED BY <1>5, <1>19, <1>23, <1>24

\* A router's whole chain: a list, and every reference it starts from was followed, or one was not.
Starts(snap, r) ==
    ToSet(r.middlewares) \cup (UNION {ToSet(snap.entrypoints[ep]) : ep \in ToSet(r.entryPoints) \cap DOMAIN snap.entrypoints})
LEMMA ChainOpens ==
    ASSUME NEW snap, SoundSnapshot(snap), NEW r \in ToSet(snap.routers), NEW chain, chain = ChainOf(snap, r)
    PROVE  /\ chain \in Seq(Entries(snap))
           /\ snap.entrypointsRead => \E seen \in SUBSET References(snap) :
                /\ Opens(snap, {}, chain, seen)
                /\ Deeper(chain) \/ Starts(snap, r) \subseteq seen \cup {""}
<1>1. PICK F : F = Entries(snap)
      OBVIOUS
<1>2. PICK R : R = References(snap)
      OBVIOUS
<1>3. PICK mws : mws = r.middlewares
      OBVIOUS
<1>4. IsList(mws) /\ ToSet(mws) \subseteq R /\ IsList(r.entryPoints)
      BY <1>2, <1>3, ReferencesLead DEF SoundSnapshot
<1>5. PICK inside, outside : inside = Expand(snap, FALSE)[""] /\ outside = Expand(snap, TRUE)[""]
      OBVIOUS
<1>6. Opening(snap, inside) /\ Opening(snap, outside)
      BY <1>5, ExpandOpens
<1>7. PICK own : own = Gather(inside, mws, {})
      OBVIOUS
<1>8. /\ own.found \in Seq(F) /\ own.seen \in SUBSET R /\ Opens(snap, {}, own.found, own.seen)
      /\ Deeper(own.found) \/ ToSet(mws) \subseteq own.seen \cup {""}
  <2>1. {} \in SUBSET References(snap)
        OBVIOUS
  <2>2. /\ own \in Turns(snap) /\ Opens(snap, {}, own.found, own.seen)
        /\ Deeper(own.found) \/ ToSet(mws) \subseteq own.seen \cup {""}
        BY <1>2, <1>4, <1>6, <1>7, <2>1, GatherOpens
  <2> QED BY <1>1, <1>2, <2>2 DEF Turns
<1>9. PICK eps : eps = r.entryPoints
      OBVIOUS
<1>10. PICK n \in Nat : DOMAIN eps = 1..n /\ \A i \in 1..n : eps[i] \in ToSet(eps)
       BY <1>4, <1>9, Lists1
<1>11. PICK lists : lists = [i \in DOMAIN eps |-> IF eps[i] \in DOMAIN snap.entrypoints THEN snap.entrypoints[eps[i]] ELSE <<>>]
       OBVIOUS
<1>12. DOMAIN lists = 1..n /\ lists = [i \in 1..n |-> lists[i]]
       /\ \A i \in 1..n : lists[i] = IF eps[i] \in DOMAIN snap.entrypoints THEN snap.entrypoints[eps[i]] ELSE <<>>
       BY <1>10, <1>11
<1>13. \A i \in 1..n : IsList(lists[i]) /\ ToSet(lists[i]) \subseteq R
  <2>1. <<>> \in Seq({}) /\ ToSet(<<>>) = {}
        BY DEF ToSet
  <2>2. IsList(<<>>) /\ ToSet(<<>>) = {}
        BY <2>1, SeqIsList
  <2>3. \A ep \in DOMAIN snap.entrypoints : IsList(snap.entrypoints[ep]) /\ ToSet(snap.entrypoints[ep]) \subseteq R
        BY <1>2, ReferencesLead DEF SoundSnapshot
  <2> QED BY <1>12, <2>2, <2>3
<1>14. PICK attached : attached = FlattenSeq(lists)
       OBVIOUS
<1>15. IsList(attached) /\ \A x : x \in ToSet(attached) <=> \E i \in 1..n : x \in ToSet(lists[i])
       BY <1>12, <1>13, <1>14, FlattenLists
<1>16. ToSet(attached) \subseteq R
       BY <1>13, <1>15
<1>17. PICK more : more = Gather(outside, attached, own.seen)
       OBVIOUS
<1>18. /\ more.found \in Seq(F) /\ more.seen \in SUBSET R /\ Opens(snap, own.seen, more.found, more.seen)
       /\ Deeper(more.found) \/ ToSet(attached) \subseteq more.seen \cup {""}
  <2>1. /\ more \in Turns(snap) /\ Opens(snap, own.seen, more.found, more.seen)
        /\ Deeper(more.found) \/ ToSet(attached) \subseteq more.seen \cup {""}
        BY <1>2, <1>6, <1>8, <1>15, <1>16, <1>17, GatherOpens
  <2> QED BY <1>1, <1>2, <2>1 DEF Turns
<1>19. chain = IF ~snap.entrypointsRead THEN own.found ELSE own.found \o more.found
       BY <1>3, <1>5, <1>7, <1>9, <1>11, <1>14, <1>17 DEF ChainOf
<1>20. PICK a \in Seq(F), b \in Seq(F) : a = own.found /\ b = more.found
       BY <1>8, <1>18
<1>21. a \o b \in Seq(F) /\ \A x : x \in ToSet(a \o b) <=> x \in ToSet(a) \/ x \in ToSet(b)
       BY JoinMembers
<1>22. ASSUME snap.entrypointsRead
       PROVE  Opens(snap, {}, chain, more.seen) /\ (Deeper(chain) \/ Starts(snap, r) \subseteq more.seen \cup {""})
  <2>1. chain = a \o b
        BY <1>19, <1>20, <1>22
  <2>2. Opens(snap, {}, a \o b, more.seen)
        BY <1>8, <1>18, <1>20, OpensOn
  <2>3. Deeper(a) \/ Deeper(b) => Deeper(a \o b)
        BY <1>21 DEF Deeper
  <2>4. own.seen \subseteq more.seen
        BY <1>18 DEF Opens
  <2>5. ASSUME NEW x \in Starts(snap, r), x \notin ToSet(mws) PROVE x \in ToSet(attached)
    <3>1. PICK ep \in ToSet(eps) \cap DOMAIN snap.entrypoints : x \in ToSet(snap.entrypoints[ep])
          BY <1>3, <1>9, <2>5 DEF Starts
    <3>2. PICK i \in 1..n : eps[i] = ep
          BY <1>4, <1>9, <1>10, Lists1
    <3>3. x \in ToSet(lists[i])
          BY <1>12, <3>1, <3>2
    <3> QED BY <1>15, <3>3
  <2> QED BY <1>8, <1>18, <1>20, <2>1, <2>2, <2>3, <2>4, <2>5
<1>23. chain \in Seq(F)
       BY <1>8, <1>19, <1>20, <1>21
<1> QED BY <1>1, <1>2, <1>18, <1>22, <1>23

\* A middleware's definition has the type of the first of its fields that names one.
LEMMA ParsedFits ==
    ASSUME NEW key, NEW wire, "chain" \in DOMAIN wire.body => IsList(wire.body["chain"]), NEW m, m = ParseMiddleware(key, wire)
    PROVE  /\ IsList(m.chain)
           /\ m.type # "" => m.type \in DOMAIN wire.body /\ m.type \in ToSet(TypeOrder)
           /\ m.type = "chain" => m.chain = wire.body["chain"]
           /\ (\E t \in ToSet(TypeOrder) : t \in DOMAIN wire.body) => m.type # ""
<1>1. /\ DOMAIN TypeOrder = 1..5 /\ \A i \in 1..5 : TypeOrder[i] # "" /\ TypeOrder[i] \in ToSet(TypeOrder)
      /\ \A t \in ToSet(TypeOrder) : \E i \in 1..5 : TypeOrder[i] = t
  <2>1. DOMAIN TypeOrder = 1..5
        BY DEF TypeOrder
  <2>2. /\ TypeOrder[1] # "" /\ TypeOrder[2] # "" /\ TypeOrder[3] # "" /\ TypeOrder[4] # "" /\ TypeOrder[5] # ""
        BY DEF TypeOrder
  <2>3. \A i \in 1..5 : i = 1 \/ i = 2 \/ i = 3 \/ i = 4 \/ i = 5
        OBVIOUS
  <2> QED BY <2>1, <2>2, <2>3 DEF ToSet
<1>2. PICK types : types = {i \in DOMAIN TypeOrder : TypeOrder[i] \in DOMAIN wire.body}
      OBVIOUS
<1>3. types \subseteq Nat
  <2>1. DOMAIN TypeOrder \subseteq Nat
        BY DEF TypeOrder
  <2> QED BY <1>2, <2>1
<1>4. PICK type : type = IF types = {} THEN "" ELSE TypeOrder[Min(types)]
      OBVIOUS
<1>5. m.type = type /\ m.chain = IF type = "chain" THEN wire.body[type] ELSE <<>>
      BY <1>2, <1>4 DEF ParseMiddleware
<1>6. type # "" => type \in DOMAIN wire.body /\ type \in ToSet(TypeOrder)
  <2>1. CASE types = {}
        BY <1>4, <2>1
  <2>2. CASE types # {}
    <3>1. Min(types) \in types
          BY <1>3, <2>2, LeastIsThere
    <3> QED BY <1>1, <1>2, <1>4, <2>2, <3>1
  <2> QED BY <2>1, <2>2
<1>7. ASSUME NEW t \in ToSet(TypeOrder), t \in DOMAIN wire.body PROVE type # ""
  <2>1. types # {}
        BY <1>1, <1>2, <1>7
  <2>2. Min(types) \in types
        BY <1>3, <2>1, LeastIsThere
  <2> QED BY <1>1, <1>2, <1>4, <2>1, <2>2
<1>8. IsList(m.chain)
  <2>1. <<>> \in Seq({})
        OBVIOUS
  <2>2. IsList(<<>>)
        BY <2>1, SeqIsList
  <2> QED BY <1>5, <1>6, <2>2
<1> QED BY <1>5, <1>6, <1>7, <1>8

LEMMA AbsorbFits ==
    ASSUME NEW wire, \A ref \in DOMAIN wire : "chain" \in DOMAIN wire[ref].body => IsList(wire[ref].body["chain"])
    PROVE  /\ \A ref \in DOMAIN AbsorbMiddlewares(wire) : IsList(AbsorbMiddlewares(wire)[ref].chain)
           /\ \A ref \in DOMAIN wire : ref \in DOMAIN AbsorbMiddlewares(wire)
                                       /\ AbsorbMiddlewares(wire)[ref] = ParseMiddleware(ref, wire[ref])
<1>1. PICK def : def = [key \in DOMAIN wire |-> ParseMiddleware(key, wire[key])]
      OBVIOUS
<1>2. PICK aliases : aliases = {def[key].name : key \in DOMAIN wire}
      OBVIOUS
<1>3. PICK all : all = [ref \in DOMAIN wire \cup aliases |->
            IF ref \in DOMAIN wire THEN def[ref] ELSE def[CHOOSE key \in DOMAIN wire : def[key].name = ref]]
      OBVIOUS
<1>4. AbsorbMiddlewares(wire) = all
      BY <1>1, <1>2, <1>3 DEF AbsorbMiddlewares
<1>5. ASSUME NEW key \in DOMAIN wire PROVE IsList(def[key].chain) /\ def[key] = ParseMiddleware(key, wire[key])
  <2>1. PICK one : one = wire[key]
        OBVIOUS
  <2>2. PICK m : m = ParseMiddleware(key, one)
        OBVIOUS
  <2>3. IsList(m.chain)
        BY <2>1, <2>2, ParsedFits
  <2> QED BY <1>1, <2>1, <2>2, <2>3
<1>6. ASSUME NEW ref \in DOMAIN wire \cup aliases PROVE \E key \in DOMAIN wire : all[ref] = def[key]
  <2>1. CASE ref \in DOMAIN wire
        BY <1>3, <2>1
  <2>2. CASE ref \notin DOMAIN wire
    <3>1. \E key \in DOMAIN wire : def[key].name = ref
          BY <1>2, <2>2
    <3>2. PICK key : key = CHOOSE k \in DOMAIN wire : def[k].name = ref
          OBVIOUS
    <3>3. key \in DOMAIN wire
          BY <3>1, <3>2
    <3>4. all[ref] = def[key]
          BY <1>3, <2>2, <3>2
    <3> QED BY <3>3, <3>4
  <2> QED BY <2>1, <2>2
<1>7. DOMAIN all = DOMAIN wire \cup aliases /\ \A ref \in DOMAIN wire : all[ref] = def[ref]
      BY <1>3
<1> QED BY <1>4, <1>5, <1>6, <1>7

\* What has been read of the proxy, of the world it was read in.
SnapFits(snap, w) ==
    /\ snap.entrypointsRead \in BOOLEAN
    /\ \/ snap = NoSnapshot
       \/ /\ snap.routers = w.table.routers
          /\ snap.middlewares = AbsorbMiddlewares(w.table.middlewares)
          /\ snap.entrypoints = IF snap.entrypointsRead THEN w.entrypoints ELSE <<>>

LEMMA SnapshotIsSound ==
    ASSUME NEW w, SoundWorld(w), NEW snap, SnapFits(snap, w)
    PROVE  /\ SoundSnapshot(snap)
           /\ \A r \in ToSet(snap.routers) : r \in ToSet(w.table.routers)
<1>1. DOMAIN <<>> = {} /\ ToSet(<<>>) = {} /\ <<>> \in Seq({})
      BY DEF ToSet
<1>2. IsList(<<>>)
      BY <1>1, SeqIsList
<1>3. CASE snap = NoSnapshot
  <2>1. snap.routers = <<>> /\ snap.middlewares = <<>> /\ snap.entrypoints = <<>>
        BY <1>3 DEF NoSnapshot
  <2> QED BY <1>1, <1>2, <2>1 DEF SoundSnapshot
<1>4. CASE snap # NoSnapshot
  <2>1. /\ snap.routers = w.table.routers /\ snap.middlewares = AbsorbMiddlewares(w.table.middlewares)
        /\ snap.entrypoints = IF snap.entrypointsRead THEN w.entrypoints ELSE <<>>
        BY <1>4 DEF SnapFits
  <2>2. SoundTable(w.table) /\ \A ep \in DOMAIN w.entrypoints : IsList(w.entrypoints[ep])
        BY DEF SoundWorld
  <2>3. \A ref \in DOMAIN snap.middlewares : IsList(snap.middlewares[ref].chain)
    <3>1. PICK wire : wire = w.table.middlewares
          OBVIOUS
    <3>2. \A ref \in DOMAIN wire : "chain" \in DOMAIN wire[ref].body => IsList(wire[ref].body["chain"])
          BY <2>2, <3>1 DEF SoundTable
    <3>3. \A ref \in DOMAIN AbsorbMiddlewares(wire) : IsList(AbsorbMiddlewares(wire)[ref].chain)
          BY <3>2, AbsorbFits
    <3> QED BY <2>1, <3>1, <3>3
  <2>4. \A ep \in DOMAIN snap.entrypoints : IsList(snap.entrypoints[ep])
        BY <1>1, <2>1, <2>2
  <2>5. IsList(snap.routers) /\ \A r \in ToSet(snap.routers) : IsList(r.middlewares) /\ IsList(r.entryPoints)
        BY <2>1, <2>2 DEF SoundTable
  <2> QED BY <2>1, <2>3, <2>4, <2>5 DEF SoundSnapshot
<1> QED BY <1>3, <1>4

\* A router as it is reported is one of the table's, with its whole chain.
LiveFits(snap, r) == \E raw \in ToSet(snap.routers) :
    r.router = raw.name /\ r.middlewares = ChainOf(snap, raw)
LEMMA ProxyApplied ==
    ASSUME NEW snap, SoundSnapshot(snap), NEW f, NEW live, live = ApplyProxy(snap, f), NEW k \in Keys(f)
    PROVE  IsList(live.byService[k]) /\ \A r \in ToSet(live.byService[k]) : LiveFits(snap, r) /\ IsList(r.middlewares)
<1>1. PICK n \in Nat : DOMAIN snap.routers = 1..n /\ \A i \in 1..n : snap.routers[i] \in ToSet(snap.routers)
      BY Lists1 DEF SoundSnapshot
<1>2. PICK all : all = [i \in DOMAIN snap.routers |-> Live(snap, snap.routers[i])]
      OBVIOUS
<1>3. DOMAIN all = 1..n /\ \A i \in 1..n : all[i] = Live(snap, snap.routers[i])
      BY <1>1, <1>2
<1>4. PICK places : places = [i \in DOMAIN all |-> i]
      OBVIOUS
<1>5. PICK match : match = [i \in DOMAIN all |-> MatchRouter(f, all[i])]
      OBVIOUS
<1> DEFINE here == {i \in DOMAIN all : match[i].key = k}
<1>6. PICK of : of = Picked(places, here)
      OBVIOUS
<1>7. IsList(places) /\ DOMAIN places = 1..n /\ \A i \in 1..n : places[i] = i
  <2>1. DOMAIN places = 1..n /\ places = [i \in 1..n |-> places[i]] /\ \A i \in 1..n : places[i] = i
        BY <1>3, <1>4
  <2> QED BY <2>1, MadeIsList
<1>8. IsList(of) /\ \A x \in ToSet(of) : x \in 1..n
  <2>1. \A x : x \in ToSet(of) <=> \E i \in DOMAIN places : i \in here /\ places[i] = x
        BY <1>6, <1>7, PickedMembers
  <2>2. IsList(of)
        BY <1>6, <1>7, PickedMembers
  <2> QED BY <1>7, <2>1, <2>2
<1>9. PICK mine : mine = live.byService[k]
      OBVIOUS
<1>10. mine = [m \in DOMAIN of |-> all[of[m]]]
  <2> DEFINE Of(z) == Picked(places, {i \in DOMAIN all : match[i].key = z})
  <2>1. live.byService = [z \in Keys(f) |-> [m \in DOMAIN Of(z) |-> all[Of(z)[m]]]]
        BY <1>2, <1>4, <1>5 DEF ApplyProxy
  <2>2. Of(k) = of
        BY <1>6
  <2> HIDE DEF Of
  <2> QED BY <1>9, <2>1, <2>2
<1>11. PICK m \in Nat : DOMAIN of = 1..m /\ \A i \in 1..m : of[i] \in ToSet(of)
       BY <1>8, Lists1
<1>12. DOMAIN mine = 1..m /\ mine = [i \in 1..m |-> mine[i]] /\ \A i \in 1..m : mine[i] = all[of[i]]
       BY <1>10, <1>11
<1>13. ASSUME NEW r \in ToSet(mine) PROVE LiveFits(snap, r) /\ IsList(r.middlewares)
  <2>1. PICK i \in 1..m : r = mine[i]
        BY <1>12 DEF ToSet
  <2>2. of[i] \in 1..n
        BY <1>8, <1>11
  <2>3. PICK raw \in ToSet(snap.routers) : r = Live(snap, raw)
        BY <1>1, <1>3, <1>12, <2>1, <2>2
  <2>4. r.router = raw.name /\ r.middlewares = ChainOf(snap, raw)
        BY <2>3 DEF Live
  <2>5. ChainOf(snap, raw) \in Seq(Entries(snap))
        BY ChainOpens
  <2>6. IsList(r.middlewares)
        BY <2>4, <2>5, SeqIsList
  <2> QED BY <2>4, <2>6 DEF LiveFits
<1> QED BY <1>9, <1>12, <1>13, MadeIsList

-----------------------------------------------------------------------------
(* What a chain proves. *)

LEMMA GatesByType ==
    ASSUME NEW type
    PROVE  /\ AuthMethodOf(type) \in {"forward-auth", "basic-auth", "none"}
           /\ AuthMethodOf(type) # "none" <=> type \in GateTypes
<1>1. PICK a : a = <<type = "forwardauth", "forward-auth">>
      OBVIOUS
<1>2. PICK b : b = <<type \in {"basicauth", "digestauth"}, "basic-auth">>
      OBVIOUS
<1>3. PICK c : c = <<TRUE, "none">>
      OBVIOUS
<1>4. c[1] = TRUE
      BY <1>3
<1>5. AuthMethodOf(type) = FirstHolding(<<a, b, c>>)
      BY <1>1, <1>2, <1>3 DEF AuthMethodOf
<1>6. AuthMethodOf(type) = IF a[1] THEN a[2] ELSE IF b[1] THEN b[2] ELSE c[2]
      BY <1>4, <1>5, FirstOf3
<1>7. AuthMethodOf(type) = IF type = "forwardauth" THEN "forward-auth"
                           ELSE IF type \in {"basicauth", "digestauth"} THEN "basic-auth" ELSE "none"
      BY <1>1, <1>2, <1>3, <1>6
<1> QED BY <1>7 DEF GateTypes

\* A router that leads through a gate.
Guards(r) == Working(r) /\ \E mw \in ToSet(r.middlewares) : AuthMethodOf(mw.type) # "none"
Certain(a) == Weighable(a) /\ a.confidence = "confirmed"

LEMMA GatesOfARouter ==
    ASSUME NEW in, NEW r, IsList(r.middlewares), NEW accounts,
           accounts = [j \in DOMAIN Gates(r) |-> LiveAccount(in, Gates(r)[j])]
    PROVE  /\ IsList(accounts) /\ \A a \in ToSet(accounts) : Certain(a)
           /\ ToSet(accounts) # {} <=> \E mw \in ToSet(r.middlewares) : AuthMethodOf(mw.type) # "none"
<1>1. PICK mws : mws = r.middlewares
      OBVIOUS
<1>2. PICK places : places = {i \in DOMAIN mws : AuthMethodOf(mws[i].type) # "none"}
      OBVIOUS
<1>3. PICK gates : gates = Picked(mws, places)
      OBVIOUS
<1>4. Gates(r) = gates
      BY <1>1, <1>2, <1>3 DEF Gates
<1>5. IsList(gates) /\ \A x : x \in ToSet(gates) <=> \E i \in DOMAIN mws : i \in places /\ mws[i] = x
      BY <1>1, <1>3, PickedMembers
<1>6. PICK n \in Nat : DOMAIN gates = 1..n /\ \A i \in 1..n : gates[i] \in ToSet(gates)
      BY <1>5, Lists1
<1>7. DOMAIN accounts = 1..n /\ accounts = [i \in 1..n |-> accounts[i]] /\ \A i \in 1..n : accounts[i] = LiveAccount(in, gates[i])
      BY <1>4, <1>6
<1>8. \A mw \in ToSet(gates) : AuthMethodOf(mw.type) # "none" /\ mw \in ToSet(mws)
  <2>1. \A i \in DOMAIN mws : mws[i] \in ToSet(mws)
        BY DEF ToSet
  <2> QED BY <1>2, <1>5, <2>1
<1>9. ASSUME NEW mw, AuthMethodOf(mw.type) # "none" PROVE Certain(LiveAccount(in, mw))
  <2>1. AuthMethodOf(mw.type) \in {"forward-auth", "basic-auth"}
        BY <1>9, GatesByType
  <2>2. PICK m : m = IF AuthMethodOf(mw.type) = "forward-auth" /\ Attributed(in, mw.address)
                       THEN "authentik-forward-auth" ELSE AuthMethodOf(mw.type)
        OBVIOUS
  <2>3. m \in Methods
        BY <2>1, <2>2 DEF Methods
  <2>4. PICK a : a = LiveAccount(in, mw)
        OBVIOUS
  <2>5. a.method = m /\ a.confidence = "confirmed" /\ a.live = TRUE
        BY <2>2, <2>4 DEF LiveAccount, Account
  <2> QED BY <2>3, <2>4, <2>5 DEF Certain, Weighable
<1>10. \A a \in ToSet(accounts) : \E i \in 1..n : a = LiveAccount(in, gates[i])
       BY <1>7 DEF ToSet
<1>11. \A a \in ToSet(accounts) : Certain(a)
       BY <1>6, <1>8, <1>9, <1>10
<1>12. ASSUME NEW a \in ToSet(accounts) PROVE \E mw \in ToSet(mws) : AuthMethodOf(mw.type) # "none"
       BY <1>6, <1>8, <1>10
<1>13. ASSUME NEW mw \in ToSet(mws), AuthMethodOf(mw.type) # "none" PROVE ToSet(accounts) # {}
  <2>1. PICK i \in DOMAIN mws : mws[i] = mw
        BY DEF ToSet
  <2>2. mw \in ToSet(gates)
        BY <1>2, <1>5, <1>13, <2>1
  <2>3. PICK j \in DOMAIN gates : gates[j] = mw
        BY <2>2 DEF ToSet
  <2>4. accounts[j] \in ToSet(accounts)
        BY <1>6, <1>7, <2>3 DEF ToSet
  <2> QED BY <2>4
<1>14. IsList(accounts)
       BY <1>7, MadeIsList
<1> QED BY <1>1, <1>11, <1>12, <1>13, <1>14

LEMMA LiveAccountsFit ==
    ASSUME NEW in, NEW working, IsList(working), \A r \in ToSet(working) : IsList(r.middlewares), NEW live,
           live = LiveAccounts(in, working)
    PROVE  /\ IsList(live) /\ \A a \in ToSet(live) : Certain(a)
           /\ ToSet(live) # {} <=> \E r \in ToSet(working) : \E mw \in ToSet(r.middlewares) : AuthMethodOf(mw.type) # "none"
<1>1. PICK n \in Nat : DOMAIN working = 1..n /\ \A i \in 1..n : working[i] \in ToSet(working)
      BY Lists1
<1>2. PICK lists : lists = [i \in DOMAIN working |->
            [j \in DOMAIN Gates(working[i]) |-> LiveAccount(in, Gates(working[i])[j])]]
      OBVIOUS
<1>3. live = FlattenSeq(lists)
      BY <1>2 DEF LiveAccounts
<1>4. DOMAIN lists = 1..n /\ lists = [i \in 1..n |-> lists[i]]
      BY <1>1, <1>2
<1>5. ASSUME NEW i \in 1..n
      PROVE  /\ IsList(lists[i]) /\ \A a \in ToSet(lists[i]) : Certain(a)
             /\ ToSet(lists[i]) # {} <=> \E mw \in ToSet(working[i].middlewares) : AuthMethodOf(mw.type) # "none"
  <2>1. PICK r \in ToSet(working) : r = working[i]
        BY <1>1
  <2>2. PICK accounts : accounts = lists[i]
        OBVIOUS
  <2>3. accounts = [j \in DOMAIN Gates(r) |-> LiveAccount(in, Gates(r)[j])]
        BY <1>1, <1>2, <2>1, <2>2
  <2>4. IsList(r.middlewares)
        OBVIOUS
  <2>5. /\ IsList(accounts) /\ \A a \in ToSet(accounts) : Certain(a)
        /\ ToSet(accounts) # {} <=> \E mw \in ToSet(r.middlewares) : AuthMethodOf(mw.type) # "none"
        BY <2>3, <2>4, GatesOfARouter
  <2> QED BY <2>1, <2>2, <2>5
<1>6. IsList(FlattenSeq(lists)) /\ \A x : x \in ToSet(FlattenSeq(lists)) <=> \E i \in 1..n : x \in ToSet(lists[i])
      BY <1>4, <1>5, FlattenLists
<1>7. \A r \in ToSet(working) : \E i \in 1..n : working[i] = r
      BY <1>1, Lists1
<1>8. \A a \in ToSet(live) : Certain(a)
      BY <1>3, <1>5, <1>6
<1>9. ASSUME ToSet(live) # {} PROVE \E r \in ToSet(working) : \E mw \in ToSet(r.middlewares) : AuthMethodOf(mw.type) # "none"
      BY <1>1, <1>3, <1>5, <1>6, <1>9
<1>10. ASSUME NEW r \in ToSet(working), NEW mw \in ToSet(r.middlewares), AuthMethodOf(mw.type) # "none" PROVE ToSet(live) # {}
  <2>1. PICK i \in 1..n : working[i] = r
        BY <1>7
  <2>2. PICK x : x \in ToSet(lists[i])
        BY <1>5, <1>10, <2>1
  <2> QED BY <1>3, <1>6, <2>2
<1> QED BY <1>3, <1>6, <1>8, <1>9, <1>10

\* What PostureOf makes of the routers: it gives accounts, or takes the labels' place, only where
\* the chain was read to its end.
LEMMA PostureFits ==
    ASSUME NEW in, IsList(in.routers), \A r \in ToSet(in.routers) : IsList(r.middlewares), NEW chain, chain = PostureOf(in)
    PROVE  /\ IsList(chain.accounts) /\ \A a \in ToSet(chain.accounts) : Certain(a)
           /\ ToSet(chain.accounts) # {} => in.chainComplete /\ \E r \in ToSet(in.routers) : Guards(r)
           /\ chain.suppress => /\ in.chainComplete /\ \E r \in ToSet(in.routers) : Working(r)
                                /\ \A r \in ToSet(in.routers) : ~Guards(r)
<1>1. PICK here : here = {i \in DOMAIN in.routers : Working(in.routers[i])}
      OBVIOUS
<1>2. PICK working : working = Picked(in.routers, here)
      OBVIOUS
<1>3. /\ IsList(working) /\ \A x : x \in ToSet(working) <=> \E i \in DOMAIN in.routers : i \in here /\ in.routers[i] = x
      /\ working = <<>> <=> \A i \in DOMAIN in.routers : i \notin here
      BY <1>2, PickedMembers
<1>4. \A r : r \in ToSet(working) <=> r \in ToSet(in.routers) /\ Working(r)
      BY <1>1, <1>3 DEF ToSet
<1>5. PICK live : live = LiveAccounts(in, working)
      OBVIOUS
<1>6. /\ IsList(live) /\ \A a \in ToSet(live) : Certain(a)
      /\ ToSet(live) # {} <=> \E r \in ToSet(working) : \E mw \in ToSet(r.middlewares) : AuthMethodOf(mw.type) # "none"
  <2>1. \A r \in ToSet(working) : IsList(r.middlewares)
        BY <1>4
  <2> QED BY <1>3, <1>5, <2>1, LiveAccountsFit
<1>7. ToSet(live) # {} <=> \E r \in ToSet(in.routers) : Guards(r)
      BY <1>4, <1>6 DEF Guards
<1>8. PICK said : said = {<<"error", r.router>> : r \in {r \in ToSet(in.routers) : ~Working(r)}}
                         \cup {<<"not served", name>> : name \in in.absent}
      OBVIOUS
<1>9. PICK contradicts : contradicts = (Claims(in.labelAccounts) /\ ~Gated(live))
      OBVIOUS
<1> DEFINE posture(accounts, notes, suppress) == [accounts |-> accounts, notes |-> notes, suppress |-> suppress]
           more == said \cup IF contradicts THEN {<<"difference, not settled">>} ELSE {}
           all == said \cup CrossCheck(in, live) \cup IF contradicts THEN {<<"the chain has no gate">>} ELSE {}
<1>10. PICK a : a = <<~in.reachable, posture(<<>>, {}, FALSE)>>
       OBVIOUS
<1>11. PICK b : b = <<~in.chainComplete, posture(<<>>, more, FALSE)>>
       OBVIOUS
<1>12. PICK c : c = <<working = <<>>, posture(<<>>, said, FALSE)>>
       OBVIOUS
<1>13. PICK d : d = <<TRUE, posture(live, all, contradicts)>>
       OBVIOUS
<1>14. d[1] = TRUE
       BY <1>13
<1>15. chain = FirstHolding(<<a, b, c, d>>)
       BY <1>1, <1>2, <1>5, <1>8, <1>9, <1>10, <1>11, <1>12, <1>13 DEF PostureOf
<1>16. chain = IF a[1] THEN a[2] ELSE IF b[1] THEN b[2] ELSE IF c[1] THEN c[2] ELSE d[2]
       BY <1>14, <1>15, FirstOf4
<1> HIDE DEF more, all
<1>17. \/ chain.accounts = <<>> /\ chain.suppress = FALSE
       \/ in.chainComplete /\ working # <<>> /\ chain.accounts = live /\ chain.suppress = contradicts
  <2>1. /\ a[2].accounts = <<>> /\ a[2].suppress = FALSE /\ b[2].accounts = <<>> /\ b[2].suppress = FALSE
        /\ c[2].accounts = <<>> /\ c[2].suppress = FALSE /\ d[2].accounts = live /\ d[2].suppress = contradicts
        BY <1>10, <1>11, <1>12, <1>13
  <2>2. (b[1] <=> ~in.chainComplete) /\ (c[1] <=> working = <<>>)
        BY <1>11, <1>12
  <2>3. chain = a[2] \/ chain = b[2] \/ chain = c[2] \/ (~b[1] /\ ~c[1] /\ chain = d[2])
        BY <1>16
  <2> QED BY <2>1, <2>2, <2>3
<1>18. CASE chain.accounts = <<>> /\ chain.suppress = FALSE
  <2>1. <<>> \in Seq({}) /\ ToSet(<<>>) = {}
        BY DEF ToSet
  <2>2. IsList(<<>>)
        BY <2>1, SeqIsList
  <2> QED BY <1>18, <2>1, <2>2
<1>19. CASE in.chainComplete /\ working # <<>> /\ chain.accounts = live /\ chain.suppress = contradicts
  <2>1. \E r \in ToSet(in.routers) : Working(r)
        BY <1>1, <1>3, <1>19 DEF ToSet
  <2>2. ASSUME contradicts PROVE ToSet(live) = {}
        BY <1>6, <1>9, <2>2 DEF Gated, Certain, Weighable, Detected, Methods
  <2> QED BY <1>6, <1>7, <1>19, <2>1, <2>2
<1> QED BY <1>17, <1>18, <1>19

-----------------------------------------------------------------------------
(* What an application proves. *)

LEMMA MethodsByKind ==
    ASSUME NEW kind
    PROVE  Method(kind) # "none" => Method(kind) \in Methods /\ kind \in {"proxy", "oauth2", "ldap"}
<1>1. PICK a : a = <<kind = "proxy", "authentik-forward-auth">>
      OBVIOUS
<1>2. PICK b : b = <<kind = "oauth2", "authentik-oauth">>
      OBVIOUS
<1>3. PICK c : c = <<kind = "ldap", "authentik-ldap">>
      OBVIOUS
<1>4. PICK d : d = <<TRUE, "none">>
      OBVIOUS
<1>5. d[1] = TRUE
      BY <1>4
<1>6. Method(kind) = FirstHolding(<<a, b, c, d>>)
      BY <1>1, <1>2, <1>3, <1>4 DEF Method
<1>7. Method(kind) = IF a[1] THEN a[2] ELSE IF b[1] THEN b[2] ELSE IF c[1] THEN c[2] ELSE d[2]
      BY <1>5, <1>6, FirstOf4
<1>8. Method(kind) = IF kind = "proxy" THEN "authentik-forward-auth" ELSE IF kind = "oauth2" THEN "authentik-oauth"
                     ELSE IF kind = "ldap" THEN "authentik-ldap" ELSE "none"
      BY <1>1, <1>2, <1>3, <1>4, <1>7
<1> QED BY <1>8 DEF Methods

LEMMA AccountsForFit ==
    ASSUME NEW app, IsList(app.providers), NEW byName, NEW accounts, accounts = AccountsFor(app, byName)
    PROVE  /\ IsList(accounts)
           /\ \A a \in ToSet(accounts) : Weighable(a) /\ a.confidence \in {"observed", "confirmed"}
           /\ \A a \in ToSet(accounts) : a.confidence = "confirmed" => ~byName /\ \E p \in ToSet(app.providers) : Enforced(p)
<1>1. PICK here : here = {i \in DOMAIN app.providers :
                LET p == app.providers[i]
                IN  Method(p.kind) # "none" /\ (NeedsOutpost(p.kind) => p.outposts # {})}
      OBVIOUS
<1>2. PICK standing : standing = Picked(app.providers, here)
      OBVIOUS
<1>3. Standing(app) = standing
      BY <1>1, <1>2 DEF Standing
<1>4. IsList(standing) /\ \A x : x \in ToSet(standing) <=> \E i \in DOMAIN app.providers : i \in here /\ app.providers[i] = x
      BY <1>2, PickedMembers
<1>5. \A p \in ToSet(standing) : /\ p \in ToSet(app.providers) /\ Method(p.kind) # "none"
                                 /\ NeedsOutpost(p.kind) => p.outposts # {}
      BY <1>1, <1>4 DEF ToSet
<1>6. \A p \in ToSet(standing) : Method(p.kind) \in Methods /\ Enforced(p)
      BY <1>5, MethodsByKind DEF Enforced, NeedsOutpost
<1>7. PICK n \in Nat : DOMAIN standing = 1..n /\ \A i \in 1..n : standing[i] \in ToSet(standing)
      BY <1>4, Lists1
<1>8. PICK c : c = IF byName THEN "observed" ELSE "confirmed"
      OBVIOUS
<1>9. accounts = [i \in 1..n |-> Account(Method(standing[i].kind), app.slug, c, standing[i].internal, TRUE)]
      BY <1>3, <1>7, <1>8 DEF AccountsFor
<1>10. DOMAIN accounts = 1..n /\ accounts = [i \in 1..n |-> accounts[i]]
       BY <1>9
<1>11. ASSUME NEW a \in ToSet(accounts)
       PROVE  /\ Weighable(a) /\ a.confidence = c
              /\ \E p \in ToSet(app.providers) : Enforced(p)
  <2>1. PICK i \in 1..n : a = Account(Method(standing[i].kind), app.slug, c, standing[i].internal, TRUE)
        BY <1>9 DEF ToSet
  <2>2. a.method = Method(standing[i].kind) /\ a.confidence = c /\ a.live = TRUE
        BY <2>1 DEF Account
  <2>3. PICK p \in ToSet(standing) : p = standing[i]
        BY <1>7
  <2> QED BY <1>5, <1>6, <1>8, <2>2, <2>3 DEF Weighable
<1>12. IsList(accounts)
       BY <1>10, MadeIsList
<1> QED BY <1>8, <1>11, <1>12

\* An application that more than its name ties to a service, and that stands in its way.
Proves(f, app, k) ==
    LET match == MatchApplication(f, app)
    IN  match.key = k /\ ~ByNameAlone(match) /\ \E p \in ToSet(app.providers) : Enforced(p)

LEMMA IdentityApplied ==
    ASSUME NEW apps, IsList(apps), \A app \in ToSet(apps) : IsList(app.providers), NEW f, NEW k \in Keys(f),
           NEW accounts, accounts = ApplyIdentity(apps, f).accounts[k]
    PROVE  /\ IsList(accounts)
           /\ \A a \in ToSet(accounts) : Weighable(a)
           /\ \A a \in ToSet(accounts) : a.confidence = "confirmed" => \E app \in ToSet(apps) : Proves(f, app, k)
<1>1. PICK n \in Nat : DOMAIN apps = 1..n /\ \A i \in 1..n : apps[i] \in ToSet(apps)
      BY Lists1
<1>2. PICK match : match = [i \in DOMAIN apps |-> MatchApplication(f, apps[i])]
      OBVIOUS
<1>3. PICK places : places = [i \in DOMAIN apps |-> i]
      OBVIOUS
<1> DEFINE Of(z) == Picked(places, {i \in DOMAIN apps : match[i].key = z})
           lists(z) == [m \in DOMAIN Of(z) |-> AccountsFor(apps[Of(z)[m]], ByNameAlone(match[Of(z)[m]]))]
<1>4. PICK of : of = Of(k)
      OBVIOUS
<1>5. PICK mine : mine = [m \in DOMAIN of |-> AccountsFor(apps[of[m]], ByNameAlone(match[of[m]]))]
      OBVIOUS
<1>6. accounts = FlattenSeq(mine)
  <2>1. ApplyIdentity(apps, f).accounts = [z \in Keys(f) |-> FlattenSeq(lists(z))]
        BY <1>2, <1>3 DEF ApplyIdentity
  <2>2. lists(k) = mine
        BY <1>4, <1>5
  <2> HIDE DEF lists
  <2> QED BY <2>1, <2>2
<1>7. IsList(places) /\ DOMAIN places = 1..n /\ \A i \in 1..n : places[i] = i
  <2>1. DOMAIN places = 1..n /\ places = [i \in 1..n |-> places[i]] /\ \A i \in 1..n : places[i] = i
        BY <1>1, <1>3
  <2> QED BY <2>1, MadeIsList
<1>8. IsList(of) /\ \A x \in ToSet(of) : x \in 1..n /\ match[x].key = k
  <2>1. PICK here : here = {i \in DOMAIN apps : match[i].key = k}
        OBVIOUS
  <2>2. of = Picked(places, here)
        BY <1>4, <2>1
  <2>3. IsList(of) /\ \A x : x \in ToSet(of) <=> \E i \in DOMAIN places : i \in here /\ places[i] = x
        BY <1>7, <2>2, PickedMembers
  <2> QED BY <1>7, <2>1, <2>3
<1> HIDE DEF Of, lists
<1>9. PICK m \in Nat : DOMAIN of = 1..m /\ \A i \in 1..m : of[i] \in ToSet(of)
      BY <1>8, Lists1
<1>10. DOMAIN mine = 1..m /\ mine = [i \in 1..m |-> mine[i]]
       BY <1>5, <1>9
<1>11. ASSUME NEW i \in 1..m
       PROVE  /\ IsList(mine[i]) /\ \A a \in ToSet(mine[i]) : Weighable(a)
              /\ \A a \in ToSet(mine[i]) : a.confidence = "confirmed" => \E app \in ToSet(apps) : Proves(f, app, k)
  <2>1. PICK j \in 1..n : j = of[i] /\ match[j].key = k
        BY <1>8, <1>9
  <2>2. PICK app \in ToSet(apps) : app = apps[j]
        BY <1>1
  <2>3. match[j] = MatchApplication(f, app)
        BY <1>1, <1>2, <2>2
  <2>4. PICK one : one = mine[i]
        OBVIOUS
  <2>5. one = AccountsFor(app, ByNameAlone(match[j]))
        BY <1>5, <1>9, <2>1, <2>2, <2>4
  <2>6. IsList(app.providers)
        OBVIOUS
  <2>7. /\ IsList(one)
        /\ \A a \in ToSet(one) : Weighable(a) /\ a.confidence \in {"observed", "confirmed"}
        /\ \A a \in ToSet(one) : a.confidence = "confirmed" =>
                ~ByNameAlone(match[j]) /\ \E p \in ToSet(app.providers) : Enforced(p)
        BY <2>5, <2>6, AccountsForFit
  <2> QED BY <2>1, <2>3, <2>4, <2>7 DEF Proves
<1>12. IsList(FlattenSeq(mine)) /\ \A x : x \in ToSet(FlattenSeq(mine)) <=> \E i \in 1..m : x \in ToSet(mine[i])
       BY <1>10, <1>11, FlattenLists
<1> QED BY <1>6, <1>11, <1>12

\* What is assembled: lists of providers, under the slugs that were listed or recovered.
LEMMA ListedFits ==
    ASSUME NEW app, IsList(app.provider), IsList(app.backchannel), NEW details, NEW outposts
    PROVE  IsList(Listed(app, details, outposts).providers) /\ Listed(app, details, outposts).slug = app.slug
<1>1. ASSUME NEW refs, IsList(refs), NEW back PROVE IsList([i \in DOMAIN refs |-> Referred(refs[i], back, details, outposts)])
  <2>1. PICK n \in Nat : DOMAIN refs = 1..n
        BY <1>1, Lists1
  <2>2. PICK s : s = [i \in DOMAIN refs |-> Referred(refs[i], back, details, outposts)]
        OBVIOUS
  <2>3. DOMAIN s = 1..n /\ s = [i \in 1..n |-> s[i]]
        BY <2>1, <2>2
  <2> QED BY <2>2, <2>3, MadeIsList
<1>2. PICK a : a = [i \in DOMAIN app.provider |-> Referred(app.provider[i], FALSE, details, outposts)]
      OBVIOUS
<1>3. PICK b : b = [i \in DOMAIN app.backchannel |-> Referred(app.backchannel[i], TRUE, details, outposts)]
      OBVIOUS
<1>4. IsList(a) /\ IsList(b)
  <2>1. PICK refs, more : refs = app.provider /\ more = app.backchannel
        OBVIOUS
  <2> QED BY <1>1, <1>2, <1>3, <2>1
<1>5. IsList(a \o b)
      BY <1>4, JoinLists
<1>6. PICK one : one = Listed(app, details, outposts)
      OBVIOUS
<1>7. one.providers = a \o b /\ one.slug = app.slug
      BY <1>2, <1>3, <1>6 DEF Listed
<1> QED BY <1>5, <1>6, <1>7

LEMMA RebuiltFits ==
    ASSUME NEW slug, NEW details, IsList(details), NEW outposts
    PROVE  IsList(Rebuilt(slug, details, outposts).providers) /\ Rebuilt(slug, details, outposts).slug = slug
<1>1. PICK here : here = {i \in DOMAIN details : SlugOf(details[i]).slug = slug}
      OBVIOUS
<1>2. PICK of : of = Picked(details, here)
      OBVIOUS
<1>3. IsList(of)
      BY <1>2, PickedMembers
<1>4. PICK n \in Nat : DOMAIN of = 1..n
      BY <1>3, Lists1
<1>5. PICK s : s = [i \in DOMAIN of |-> FromDetail(of[i], outposts)]
      OBVIOUS
<1>6. DOMAIN s = 1..n /\ s = [i \in 1..n |-> s[i]]
      BY <1>4, <1>5
<1>7. PICK one : one = Rebuilt(slug, details, outposts)
      OBVIOUS
<1>8. one.providers = s /\ one.slug = slug
      BY <1>1, <1>2, <1>5, <1>7 DEF Rebuilt
<1> QED BY <1>6, <1>7, <1>8, MadeIsList

LEMMA AssembledFits ==
    ASSUME NEW apps, IsList(apps), \A a \in ToSet(apps) : IsList(a.provider) /\ IsList(a.backchannel),
           NEW details, IsList(details), NEW outposts, NEW all, all = Assemble(apps, details, outposts)
    PROVE  /\ IsList(all) /\ \A app \in ToSet(all) : IsList(app.providers)
           /\ IsFiniteSet(RecoveredSlugs(apps, details))
           /\ \A slug : (\E app \in ToSet(all) : app.slug = slug) <=>
                (\E a \in ToSet(apps) : a.slug = slug) \/ slug \in RecoveredSlugs(apps, details)
<1>1. PICK n \in Nat : DOMAIN apps = 1..n /\ \A i \in 1..n : apps[i] \in ToSet(apps)
      BY Lists1
<1>2. PICK R : R = RecoveredSlugs(apps, details)
      OBVIOUS
<1>3. IsFiniteSet(R)
  <2>1. PICK m \in Nat : DOMAIN details = 1..m
        BY Lists1
  <2>2. PICK slugs : slugs = [i \in 1..m |-> SlugOf(details[i]).slug]
        OBVIOUS
  <2>3. DOMAIN slugs = 1..m /\ IsFiniteSet(1..m)
        BY <2>2, FS_Interval
  <2>4. IsFiniteSet({slugs[i] : i \in DOMAIN slugs})
        BY <2>3, ImageIsFinite
  <2>5. R \subseteq {slugs[i] : i \in DOMAIN slugs}
    <3>1. \A x \in R : \E d \in ToSet(details) : x = SlugOf(d).slug
          BY <1>2 DEF RecoveredSlugs
    <3>2. \A d \in ToSet(details) : \E i \in 1..m : d = details[i]
          BY <2>1, Lists1
    <3> QED BY <2>2, <3>1, <3>2
  <2> QED BY <2>4, <2>5, FS_Subset
<1>4. PICK slugs : slugs = SetToSeq(R)
      OBVIOUS
<1>5. IsList(slugs) /\ ToSet(slugs) = R
      BY <1>3, <1>4, ReadOut
<1>6. PICK m \in Nat : DOMAIN slugs = 1..m /\ \A i \in 1..m : slugs[i] \in ToSet(slugs)
      BY <1>5, Lists1
<1>7. PICK a : a = [i \in DOMAIN apps |-> Listed(apps[i], details, outposts)]
      OBVIOUS
<1>8. PICK b : b = [i \in DOMAIN slugs |-> Rebuilt(slugs[i], details, outposts)]
      OBVIOUS
<1>9. all = a \o b
      BY <1>2, <1>4, <1>7, <1>8 DEF Assemble
<1>10. DOMAIN a = 1..n /\ a = [i \in 1..n |-> a[i]] /\ DOMAIN b = 1..m /\ b = [i \in 1..m |-> b[i]]
       BY <1>1, <1>6, <1>7, <1>8
<1>11. ASSUME NEW i \in 1..n PROVE IsList(a[i].providers) /\ a[i].slug = apps[i].slug
  <2>1. PICK app \in ToSet(apps) : app = apps[i]
        BY <1>1
  <2>2. a[i] = Listed(app, details, outposts)
        BY <1>1, <1>7, <2>1
  <2> QED BY <2>1, <2>2, ListedFits
<1>12. ASSUME NEW i \in 1..m PROVE IsList(b[i].providers) /\ b[i].slug = slugs[i]
  <2>1. b[i] = Rebuilt(slugs[i], details, outposts)
        BY <1>6, <1>8
  <2> QED BY <2>1, RebuiltFits
<1>13. IsList(a) /\ IsList(b)
       BY <1>10, MadeIsList
<1>14. IsList(all) /\ \A x : x \in ToSet(all) <=> x \in ToSet(a) \/ x \in ToSet(b)
       BY <1>9, <1>13, JoinLists
<1>15. /\ \A x : x \in ToSet(a) <=> \E i \in 1..n : x = a[i]
       /\ \A x : x \in ToSet(b) <=> \E i \in 1..m : x = b[i]
       BY <1>10 DEF ToSet
<1>16. \A app \in ToSet(all) : IsList(app.providers)
       BY <1>11, <1>12, <1>14, <1>15
<1>17. ASSUME NEW slug
       PROVE  (\E app \in ToSet(all) : app.slug = slug) <=> (\E x \in ToSet(apps) : x.slug = slug) \/ slug \in R
  <2>1. (\E x \in ToSet(apps) : x.slug = slug) <=> \E i \in 1..n : a[i].slug = slug
    <3>1. \A x \in ToSet(apps) : \E i \in 1..n : apps[i] = x
          BY <1>1, Lists1
    <3> QED BY <1>1, <1>11, <3>1
  <2>2. slug \in R <=> \E i \in 1..m : b[i].slug = slug
    <3>1. \A x \in ToSet(slugs) : \E i \in 1..m : slugs[i] = x
          BY <1>5, <1>6, Lists1
    <3> QED BY <1>5, <1>6, <1>12, <3>1
  <2> QED BY <1>14, <1>15, <2>1, <2>2
<1> QED BY <1>2, <1>3, <1>14, <1>16, <1>17

-----------------------------------------------------------------------------
(* What has been read so far: of the proxy its whole table or nothing, of the identity provider   *)
(* a part of what it has, in its order.                                                            *)

ProxyReads(p, w) ==
    /\ SnapFits(p.snapshot, w)
    /\ p.pc = "entrypoints" => p.snapshot = Absorb(w.table)
    /\ p.pc # "over" => ~p.snapshot.entrypointsRead
    /\ p.snapshot.entrypointsRead => p.phase = "connected"

\* What came of a list stands in its order, and before a place of it.
Came(got, list, before) ==
    \E pos \in [DOMAIN got -> DOMAIN list] :
        /\ \A i \in DOMAIN got : got[i] = list[pos[i]] /\ pos[i] <= before
        /\ \A i, j \in DOMAIN got : i < j => pos[i] < pos[j]

\* At the end of a read that worked, what is not known is what makes it a partial one.
MissingIsSaid(i, list) ==
    (i.phase = "connected") = (\A n \in DOMAIN list : \E app \in ToSet(i.assembled) : app.slug = list[n].slug)

\* How much of the applications the walk is past.
Past(i, list) == IF i.pc = "applications" THEN (i.page - 1) * PageSize ELSE Len(list)
IdentityReads(i, w, list, touched) ==
    /\ IsList(list)
    /\ \A l \in Listing : IsList(i[l])
    /\ ToSet(i.applications) \subseteq ToSet(w.applications)
    /\ ToSet(i.proxy) \cup ToSet(i.oauth2) \subseteq ToSet(w.details)
    /\ IsList(i.assembled) /\ \A app \in ToSet(i.assembled) : IsList(app.providers)
    /\ ToSet(list) \subseteq ToSet(w.applications)
    /\ i.pc \in {"idle", "probe"} => i.applications = <<>> /\ i.page = 1
    /\ ~touched =>
         /\ list = w.applications
         /\ i.pc \in Listing => Came(i.applications, list, Past(i, list))
         /\ w.counted /\ i.pc \in Listing /\ (i.pc = "applications" => i.page # 1) => i.total = Len(list)
         /\ w.counted /\ i.pc = "over" /\ OK(i.phase) => MissingIsSaid(i, list)

LEMMA ProxyHolds ==
    ASSUME NEW w, NEW p, ProxyReads(p, w), p.pc # "over", NEW q, q.snapshot = p.snapshot, q.pc # "entrypoints"
    PROVE  ProxyReads(q, w)
BY DEF ProxyReads

LEMMA RejectedHolds ==
    ASSUME NEW w, NEW p, ProxyFits(p, w), ProxyReads(p, w), p.pc \in {"version", "retry"}, NEW phase
    PROVE  ProxyReads(Rejected(p, phase, "version"), w)
<1>1. PICK q : q = Rejected(p, phase, "version")
      OBVIOUS
<1>2. ProxyParts \subseteq DOMAIN p
      BY DEF ProxyFits
<1>3. CASE p.at = 0 \/ p.at = Len(p.asks)
  <2>1. PICK attempts : attempts = IF p.at = 0 THEN p.attempts ELSE Append(p.attempts, phase)
        OBVIOUS
  <2>2. q = [p EXCEPT !.pc = "over", !.phase = phase, !.attempts = attempts]
        BY <1>1, <1>3, <2>1 DEF Rejected
  <2>3. q.snapshot = p.snapshot /\ q.pc = "over"
        BY <1>2, <2>2 DEF ProxyParts
  <2> QED BY <1>1, <2>3, ProxyHolds
<1>4. CASE ~(p.at = 0 \/ p.at = Len(p.asks))
  <2>1. PICK attempts : attempts = Append(p.attempts, phase)
        OBVIOUS
  <2>2. PICK at : at = p.at + 1
        OBVIOUS
  <2>3. q = [p EXCEPT !.pc = "version", !.at = at, !.attempts = attempts]
        BY <1>1, <1>4, <2>1, <2>2 DEF Rejected
  <2>4. q.snapshot = p.snapshot /\ q.pc = "version"
        BY <1>2, <2>3 DEF ProxyParts
  <2> QED BY <1>1, <2>4, ProxyHolds
<1> QED BY <1>3, <1>4

LEMMA SelectedHolds ==
    ASSUME NEW w, NEW p, ProxyParts \subseteq DOMAIN p, ProxyReads(p, w), p.pc # "over"
    PROVE  ProxyReads(Selected(p), w)
<1>1. PICK key : key = IF p.at = 0 THEN 0 ELSE Asked(p).key
      OBVIOUS
<1>2. PICK q : q = Selected(p)
      OBVIOUS
<1>3. q = [p EXCEPT !.pc = "raw", !.key = key]
      BY <1>1, <1>2 DEF Selected
<1>4. q.snapshot = p.snapshot /\ q.pc = "raw"
      BY <1>3 DEF ProxyParts
<1> QED BY <1>2, <1>4, ProxyHolds

\* Until the table is read nothing is held.
LEMMA ProxyHoldsOn ==
    ASSUME IInv, ProxyReads(proxy, world), ProxyStart \/ ProxyVersion \/ ProxyRetry
    PROVE  ProxyReads(proxy', world)
<1>1. PICK p : p = proxy
      OBVIOUS
<1>2. PICK q : q = proxy'
      OBVIOUS
<1>3. ProxyFits(p, world) /\ ProxyReads(p, world) /\ ProxyParts \subseteq DOMAIN p
      BY <1>1 DEF IInv, ProxyFits
<1>4. CASE ProxyStart
  <2>1. PICK candidates : candidates = ProxyCandidates(fleet, world.origins)
        OBVIOUS
  <2>2. PICK url : url = world.proxy.url
        OBVIOUS
  <2>3. q = IF ~world.proxy.enabled THEN [p EXCEPT !.pc = "over", !.phase = "disabled"]
             ELSE IF url # "" THEN [p EXCEPT !.pc = "version", !.asks = <<[host |-> url, owned |-> TRUE]>>]
             ELSE IF candidates = <<>> THEN [p EXCEPT !.pc = "over", !.phase = "not-configured"]
             ELSE [p EXCEPT !.pc = "version", !.at = 1, !.asks = Cut(candidates, MaxCandidates)]
        BY <1>1, <1>2, <1>4, <2>1, <2>2, BeginsAlike DEF ProxyStart
  <2>4. PICK asks1, asks2 : asks1 = <<[host |-> url, owned |-> TRUE]>> /\ asks2 = Cut(candidates, MaxCandidates)
        OBVIOUS
  <2>5. q.snapshot = p.snapshot /\ q.pc \in {"over", "version"}
        BY <1>3, <2>3 DEF ProxyParts
  <2>6. p.pc = "idle"
        BY <1>1, <1>4 DEF ProxyStart, Reading
  <2> QED BY <1>2, <1>3, <2>5, <2>6, ProxyHolds
<1>5. CASE ProxyVersion
  <2>1. p.pc = "version"
        BY <1>1, <1>5 DEF ProxyVersion, Reading
  <2>2. PICK o \in Outcomes :
         \/ q = [p EXCEPT !.pc = "retry"]
         \/ q = Selected(p)
         \/ \E phase : q = Rejected(p, phase, "version")
        BY <1>1, <1>2, <1>5 DEF ProxyVersion
  <2>3. CASE q = [p EXCEPT !.pc = "retry"]
    <3>1. q.snapshot = p.snapshot /\ q.pc = "retry"
          BY <1>3, <2>3 DEF ProxyParts
    <3> QED BY <1>2, <1>3, <2>1, <3>1, ProxyHolds
  <2>4. CASE q = Selected(p)
        BY <1>2, <1>3, <2>1, <2>4, SelectedHolds
  <2>5. CASE \E phase : q = Rejected(p, phase, "version")
        BY <1>2, <1>3, <2>1, <2>5, RejectedHolds
  <2> QED BY <2>2, <2>3, <2>4, <2>5
<1>6. CASE ProxyRetry
  <2>1. p.pc = "retry"
        BY <1>1, <1>6 DEF ProxyRetry, Reading
  <2>2. PICK o \in Outcomes :
         q = IF Fetched(o) = "connected" THEN Selected([p EXCEPT !.credential = "basic"])
                                         ELSE Rejected(p, Fetched(o), "version")
        BY <1>1, <1>2, <1>6 DEF ProxyRetry
  <2>3. CASE q = Selected([p EXCEPT !.credential = "basic"])
    <3>1. PICK r : r = [p EXCEPT !.credential = "basic"]
          OBVIOUS
    <3>2. r.snapshot = p.snapshot /\ r.pc = "retry" /\ ProxyParts \subseteq DOMAIN r
          BY <1>3, <2>1, <3>1 DEF ProxyParts
    <3>3. ProxyReads(r, world)
          BY <1>3, <2>1, <3>2, ProxyHolds
    <3> QED BY <1>2, <2>3, <3>1, <3>2, <3>3, SelectedHolds
  <2>4. CASE q = Rejected(p, Fetched(o), "version")
        BY <1>2, <1>3, <2>1, <2>4, RejectedHolds
  <2> QED BY <2>2, <2>3, <2>4
<1> QED BY <1>4, <1>5, <1>6

LEMMA AbsorbedHolds ==
    ASSUME NEW w, NEW snap, snap = Absorb(w.table)
    PROVE  SnapFits(snap, w) /\ ~snap.entrypointsRead
BY DEF Absorb, SnapFits

LEMMA EntrypointsHold ==
    ASSUME NEW w, NEW snap, NEW old, old = Absorb(w.table),
           snap = [old EXCEPT !.entrypoints = w.entrypoints, !.entrypointsRead = TRUE]
    PROVE  SnapFits(snap, w)
<1>1. DOMAIN old = {"routers", "middlewares", "services", "entrypoints", "entrypointsRead"}
      BY DEF Absorb
<1>2. snap.entrypoints = w.entrypoints /\ snap.entrypointsRead = TRUE /\ snap.routers = old.routers
      /\ snap.middlewares = old.middlewares
      BY <1>1
<1>3. old.routers = w.table.routers /\ old.middlewares = AbsorbMiddlewares(w.table.middlewares)
      BY DEF Absorb
<1> QED BY <1>2, <1>3 DEF SnapFits

LEMMA ProxyReadsOnceMore ==
    ASSUME IInv, ProxyReads(proxy, world), ProxyRawData \/ ProxyEntrypoints
    PROVE  ProxyReads(proxy', world)
<1>1. PICK p : p = proxy
      OBVIOUS
<1>2. PICK q : q = proxy'
      OBVIOUS
<1>3. ProxyFits(p, world) /\ ProxyReads(p, world) /\ ProxyParts \subseteq DOMAIN p
      BY <1>1 DEF IInv, ProxyFits
<1>4. ASSUME p.pc # "over", \E phase : q = [p EXCEPT !.pc = "over", !.phase = phase]
      PROVE  ProxyReads(q, world)
  <2>1. PICK phase : q = [p EXCEPT !.pc = "over", !.phase = phase]
        BY <1>4
  <2>2. q.snapshot = p.snapshot /\ q.pc = "over"
        BY <1>3, <2>1 DEF ProxyParts
  <2> QED BY <1>3, <1>4, <2>2, ProxyHolds
<1>5. CASE ProxyRawData
  <2>1. p.pc = "raw"
        BY <1>1, <1>5 DEF ProxyRawData, Reading
  <2>2. PICK o \in Outcomes :
         q = IF Fetched(o) = "connected" THEN [p EXCEPT !.pc = "entrypoints", !.snapshot = Absorb(world.table)]
                                         ELSE [p EXCEPT !.pc = "over", !.phase = Fetched(o)]
        BY <1>1, <1>2, <1>5 DEF ProxyRawData
  <2>3. CASE q = [p EXCEPT !.pc = "entrypoints", !.snapshot = Absorb(world.table)]
    <3>1. PICK snap : snap = Absorb(world.table)
          OBVIOUS
    <3>2. q.snapshot = snap /\ q.pc = "entrypoints"
          BY <1>3, <2>3, <3>1 DEF ProxyParts
    <3>3. SnapFits(snap, world) /\ ~snap.entrypointsRead
          BY <3>1, AbsorbedHolds
    <3> QED BY <1>2, <3>1, <3>2, <3>3 DEF ProxyReads
  <2>4. CASE q = [p EXCEPT !.pc = "over", !.phase = Fetched(o)]
        BY <1>2, <1>4, <2>1, <2>4
  <2> QED BY <2>2, <2>3, <2>4
<1>6. CASE ProxyEntrypoints
  <2>1. p.pc = "entrypoints"
        BY <1>1, <1>6 DEF ProxyEntrypoints, Reading
  <2>2. PICK snap : snap = [p.snapshot EXCEPT !.entrypoints = world.entrypoints, !.entrypointsRead = TRUE]
        OBVIOUS
  <2>3. PICK o \in Outcomes :
         q = IF Fetched(o) = "connected" THEN [p EXCEPT !.pc = "over", !.phase = "connected",
                                                        !.snapshot.entrypoints = world.entrypoints,
                                                        !.snapshot.entrypointsRead = TRUE]
                                         ELSE [p EXCEPT !.pc = "over", !.phase = "partial"]
        BY <1>1, <1>2, <1>6 DEF ProxyEntrypoints
  <2>4. CASE q = [p EXCEPT !.pc = "over", !.phase = "connected", !.snapshot.entrypoints = world.entrypoints,
                           !.snapshot.entrypointsRead = TRUE]
    <3>1. q = [p EXCEPT !.pc = "over", !.phase = "connected", !.snapshot = snap]
          BY <1>3, <2>2, <2>4 DEF ProxyParts
    <3>2. q.snapshot = snap /\ q.pc = "over" /\ q.phase = "connected"
          BY <1>3, <3>1 DEF ProxyParts
    <3>3. PICK old : old = p.snapshot
          OBVIOUS
    <3>4. old = Absorb(world.table)
          BY <1>3, <2>1, <3>3 DEF ProxyReads
    <3>5. SnapFits(snap, world)
          BY <2>2, <3>3, <3>4, EntrypointsHold
    <3> QED BY <1>2, <3>2, <3>5 DEF ProxyReads
  <2>5. CASE q = [p EXCEPT !.pc = "over", !.phase = "partial"]
        BY <1>2, <1>4, <2>1, <2>5
  <2> QED BY <2>3, <2>4, <2>5
<1> QED BY <1>5, <1>6

LEMMA PageFits ==
    ASSUME SoundWorld(world), IsList(far), NEW l \in Listing, NEW n
    PROVE  /\ IsList(PageOf(l, n))
           /\ l = "applications" => ToSet(PageOf(l, n)) \subseteq ToSet(far)
           /\ l \in {"proxy", "oauth2"} => ToSet(PageOf(l, n)) \subseteq ToSet(world.details)
<1>1. PICK whole : whole = Whole(l)
      OBVIOUS
<1>2. /\ IsList(whole)
      /\ l = "applications" => ToSet(whole) \subseteq ToSet(far)
      /\ l \in {"proxy", "oauth2"} => ToSet(whole) \subseteq ToSet(world.details)
  <2>1. CASE l = "applications"
        BY <1>1, <2>1 DEF Whole
  <2>2. CASE l = "outposts"
        BY <1>1, <2>2 DEF Whole, SoundWorld
  <2>3. CASE l \in {"proxy", "oauth2"}
    <3>1. PICK details : details = world.details
          OBVIOUS
    <3>2. PICK places : places = {i \in DOMAIN details : details[i].list = l}
          OBVIOUS
    <3>3. whole = Picked(details, places) /\ IsList(details)
          BY <1>1, <2>3, <3>1, <3>2 DEF Whole, SoundWorld
    <3>4. IsList(whole) /\ \A x \in ToSet(whole) : \E i \in DOMAIN details : details[i] = x
          BY <3>3, PickedMembers
    <3>5. ToSet(whole) \subseteq ToSet(details)
          BY <3>3, <3>4, Lists1
    <3> QED BY <2>3, <3>1, <3>4, <3>5
  <2> QED BY <2>1, <2>2, <2>3 DEF Listing
<1>3. PICK places : places = {i \in DOMAIN whole : (n - 1) * PageSize < i /\ i <= n * PageSize
                                                  /\ (l = "applications" => whole[i].visible)}
      OBVIOUS
<1>4. PICK page : page = PageOf(l, n)
      OBVIOUS
<1>5. page = Picked(whole, places)
      BY <1>1, <1>3, <1>4 DEF PageOf
<1>6. IsList(page) /\ \A x \in ToSet(page) : \E i \in DOMAIN whole : whole[i] = x
      BY <1>2, <1>5, PickedMembers
<1>7. ToSet(page) \subseteq ToSet(whole)
      BY <1>2, <1>6, Lists1
<1> QED BY <1>2, <1>4, <1>6, <1>7

\* A page more: what it brings stands behind what came before.
LEMMA ComesOn ==
    ASSUME NEW list, IsList(list), NEW got, IsList(got), NEW b \in Nat, NEW c \in Nat, b <= c, Came(got, list, b),
           NEW places, \A i \in DOMAIN list : i \in places => b < i /\ i <= c, NEW page, page = Picked(list, places)
    PROVE  Came(got \o page, list, c)
<1>1. PICK n \in Nat : DOMAIN list = 1..n
      BY Lists1
<1>2. PICK m \in Nat : DOMAIN got = 1..m /\ Len(got) = m
      BY Lists1
<1>3. page \in Seq(ToSet(list)) /\ got \in Seq(ToSet(got))
      BY PickedPlaces, Lists1
<1>4. PICK k \in Nat : DOMAIN page = 1..k /\ Len(page) = k
      BY <1>3
<1>5. PICK P : P \in [1..m -> 1..n] /\ (\A i \in 1..m : got[i] = list[P[i]] /\ P[i] <= b)
               /\ \A i, j \in 1..m : i < j => P[i] < P[j]
      BY <1>1, <1>2 DEF Came
<1>6. PICK Q : Q \in [1..k -> 1..n] /\ (\A i \in 1..k : page[i] = list[Q[i]] /\ Q[i] \in places)
               /\ \A i, j \in 1..k : i < j => Q[i] < Q[j]
  <2>1. PICK pos \in [DOMAIN page -> DOMAIN list] :
          /\ \A i \in DOMAIN page : pos[i] \in places /\ page[i] = list[pos[i]]
          /\ \A i, j \in DOMAIN page : i < j => pos[i] < pos[j]
        BY PickedPlaces
  <2> QED BY <1>1, <1>4, <2>1
<1>7. PICK T : got \in Seq(T) /\ page \in Seq(T)
  <2>1. got \in Seq(ToSet(got) \cup ToSet(list)) /\ page \in Seq(ToSet(got) \cup ToSet(list))
        BY <1>3
  <2> QED BY <2>1
<1>8. PICK all : all = got \o page
      OBVIOUS
<1>9. DOMAIN all = 1..(m + k) /\ \A i \in 1..(m + k) : all[i] = IF i <= m THEN got[i] ELSE page[i - m]
  <2>1. /\ Len(got \o page) = Len(got) + Len(page) /\ got \o page \in Seq(T)
        /\ \A i \in 1..(Len(got) + Len(page)) :
                (got \o page)[i] = IF i <= Len(got) THEN got[i] ELSE page[i - Len(got)]
        BY <1>7, ConcatProperties
  <2>2. Len(all) = m + k /\ all \in Seq(T)
        BY <1>2, <1>4, <1>8, <2>1
  <2>3. DOMAIN all = 1..(m + k)
        BY <2>2
  <2>4. \A i \in 1..(m + k) : all[i] = IF i <= m THEN got[i] ELSE page[i - m]
        BY <1>2, <1>4, <1>8, <2>1
  <2> QED BY <2>3, <2>4
<1>10. PICK R : R = [i \in 1..(m + k) |-> IF i <= m THEN P[i] ELSE Q[i - m]]
       OBVIOUS
<1>11. \A i \in 1..(m + k) : IF i <= m THEN i \in 1..m ELSE i - m \in 1..k
       OBVIOUS
<1>12. R \in [1..(m + k) -> 1..n]
       BY <1>5, <1>6, <1>10, <1>11
<1>13. ASSUME NEW i \in 1..(m + k) PROVE all[i] = list[R[i]] /\ R[i] <= c
  <2>1. CASE i <= m
    <3>1. i \in 1..m /\ R[i] = P[i] /\ all[i] = got[i]
          BY <1>9, <1>10, <1>11, <2>1
    <3>2. P[i] \in 1..n /\ P[i] <= b /\ got[i] = list[P[i]]
          BY <1>5, <3>1
    <3> QED BY <3>1, <3>2
  <2>2. CASE ~(i <= m)
    <3>1. i - m \in 1..k /\ R[i] = Q[i - m] /\ all[i] = page[i - m]
          BY <1>9, <1>10, <1>11, <2>2
    <3>2. Q[i - m] \in 1..n /\ Q[i - m] <= c /\ page[i - m] = list[Q[i - m]]
          BY <1>1, <1>6, <3>1
    <3> QED BY <3>1, <3>2
  <2> QED BY <2>1, <2>2
<1>14. ASSUME NEW i \in 1..(m + k), NEW j \in 1..(m + k), i < j PROVE R[i] < R[j]
  <2>1. CASE j <= m
    <3>1. i \in 1..m /\ j \in 1..m /\ R[i] = P[i] /\ R[j] = P[j]
          BY <1>10, <1>14, <2>1
    <3> QED BY <1>5, <1>14, <3>1
  <2>2. CASE ~(j <= m) /\ i <= m
    <3>1. i \in 1..m /\ j - m \in 1..k /\ R[i] = P[i] /\ R[j] = Q[j - m]
          BY <1>10, <1>11, <2>2
    <3>2. P[i] \in 1..n /\ P[i] <= b /\ Q[j - m] \in 1..n /\ b < Q[j - m]
          BY <1>1, <1>5, <1>6, <3>1
    <3> QED BY <3>1, <3>2
  <2>3. CASE ~(i <= m)
    <3>1. i - m \in 1..k /\ j - m \in 1..k /\ i - m < j - m /\ R[i] = Q[i - m] /\ R[j] = Q[j - m]
          BY <1>10, <1>11, <1>14, <2>3
    <3> QED BY <1>6, <3>1
  <2> QED BY <2>1, <2>2, <2>3
<1> QED BY <1>1, <1>8, <1>9, <1>12, <1>13, <1>14 DEF Came

LEMMA ComesWhole ==
    ASSUME NEW list, IsList(list), NEW got, NEW b, Came(got, list, b)
    PROVE  Came(got, list, Len(list))
<1>1. PICK n \in Nat : n = Len(list) /\ DOMAIN list = 1..n
      BY Lists1
<1>2. PICK pos \in [DOMAIN got -> DOMAIN list] :
        /\ \A i \in DOMAIN got : got[i] = list[pos[i]]
        /\ \A i, j \in DOMAIN got : i < j => pos[i] < pos[j]
      BY DEF Came
<1>3. \A i \in DOMAIN got : pos[i] \in 1..n
      BY <1>1, <1>2
<1>4. \A i \in DOMAIN got : pos[i] <= n
      BY <1>3
<1> QED BY <1>1, <1>2, <1>4 DEF Came

\* Nothing comes twice.
LEMMA ComesOnce ==
    ASSUME NEW list, IsList(list), NEW got, IsList(got), NEW b, Came(got, list, b),
           \A i, j \in DOMAIN list : list[i].slug = list[j].slug => i = j
    PROVE  /\ \A i, j \in DOMAIN got : got[i].slug = got[j].slug => i = j
           /\ \A i \in DOMAIN got : \E n \in DOMAIN list : got[i].slug = list[n].slug
<1>1. PICK n \in Nat : DOMAIN list = 1..n
      BY Lists1
<1>2. PICK m \in Nat : DOMAIN got = 1..m
      BY Lists1
<1>3. PICK pos : /\ pos \in [1..m -> 1..n] /\ \A i \in 1..m : got[i] = list[pos[i]]
                 /\ \A i, j \in 1..m : i < j => pos[i] < pos[j]
      BY <1>1, <1>2 DEF Came
<1>4. ASSUME NEW i \in 1..m, NEW j \in 1..m, got[i].slug = got[j].slug PROVE i = j
  <2>1. pos[i] \in 1..n /\ pos[j] \in 1..n /\ list[pos[i]].slug = list[pos[j]].slug
        BY <1>3, <1>4
  <2>2. pos[i] = pos[j]
        BY <1>1, <2>1
  <2>3. (i < j => pos[i] < pos[j]) /\ (j < i => pos[j] < pos[i])
        BY <1>3
  <2> QED BY <2>1, <2>2, <2>3
<1>5. ASSUME NEW i \in 1..m PROVE \E k \in 1..n : got[i].slug = list[k].slug
      BY <1>3
<1> QED BY <1>1, <1>2, <1>4, <1>5

LEMMA NoLessThanNothing ==
    ASSUME NEW n \in Int
    PROVE  Max({0, n}) = IF n > 0 THEN n ELSE 0
<1>1. \A a : (\E x \in {0, n} : x = a /\ \A y \in {0, n} : x >= y) <=> a = IF n > 0 THEN n ELSE 0
      OBVIOUS
<1>2. \A x \in {0, n} : (\A y \in {0, n} : x >= y) <=> x = IF n > 0 THEN n ELSE 0
      OBVIOUS
<1>3. \E x \in {0, n} : \A y \in {0, n} : x >= y
      BY <1>1
<1> QED BY <1>2, <1>3 DEF Max

\* As many slugs as entries, where none has another's.
LEMMA SlugsCount ==
    ASSUME NEW list, IsList(list), \A i, j \in DOMAIN list : list[i].slug = list[j].slug => i = j
    PROVE  /\ IsFiniteSet({list[i].slug : i \in DOMAIN list})
           /\ Cardinality({list[i].slug : i \in DOMAIN list}) = Len(list)
<1>1. PICK n \in Nat : n = Len(list) /\ DOMAIN list = 1..n
      BY Lists1
<1>2. PICK f : f = [i \in 1..n |-> list[i].slug]
      OBVIOUS
<1>3. PICK T : T = {list[i].slug : i \in DOMAIN list}
      OBVIOUS
<1>4. f \in Surjection(1..n, T) /\ f \in Injection(1..n, T)
  <2>1. \A i \in 1..n : f[i] = list[i].slug /\ f[i] \in T
        BY <1>1, <1>2, <1>3
  <2>2. f \in [1..n -> T]
        BY <1>2, <2>1
  <2>3. \A t \in T : \E i \in 1..n : f[i] = t
        BY <1>1, <1>3, <2>1
  <2>4. \A i, j \in 1..n : f[i] = f[j] => i = j
        BY <1>1, <2>1
  <2> QED BY <2>2, <2>3, <2>4 DEF Surjection, Injection, IsInjective
<1>5. IsFiniteSet(1..n) /\ Cardinality(1..n) = n
  <2>1. Cardinality(1..n) = IF 1 > n THEN 0 ELSE n - 1 + 1
        BY FS_Interval
  <2> QED BY <2>1, FS_Interval
<1>6. IsFiniteSet(T) /\ Cardinality(T) = Cardinality(1..n)
      BY <1>4, <1>5, FS_Surjection
<1> QED BY <1>1, <1>3, <1>5, <1>6

\* What the count says is there and neither pass found is nothing just when all of it is known.
LEMMA InvisibleIsMissing ==
    ASSUME NEW list, IsList(list), \A i, j \in DOMAIN list : list[i].slug = list[j].slug => i = j,
           NEW apps, IsList(apps), NEW b, Came(apps, list, b),
           NEW R, R \subseteq {list[i].slug : i \in DOMAIN list}, R \cap {apps[i].slug : i \in DOMAIN apps} = {}
    PROVE  ~(Invisible(Len(list), Len(apps), Cardinality(R)) > 0) <=>
           \A i \in DOMAIN list : list[i].slug \in {apps[j].slug : j \in DOMAIN apps} \cup R
<1>1. PICK F : F = {list[i].slug : i \in DOMAIN list}
      OBVIOUS
<1>2. PICK A : A = {apps[i].slug : i \in DOMAIN apps}
      OBVIOUS
<1>3. PICK f : f = Cardinality(F)
      OBVIOUS
<1>4. PICK a : a = Cardinality(A)
      OBVIOUS
<1>5. PICK r : r = Cardinality(R)
      OBVIOUS
<1>6. IsFiniteSet(F) /\ f = Len(list)
      BY <1>1, <1>3, SlugsCount
<1>7. IsFiniteSet(A) /\ a = Len(apps)
      BY <1>2, <1>4, ComesOnce, SlugsCount
<1>8. A \subseteq F
      BY <1>1, <1>2, ComesOnce
<1>9. IsFiniteSet(R) /\ R \subseteq F
      BY <1>1, <1>6, FS_Subset
<1>10. a \in Nat /\ f \in Nat /\ r \in Nat
       BY <1>3, <1>4, <1>5, <1>6, <1>7, <1>9, FS_CardinalityType
<1>11. IsFiniteSet(A \cup R) /\ Cardinality(A \cup R) = a + r
  <2>1. Cardinality(A \cup R) = Cardinality(A) + Cardinality(R) - Cardinality(A \cap R)
        BY <1>7, <1>9, FS_Union
  <2>2. A \cap R = {} /\ Cardinality({}) = 0
        BY <1>2, FS_EmptySet
  <2>3. PICK sum : sum = Cardinality(A \cup R)
        OBVIOUS
  <2>4. sum = a + r - 0
        BY <2>1, <2>2, <2>3, <1>4, <1>5
  <2>5. sum = a + r
        BY <1>10, <2>4
  <2>6. IsFiniteSet(A \cup R)
        BY <1>7, <1>9, FS_Union
  <2> QED BY <2>3, <2>5, <2>6
<1>12. a + r <= f /\ (a + r = f <=> A \cup R = F)
  <2>1. A \cup R \in SUBSET F
        BY <1>8, <1>9
  <2>2. Cardinality(A \cup R) <= Cardinality(F) /\ (Cardinality(F) = Cardinality(A \cup R) => F = A \cup R)
        BY <1>6, <2>1, FS_Subset
  <2> QED BY <1>3, <1>11, <2>2
<1>13. A \cup R = F <=> \A i \in DOMAIN list : list[i].slug \in A \cup R
       BY <1>1, <1>8, <1>9
<1>14. Invisible(f, a, r) = IF f - a - r > 0 THEN f - a - r ELSE 0
  <2>1. Withheld(f, a) = IF f - a > 0 THEN f - a ELSE 0
    <3>1. f # NoCount /\ f - a \in Int
          BY <1>10 DEF NoCount
    <3> QED BY <3>1, NoLessThanNothing DEF Withheld
  <2>2. PICK w \in Int : w = Withheld(f, a)
        BY <1>10, <2>1
  <2>3. Invisible(f, a, r) = Max({0, w - r})
        BY <2>2 DEF Invisible
  <2>4. Max({0, w - r}) = IF w - r > 0 THEN w - r ELSE 0
        BY <1>10, <2>2, NoLessThanNothing
  <2> QED BY <1>10, <1>12, <2>1, <2>2, <2>3, <2>4
<1>15. PICK v : v = Invisible(f, a, r)
       OBVIOUS
<1>16. ~(v > 0) <=> a + r = f
  <2>1. v = IF f - a - r > 0 THEN f - a - r ELSE 0
        BY <1>14, <1>15
  <2> QED BY <1>10, <1>12, <2>1
<1> QED BY <1>2, <1>5, <1>6, <1>7, <1>12, <1>13, <1>15, <1>16

\* What a step that reads nothing leaves as it was.
Holdings == Listing \cup {"assembled", "page"}
Kept(q, p) == \A x \in Holdings : q[x] = p[x]
LEMMA KeptParts ==
    ASSUME NEW q, NEW p, Kept(q, p)
    PROVE  /\ \A l \in Listing : q[l] = p[l]
           /\ q.applications = p.applications /\ q.proxy = p.proxy /\ q.oauth2 = p.oauth2 /\ q.outposts = p.outposts
           /\ q.assembled = p.assembled /\ q.page = p.page
BY DEF Kept, Holdings, Listing

\* A walk that ends on the way has read what it has read, and no more is said of it.
LEMMA EndsOnTheWay ==
    ASSUME NEW w, NEW list, NEW touched, NEW p, IdentityReads(p, w, list, touched), NEW q, Kept(q, p),
           q.pc = "over", ~OK(q.phase)
    PROVE  IdentityReads(q, w, list, touched)
<1>1. /\ \A l \in Listing : q[l] = p[l]
      /\ q.applications = p.applications /\ q.proxy = p.proxy /\ q.oauth2 = p.oauth2 /\ q.assembled = p.assembled
      BY KeptParts
<1>2. q.pc \notin Listing /\ q.pc \notin {"idle", "probe"}
      BY DEF Listing
<1> QED BY <1>1, <1>2 DEF IdentityReads

LEMMA NothingComes ==
    ASSUME NEW list, NEW n
    PROVE  Came(<<>>, list, n)
<1>1. DOMAIN <<>> = {}
      OBVIOUS
<1>2. PICK pos : pos = [i \in {} |-> CHOOSE x \in DOMAIN list : TRUE]
      OBVIOUS
<1>3. pos \in [{} -> DOMAIN list]
      BY <1>2
<1> QED BY <1>1, <1>3 DEF Came

\* Before the first page nothing has come.
LEMMA NothingReadYet ==
    ASSUME NEW w, NEW list, NEW touched, NEW p, IdentityReads(p, w, list, touched), p.pc \in {"idle", "probe"},
           NEW q, Kept(q, p), q.pc \in {"probe", "applications"}
    PROVE  IdentityReads(q, w, list, touched)
<1>1. /\ \A l \in Listing : q[l] = p[l]
      /\ q.applications = p.applications /\ q.proxy = p.proxy /\ q.oauth2 = p.oauth2 /\ q.assembled = p.assembled
      /\ q.page = p.page
      BY KeptParts
<1>2. q.applications = <<>> /\ q.page = 1
      BY <1>1 DEF IdentityReads
<1>3. q.pc # "over" /\ (q.pc \in Listing => q.pc = "applications")
      BY DEF Listing
<1>4. Came(q.applications, list, Past(q, list))
      BY <1>2, NothingComes
<1> QED BY <1>1, <1>2, <1>3, <1>4 DEF IdentityReads

LEMMA ChosenKeeps ==
    ASSUME NEW w, NEW list, NEW touched, NEW p, IdentityParts \subseteq DOMAIN p, IdentityReads(p, w, list, touched),
           p.pc \in {"idle", "probe"}, NEW i, IdentityParts \subseteq DOMAIN i, Kept(i, p), NEW q, q = Chosen(i)
    PROVE  IdentityReads(q, w, list, touched)
<1>1. \A x \in Holdings : x \in DOMAIN i /\ x # "pc" /\ x # "phase"
      BY DEF Holdings, Listing, IdentityParts
<1>2. CASE q = [i EXCEPT !.pc = "applications"]
  <2>1. q.pc = "applications" /\ \A x \in Holdings : q[x] = i[x]
        BY <1>1, <1>2 DEF IdentityParts
  <2>2. Kept(q, p)
        BY <2>1 DEF Kept
  <2> QED BY <2>1, <2>2, NothingReadYet
<1>3. CASE q = [i EXCEPT !.pc = "over", !.phase = "authenticate"]
  <2>1. q.pc = "over" /\ q.phase = "authenticate" /\ \A x \in Holdings : q[x] = i[x]
        BY <1>1, <1>3 DEF IdentityParts
  <2>2. Kept(q, p) /\ ~OK(q.phase)
        BY <2>1 DEF Kept, OK
  <2> QED BY <2>1, <2>2, EndsOnTheWay
<1> QED BY <1>2, <1>3 DEF Chosen

LEMMA IdentityStartReads ==
    ASSUME IInv, IdentityReads(identity, world, far, edited), IdentityStart
    PROVE  IdentityReads(identity', world, far, edited)
<1>1. PICK p : p = identity
      OBVIOUS
<1>2. PICK q : q = identity'
      OBVIOUS
<1>3. PICK candidates : candidates = IdentityCandidates(fleet, Registry)
      OBVIOUS
<1>4. IdentityParts \subseteq DOMAIN p /\ p.pc = "idle" /\ IdentityReads(p, world, far, edited)
      BY <1>1 DEF IInv, IdentityFits, IdentityStart, Reading
<1>5. PICK url : url = world.identity.url
      OBVIOUS
<1>6. PICK begun : begun = Begin(p, url, world.identity.enabled, candidates, "probe", "chosen")
      OBVIOUS
<1>7. q = IF begun.pc = "chosen" THEN Chosen(begun) ELSE begun
      BY <1>1, <1>2, <1>3, <1>5, <1>6 DEF IdentityStart
<1>8. PICK asks1, asks2 : asks1 = <<[host |-> url, owned |-> TRUE]>> /\ asks2 = Cut(candidates, MaxCandidates)
      OBVIOUS
<1>9. \/ begun = [p EXCEPT !.pc = "over", !.phase = "disabled"]
      \/ begun = [p EXCEPT !.pc = "chosen", !.asks = asks1]
      \/ begun = [p EXCEPT !.pc = "over", !.phase = "not-configured"]
      \/ begun = [p EXCEPT !.pc = "probe", !.at = 1, !.asks = asks2]
      BY <1>6, <1>8, BeginsAlike
<1>10. \A x \in Holdings : x \in DOMAIN p /\ x \notin {"pc", "phase", "at", "asks"}
       BY <1>4 DEF Holdings, Listing, IdentityParts
<1>11. CASE \E phase \in {"disabled", "not-configured"} : begun = [p EXCEPT !.pc = "over", !.phase = phase]
  <2>1. PICK phase \in {"disabled", "not-configured"} : begun = [p EXCEPT !.pc = "over", !.phase = phase]
        BY <1>11
  <2>2. begun.pc = "over" /\ begun.phase = phase /\ \A x \in Holdings : begun[x] = p[x]
        BY <1>4, <1>10, <2>1 DEF IdentityParts
  <2>3. q = begun /\ ~OK(q.phase) /\ Kept(q, p) /\ q.pc = "over"
        BY <1>7, <2>2 DEF OK, Kept
  <2> QED BY <1>2, <1>4, <2>3, EndsOnTheWay
<1>12. CASE begun = [p EXCEPT !.pc = "chosen", !.asks = asks1]
  <2>1. begun.pc = "chosen" /\ DOMAIN begun = DOMAIN p /\ \A x \in Holdings : begun[x] = p[x]
        BY <1>4, <1>10, <1>12 DEF IdentityParts
  <2>2. q = Chosen(begun) /\ Kept(begun, p) /\ IdentityParts \subseteq DOMAIN begun
        BY <1>4, <1>7, <2>1 DEF Kept
  <2> QED BY <1>2, <1>4, <2>2, ChosenKeeps
<1>13. CASE begun = [p EXCEPT !.pc = "probe", !.at = 1, !.asks = asks2]
  <2>1. begun.pc = "probe" /\ \A x \in Holdings : begun[x] = p[x]
        BY <1>4, <1>10, <1>13 DEF IdentityParts
  <2>2. q = begun /\ Kept(q, p) /\ q.pc = "probe"
        BY <1>7, <2>1 DEF Kept
  <2> QED BY <1>2, <1>4, <2>2, NothingReadYet
<1> QED BY <1>9, <1>11, <1>12, <1>13

LEMMA IdentityProbeReads ==
    ASSUME IInv, IdentityReads(identity, world, far, edited), IdentityProbe
    PROVE  IdentityReads(identity', world, far, edited)
<1>1. PICK p : p = identity
      OBVIOUS
<1>2. PICK q : q = identity'
      OBVIOUS
<1>3. /\ IdentityParts \subseteq DOMAIN p /\ p.pc = "probe" /\ IdentityReads(p, world, far, edited) /\ p.at # 0
      BY <1>1 DEF IInv, IdentityFits, IdentityProbe, Reading
<1>4. PICK o \in Outcomes :
         q = IF ~o.failed /\ o.status \in {401, 403, 407} THEN [p EXCEPT !.pc = "over", !.phase = o.phase]
             ELSE IF Fetched(o) = "connected" THEN Chosen(p)
             ELSE Rejected(p, Fetched(o), "probe")
      BY <1>1, <1>2 DEF IdentityProbe
<1>5. \A x \in Holdings : x \in DOMAIN p /\ x \notin {"pc", "phase", "at", "asks", "attempts"}
      BY <1>3 DEF Holdings, Listing, IdentityParts
<1>6. CASE ~o.failed /\ o.status \in {401, 403, 407} /\ q = [p EXCEPT !.pc = "over", !.phase = o.phase]
  <2>1. q.pc = "over" /\ q.phase = o.phase /\ \A x \in Holdings : q[x] = p[x]
        BY <1>3, <1>5, <1>6 DEF IdentityParts
  <2>2. ~OK(q.phase) /\ Kept(q, p)
        BY <1>6, <2>1, PhasesOfReads DEF Kept
  <2> QED BY <1>2, <1>3, <2>1, <2>2, EndsOnTheWay
<1>7. CASE q = Chosen(p)
  <2>1. Kept(p, p)
        BY DEF Kept
  <2> QED BY <1>2, <1>3, <1>7, <2>1, ChosenKeeps
<1>8. CASE Fetched(o) # "connected" /\ q = Rejected(p, Fetched(o), "probe")
  <2>1. PICK phase : phase = Fetched(o)
        OBVIOUS
  <2>2. ~OK(phase)
        BY <1>8, <2>1, PhasesOfReads
  <2>3. PICK attempts : attempts = Append(p.attempts, phase)
        OBVIOUS
  <2>4. PICK at : at = p.at + 1
        OBVIOUS
  <2>5. CASE p.at = Len(p.asks)
    <3>1. q = [p EXCEPT !.pc = "over", !.phase = phase, !.attempts = attempts]
          BY <1>3, <1>8, <2>1, <2>3, <2>5 DEF Rejected
    <3>2. q.pc = "over" /\ q.phase = phase /\ \A x \in Holdings : q[x] = p[x]
          BY <1>3, <1>5, <3>1 DEF IdentityParts
    <3> QED BY <1>2, <1>3, <2>2, <3>2, EndsOnTheWay DEF Kept
  <2>6. CASE p.at # Len(p.asks)
    <3>1. q = [p EXCEPT !.pc = "probe", !.at = at, !.attempts = attempts]
          BY <1>3, <1>8, <2>1, <2>3, <2>4, <2>6 DEF Rejected
    <3>2. q.pc = "probe" /\ \A x \in Holdings : q[x] = p[x]
          BY <1>3, <1>5, <3>1 DEF IdentityParts
    <3> QED BY <1>2, <1>3, <3>2, NothingReadYet DEF Kept
  <2> QED BY <2>5, <2>6
<1> QED BY <1>4, <1>6, <1>7, <1>8

\* The report of what was read: its applications are put together of all of it.
LEMMA ReportFits ==
    ASSUME NEW w, SoundWorld(w), NEW p, IdentityParts \subseteq DOMAIN p, \A l \in Listing : IsList(p[l]),
           ToSet(p.applications) \subseteq ToSet(w.applications),
           ToSet(p.proxy) \cup ToSet(p.oauth2) \subseteq ToSet(w.details), NEW q, q = ReportOf(p)
    PROVE  /\ \A l \in Listing : q[l] = p[l]
           /\ q.pc = p.pc
           /\ IsList(q.assembled) /\ \A app \in ToSet(q.assembled) : IsList(app.providers)
           /\ Came(p.applications, w.applications, Len(w.applications)) /\ p.total = Len(w.applications) =>
                MissingIsSaid(q, w.applications)
<1>1. PICK details : details = p.proxy \o p.oauth2
      OBVIOUS
<1>2. PICK apps : apps = p.applications
      OBVIOUS
<1>3. PICK R : R = RecoveredSlugs(apps, details)
      OBVIOUS
<1>4. PICK recovered : recovered = Cardinality(R)
      OBVIOUS
<1>5. PICK phase : phase = IF Invisible(p.total, Len(apps), recovered) > 0 THEN "partial" ELSE "connected"
      OBVIOUS
<1>6. PICK all : all = Assemble(apps, details, p.outposts)
      OBVIOUS
<1>7. q = [p EXCEPT !.phase = phase, !.recovered = recovered, !.assembled = all]
      BY <1>1, <1>2, <1>3, <1>4, <1>5, <1>6 DEF ReportOf
<1>8. q.phase = phase /\ q.assembled = all /\ q.pc = p.pc /\ \A l \in Listing : q[l] = p[l]
  <2>1. \A l \in Listing : l \in DOMAIN p /\ l \notin {"phase", "recovered", "assembled"}
        BY DEF Listing, IdentityParts
  <2> QED BY <1>7, <2>1 DEF IdentityParts
<1>9. IsList(apps) /\ IsList(p.proxy) /\ IsList(p.oauth2)
      BY <1>2 DEF Listing
<1>10. IsList(details) /\ ToSet(details) \subseteq ToSet(w.details)
  <2>1. IsList(details) /\ \A x : x \in ToSet(details) <=> x \in ToSet(p.proxy) \/ x \in ToSet(p.oauth2)
        BY <1>1, <1>9, JoinLists
  <2> QED BY <2>1
<1>11. \A a \in ToSet(apps) : IsList(a.provider) /\ IsList(a.backchannel)
       BY <1>2 DEF SoundWorld
<1>12. /\ IsList(all) /\ \A app \in ToSet(all) : IsList(app.providers)
       /\ \A slug : (\E app \in ToSet(all) : app.slug = slug) <=> (\E a \in ToSet(apps) : a.slug = slug) \/ slug \in R
       BY <1>3, <1>6, <1>9, <1>10, <1>11, AssembledFits
<1>13. ASSUME Came(p.applications, w.applications, Len(w.applications)), p.total = Len(w.applications)
       PROVE  MissingIsSaid(q, w.applications)
  <2>1. PICK list : list = w.applications
        OBVIOUS
  <2>2. IsList(list) /\ \A i, j \in DOMAIN list : list[i].slug = list[j].slug => i = j
        BY <2>1 DEF SoundWorld
  <2>3. ASSUME NEW x \in R PROVE x \in {list[i].slug : i \in DOMAIN list} /\ x \notin {apps[i].slug : i \in DOMAIN apps}
    <3>1. x \in {SlugOf(d).slug : d \in ToSet(details)} /\ x \notin {a.slug : a \in ToSet(apps)} /\ x # ""
          BY <1>3 DEF RecoveredSlugs
    <3>2. PICK d \in ToSet(details) : x = SlugOf(d).slug
          BY <3>1
    <3>3. d \in ToSet(w.details)
          BY <1>10
    <3>4. SlugOf(d).slug \in {app.slug : app \in ToSet(list)} \cup {""}
          BY <2>1, <3>3 DEF SoundWorld
    <3>5. PICK app \in ToSet(list) : app.slug = x
          BY <3>1, <3>2, <3>4
    <3>6. \E i \in DOMAIN list : list[i] = app
          BY <2>2, Lists1
    <3>7. \A i \in DOMAIN apps : apps[i] \in ToSet(apps)
          BY <1>9, Lists1
    <3> QED BY <3>1, <3>5, <3>6, <3>7
  <2>4. Came(apps, list, Len(list)) /\ p.total = Len(list)
        BY <1>2, <1>13, <2>1
  <2>5. PICK k : k = Invisible(p.total, Len(apps), recovered)
        OBVIOUS
  <2>6. ~(k > 0) <=> \A i \in DOMAIN list : list[i].slug \in {apps[j].slug : j \in DOMAIN apps} \cup R
    <3>1. R \subseteq {list[i].slug : i \in DOMAIN list} /\ R \cap {apps[i].slug : i \in DOMAIN apps} = {}
          BY <2>3
    <3>2. ~(Invisible(Len(list), Len(apps), Cardinality(R)) > 0) <=>
             \A i \in DOMAIN list : list[i].slug \in {apps[j].slug : j \in DOMAIN apps} \cup R
          BY <1>9, <2>2, <2>4, <3>1, InvisibleIsMissing
    <3>3. k = Invisible(Len(list), Len(apps), Cardinality(R))
          BY <1>4, <2>4, <2>5
    <3> QED BY <3>2, <3>3
  <2>7. \A x : x \in {apps[j].slug : j \in DOMAIN apps} <=> \E a \in ToSet(apps) : a.slug = x
    <3>1. \A j \in DOMAIN apps : apps[j] \in ToSet(apps)
          BY <1>9, Lists1
    <3>2. \A a \in ToSet(apps) : \E j \in DOMAIN apps : apps[j] = a
          BY <1>9, Lists1
    <3> QED BY <3>1, <3>2
  <2>8. \A x : x \in {apps[j].slug : j \in DOMAIN apps} \cup R <=> \E app \in ToSet(all) : app.slug = x
        BY <1>12, <2>7
  <2>9. phase = "connected" <=> ~(k > 0)
        BY <1>5, <2>5
  <2>10. phase = "connected" <=> \A n \in DOMAIN list : \E app \in ToSet(all) : app.slug = list[n].slug
         BY <2>6, <2>8, <2>9
  <2> QED BY <1>8, <2>1, <2>10 DEF MissingIsSaid
<1> QED BY <1>8, <1>12, <1>13

LEMMA IdentityPageReads ==
    ASSUME IInv, IdentityReads(identity, world, far, edited), IdentityPage
    PROVE  IdentityReads(identity', world, far, edited)
<1>1. PICK p : p = identity
      OBVIOUS
<1>2. PICK q : q = identity'
      OBVIOUS
<1>3. PICK list : list = far
      OBVIOUS
<1>4. /\ IdentityReads(p, world, list, edited) /\ p.pc \in Listing /\ IdentityParts \subseteq DOMAIN p
      /\ p.page \in 1..MaxPages /\ SoundWorld(world)
      BY <1>1, <1>3, ListsInOrder, WorldsAssumption DEF IInv, IdentityPage, Reading, IdentityFits
<1>5. PICK l \in Listing : l = p.pc
      BY <1>4
<1>6. PICK page : page = PageOf(l, p.page)
      OBVIOUS
<1>7. PICK entries : entries = p[l] \o page
      OBVIOUS
<1>8. PICK total : total = IF l = "applications" /\ p.page = 1 /\ world.counted THEN Len(list) ELSE p.total
      OBVIOUS
<1>9. PICK read : read = [p EXCEPT ![l] = entries, !.total = total]
      OBVIOUS
<1>10. PICK next : next = [read EXCEPT !.pc = After(l), !.page = 1]
       OBVIOUS
<1>11. PICK o \in Outcomes, more \in BOOLEAN :
         q = IF Fetched(o) # "connected" THEN [p EXCEPT !.pc = "over", !.phase = Fetched(o)]
                         ELSE IF more THEN [read EXCEPT !.page = read.page + 1]
                         ELSE IF next.pc = "over" THEN ReportOf(next)
                         ELSE next
  <2>1. read = [identity EXCEPT ![l] = identity[l] \o PageOf(l, identity.page),
            !.total = IF l = "applications" /\ identity.page = 1 /\ world.counted THEN Len(far) ELSE identity.total]
        BY <1>1, <1>3, <1>6, <1>7, <1>8, <1>9
  <2>2. PICK more \in BOOLEAN : more <=> HasNext(l, p.page) /\ page # <<>> /\ p.page < MaxPages
        OBVIOUS
  <2> QED BY <1>1, <1>2, <1>5, <1>6, <1>10, <2>1, <2>2 DEF IdentityPage
<1>12. /\ DOMAIN read = DOMAIN p /\ read.pc = p.pc /\ read.page = p.page /\ read.phase = p.phase
       /\ read.total = total /\ read[l] = entries /\ \A other \in Listing : other # l => read[other] = p[other]
  <2>1. read = WithPage(p, l, entries, total)
        BY <1>9 DEF WithPage
  <2> QED BY <1>4, <1>5, <2>1, PageRead
<1>13. read.assembled = p.assembled
  <2>1. "assembled" \in DOMAIN p /\ l # "assembled"
        BY <1>4, <1>5 DEF IdentityParts, Listing
  <2>2. PICK r : r = [p EXCEPT ![l] = entries]
        OBVIOUS
  <2>3. r.assembled = p.assembled /\ DOMAIN r = DOMAIN p
        BY <2>1, <2>2
  <2>4. read = [r EXCEPT !.total = total]
        BY <1>9, <2>2
  <2> QED BY <2>1, <2>3, <2>4
<1>14. /\ IsList(list) /\ \A x \in Listing : IsList(p[x])
       /\ ToSet(p.applications) \subseteq ToSet(world.applications)
       /\ ToSet(p.proxy) \cup ToSet(p.oauth2) \subseteq ToSet(world.details)
       /\ IsList(p.assembled) /\ \A app \in ToSet(p.assembled) : IsList(app.providers)
       /\ ToSet(list) \subseteq ToSet(world.applications)
       BY <1>4 DEF IdentityReads
<1>15. /\ IsList(page) /\ (l = "applications" => ToSet(page) \subseteq ToSet(list))
       /\ (l \in {"proxy", "oauth2"} => ToSet(page) \subseteq ToSet(world.details))
       BY <1>3, <1>4, <1>6, <1>14, PageFits
<1>16. IsList(entries) /\ \A x : x \in ToSet(entries) <=> x \in ToSet(p[l]) \/ x \in ToSet(page)
       BY <1>7, <1>14, <1>15, JoinLists
<1>17. \A x \in Listing : IsList(read[x])
       BY <1>12, <1>14, <1>16
<1>18. ToSet(read.applications) \subseteq ToSet(world.applications)
  <2>1. CASE l = "applications"
        BY <1>12, <1>14, <1>15, <1>16, <2>1
  <2>2. CASE l # "applications"
    <3>1. read.applications = p.applications
          BY <1>12, <2>2 DEF Listing
    <3> QED BY <1>14, <3>1
  <2> QED BY <2>1, <2>2
<1>19. ASSUME NEW x \in {"proxy", "oauth2"} PROVE ToSet(read[x]) \subseteq ToSet(world.details)
  <2>1. ToSet(p[x]) \subseteq ToSet(world.details) /\ x \in Listing
        BY <1>14 DEF Listing
  <2>2. CASE l = x
        BY <1>12, <1>15, <1>16, <2>1, <2>2
  <2>3. CASE l # x
        BY <1>12, <2>1, <2>3
  <2> QED BY <2>2, <2>3
<1>20. ~edited => list = world.applications /\ Came(p.applications, list, Past(p, list))
       BY <1>4 DEF IdentityReads
<1>21. PICK past : past = IF l = "applications" THEN p.page * PageSize ELSE Len(list)
       OBVIOUS
<1>22. ASSUME ~edited PROVE Came(read.applications, list, past)
  <2>1. CASE l = "applications"
    <3>1. PICK size \in Nat, n \in Nat : size = PageSize /\ n = p.page /\ n >= 1
          BY <1>4, ReadersAssumption
    <3>2. PICK b \in Nat, c \in Nat : b = (n - 1) * size /\ c = n * size
          BY <3>1
    <3>3. b <= c
          BY <3>1, <3>2
    <3>4. Came(p.applications, list, b)
          BY <1>5, <1>20, <1>22, <2>1, <3>1, <3>2 DEF Past
    <3>5. PICK places : places = {i \in DOMAIN list : b < i /\ i <= c /\ list[i].visible}
          OBVIOUS
    <3>6. page = Picked(list, places)
      <4>1. Whole("applications") = list
            BY <1>3 DEF Whole
      <4>2. page = Picked(list, {i \in DOMAIN list : (n - 1) * size < i /\ i <= n * size
                                   /\ ("applications" = "applications" => list[i].visible)})
            BY <1>6, <2>1, <3>1, <4>1 DEF PageOf
      <4>3. places = {i \in DOMAIN list : (n - 1) * size < i /\ i <= n * size
                                   /\ ("applications" = "applications" => list[i].visible)}
            BY <3>2, <3>5
      <4> QED BY <4>2, <4>3
    <3>7. IsList(p.applications) /\ \A i \in DOMAIN list : i \in places => b < i /\ i <= c
          BY <1>14, <3>5 DEF Listing
    <3>8. Came(p.applications \o page, list, c)
          BY <1>14, <3>3, <3>4, <3>6, <3>7, ComesOn
    <3>9. read.applications = p.applications \o page /\ past = c
          BY <1>7, <1>12, <1>21, <2>1, <3>1, <3>2
    <3> QED BY <3>8, <3>9
  <2>2. CASE l # "applications"
    <3>1. read.applications = p.applications
          BY <1>12, <2>2 DEF Listing
    <3> QED BY <1>5, <1>20, <1>21, <1>22, <2>2, <3>1 DEF Past
  <2> QED BY <2>1, <2>2
<1>23. ASSUME ~edited, world.counted PROVE total = Len(list)
  <2>1. l # "applications" \/ p.page # 1 => p.total = Len(list)
        BY <1>4, <1>5, <1>23 DEF IdentityReads
  <2> QED BY <1>8, <1>23, <2>1
<1>24. CASE Fetched(o) # "connected" /\ q = [p EXCEPT !.pc = "over", !.phase = Fetched(o)]
  <2>1. \A x \in Holdings : x \in DOMAIN p /\ x \notin {"pc", "phase"}
        BY <1>4 DEF Holdings, Listing, IdentityParts
  <2>2. q.pc = "over" /\ q.phase = Fetched(o) /\ \A x \in Holdings : q[x] = p[x]
        BY <1>4, <1>24, <2>1 DEF IdentityParts
  <2>3. ~OK(q.phase) /\ Kept(q, p)
        BY <1>24, <2>2, PhasesOfReads DEF Kept
  <2> QED BY <1>2, <1>3, <1>4, <2>2, <2>3, EndsOnTheWay
<1>25. CASE q = [read EXCEPT !.page = read.page + 1]
  <2>1. PICK n : n = read.page + 1
        OBVIOUS
  <2>2. /\ q.page = n /\ q.pc = l /\ q.total = total /\ q.assembled = p.assembled /\ \A x \in Listing : q[x] = read[x]
    <3>1. \A x \in Listing : x \in DOMAIN read /\ x # "page"
          BY <1>4, <1>12 DEF Listing, IdentityParts
    <3> QED BY <1>4, <1>5, <1>12, <1>13, <1>25, <2>1, <3>1 DEF IdentityParts
  <2>3. q.applications = read.applications /\ q.proxy = read.proxy /\ q.oauth2 = read.oauth2
        BY <2>2 DEF Listing
  <2>4. Past(q, list) = past
    <3>1. n - 1 = p.page
          BY <1>4, <1>12, <2>1
    <3>2. n - 1 = q.page - 1
          BY <2>2
    <3> QED BY <1>21, <2>2, <3>1, <3>2 DEF Past
  <2>5. q.pc \notin {"idle", "probe", "over"}
        BY <2>2 DEF Listing
  <2>6. IdentityReads(q, world, list, edited)
        BY <1>14, <1>17, <1>18, <1>19, <1>20, <1>22, <1>23, <2>2, <2>3, <2>4, <2>5 DEF IdentityReads
  <2> QED BY <1>2, <1>3, <2>6
<1>26. /\ next.pc = After(l) /\ next.total = total /\ next.assembled = p.assembled /\ \A x \in Listing : next[x] = read[x]
       /\ IdentityParts \subseteq DOMAIN next /\ next.page = 1
  <2>1. \A x \in Listing : x \in DOMAIN read /\ x \notin {"pc", "page"}
        BY <1>4, <1>12 DEF Listing, IdentityParts
  <2> QED BY <1>4, <1>10, <1>12, <1>13, <2>1 DEF IdentityParts
<1>27. next.applications = read.applications /\ next.proxy = read.proxy /\ next.oauth2 = read.oauth2
       BY <1>26 DEF Listing
<1>28. ASSUME ~edited PROVE Came(next.applications, list, Len(list))
       BY <1>14, <1>22, <1>27, <1>28, ComesWhole
<1>29. CASE next.pc # "over" /\ q = next
  <2>1. q.pc \in {"proxy", "oauth2", "outposts"}
        BY <1>5, <1>26, <1>29, ListsInOrder DEF Listing
  <2>2. Past(q, list) = Len(list)
        BY <2>1 DEF Past
  <2>3. IdentityReads(q, world, list, edited)
        BY <1>14, <1>17, <1>18, <1>19, <1>20, <1>23, <1>26, <1>27, <1>28, <1>29, <2>1, <2>2 DEF IdentityReads
  <2> QED BY <1>2, <1>3, <2>3
<1>30. CASE next.pc = "over" /\ q = ReportOf(next)
  <2>1. /\ \A x \in Listing : IsList(next[x])
        /\ ToSet(next.applications) \subseteq ToSet(world.applications)
        /\ ToSet(next.proxy) \cup ToSet(next.oauth2) \subseteq ToSet(world.details)
        BY <1>17, <1>18, <1>19, <1>26, <1>27
  <2>2. /\ \A x \in Listing : q[x] = next[x]
        /\ q.pc = next.pc
        /\ IsList(q.assembled) /\ \A app \in ToSet(q.assembled) : IsList(app.providers)
        /\ Came(next.applications, world.applications, Len(world.applications)) /\ next.total = Len(world.applications) =>
                MissingIsSaid(q, world.applications)
        BY <1>4, <1>26, <1>30, <2>1, ReportFits
  <2>3. q.applications = next.applications /\ q.proxy = next.proxy /\ q.oauth2 = next.oauth2
        BY <2>2 DEF Listing
  <2>4. ~edited /\ world.counted => MissingIsSaid(q, list)
        BY <1>20, <1>23, <1>26, <1>28, <2>2
  <2>5. q.pc = "over" /\ q.pc \notin Listing
        BY <1>30, <2>2 DEF Listing
  <2>6. IdentityReads(q, world, list, edited)
        BY <1>14, <1>20, <2>1, <2>2, <2>3, <2>4, <2>5 DEF IdentityReads
  <2> QED BY <1>2, <1>3, <2>6
<1> QED BY <1>11, <1>24, <1>25, <1>29, <1>30

LEMMA EditReads ==
    ASSUME IInv, IdentityReads(identity, world, far, edited), Edit
    PROVE  IdentityReads(identity', world, far', edited')
<1>1. IsList(far) /\ far # <<>> /\ far' = Tail(far) /\ edited' = TRUE /\ identity' = identity
      BY DEF Edit, IdentityReads
<1>2. far \in Seq(ToSet(far))
      BY <1>1, Lists1
<1>3. Tail(far) \in Seq(ToSet(far))
      BY <1>1, <1>2
<1>4. IsList(Tail(far)) /\ ToSet(Tail(far)) \subseteq ToSet(far)
      BY <1>3, SeqIsList
<1> QED BY <1>1, <1>4 DEF IdentityReads

-----------------------------------------------------------------------------
(* What is concluded. *)

\* A service's labels name a gate that some label of the fleet defines.
GateNamed(f, k) ==
    \E r \in ToSet(Service(f, k).routers) : \E ref \in ToSet(r.middlewares) :
        BareName[ref] # "" /\ \E s \in Keys(f) : \E t \in GateTypes :
            <<"middlewares", BareName[ref], t>> \in DOMAIN Service(f, s).labels

Judged(v, f, p, i) ==
    /\ v.suppressed \subseteq Keys(f)
    /\ \A k \in Keys(f) \ v.suppressed : GateNamed(f, k) =>
         Detected(v.posture[k].method) /\ v.posture[k].confidence \in {"confirmed", "observed"}
    /\ \A k \in Keys(f) : v.posture[k].confidence = "confirmed" =>
         \/ p.phase = "connected" /\ \E r \in ToSet(v.routers[k]) : Guards(r)
         \/ \E app \in ToSet(i.assembled) : Proves(f, app, k)
    /\ \A k \in v.suppressed :
         /\ p.phase = "connected" /\ p.snapshot.entrypointsRead
         /\ \E r \in ToSet(v.routers[k]) : Working(r)
         /\ \A r \in ToSet(v.routers[k]) : LiveFits(p.snapshot, r) /\ ~Guards(r)

\* What the proof of a chain is given of a service.
InputOf(live, apps, label, hints, f, key, p, k) ==
    [routers |-> live.byService[k], reachable |-> OK(p.phase),
     chainComplete |-> OK(p.phase) /\ p.snapshot.entrypointsRead,
     absent |-> AbsentRouters(live, Service(f, k)), labelAccounts |-> label[k],
     hints |-> hints, fleet |-> f, authentikKey |-> key, applications |-> apps.byService[k]]
Weighed(v, hints, apps, live, label, chain, f, key, p, i, registry) ==
    /\ apps = ApplyIdentity(i.assembled, f)
    /\ live = ApplyProxy(p.snapshot, f)
    /\ \A k \in Keys(f) : label[k] = FromLabels(Service(f, k), registry, hints)
    /\ \A k \in Keys(f) : chain[k] = PostureOf(InputOf(live, apps, label, hints, f, key, p, k))
    /\ \A k \in Keys(f) : v.posture[k] = Resolve(Evidence(label[k], chain[k], apps.accounts[k]))
    /\ v.suppressed = {k \in Keys(f) : chain[k].suppress}
    /\ v.routers = live.byService

LEMMA ConcludeWeighs ==
    ASSUME Conclude
    PROVE  \E hints, apps, live, label, chain :
             Weighed(verdict', hints, apps, live, label, chain, fleet, IdentityKey, proxy, identity, Registry)
<1>1. PICK v : v = verdict'
      OBVIOUS
<1>2. PICK hints \in {NewHints(HostHints \cup Discover(fleet, Registry) \cup AnsweredHosts)},
           apps \in {ApplyIdentity(identity.assembled, fleet)}, live \in {ApplyProxy(proxy.snapshot, fleet)} :
         \E label \in {[k \in Keys(fleet) |-> FromLabels(Service(fleet, k), Registry, hints)]} :
         \E chain \in {[k \in Keys(fleet) |-> PostureOf(
              [routers |-> live.byService[k], reachable |-> OK(proxy.phase),
               chainComplete |-> OK(proxy.phase) /\ proxy.snapshot.entrypointsRead,
               absent |-> AbsentRouters(live, Service(fleet, k)), labelAccounts |-> label[k],
               hints |-> hints, fleet |-> fleet, authentikKey |-> IdentityKey,
               applications |-> apps.byService[k]])]} :
         \E evidence \in {[k \in Keys(fleet) |-> Evidence(label[k], chain[k], apps.accounts[k])]} :
           verdict' =
           [suppressed |-> {k \in Keys(fleet) : chain[k].suppress},
            posture |-> [k \in Keys(fleet) |-> Resolve(evidence[k])],
            gates |-> [k \in Keys(fleet) |-> IF GateService(fleet, GateAddress(evidence[k])) = k THEN 0
                                              ELSE GateService(fleet, GateAddress(evidence[k]))],
            notes |-> [k \in Keys(fleet) |-> chain[k].notes \cup apps.notes[k] \cup ProxyNotes(k)
                          \cup CloudflareNotes(Service(fleet, k).labels)
                          \cup TraefikNotes(Service(fleet, k).labels)],
            routers |-> live.byService]
      BY DEF Conclude
<1>3. PICK label \in {[k \in Keys(fleet) |-> FromLabels(Service(fleet, k), Registry, hints)]} :
         \E chain \in {[k \in Keys(fleet) |-> PostureOf(
              [routers |-> live.byService[k], reachable |-> OK(proxy.phase),
               chainComplete |-> OK(proxy.phase) /\ proxy.snapshot.entrypointsRead,
               absent |-> AbsentRouters(live, Service(fleet, k)), labelAccounts |-> label[k],
               hints |-> hints, fleet |-> fleet, authentikKey |-> IdentityKey,
               applications |-> apps.byService[k]])]} :
         \E evidence \in {[k \in Keys(fleet) |-> Evidence(label[k], chain[k], apps.accounts[k])]} :
           verdict' =
           [suppressed |-> {k \in Keys(fleet) : chain[k].suppress},
            posture |-> [k \in Keys(fleet) |-> Resolve(evidence[k])],
            gates |-> [k \in Keys(fleet) |-> IF GateService(fleet, GateAddress(evidence[k])) = k THEN 0
                                              ELSE GateService(fleet, GateAddress(evidence[k]))],
            notes |-> [k \in Keys(fleet) |-> chain[k].notes \cup apps.notes[k] \cup ProxyNotes(k)
                          \cup CloudflareNotes(Service(fleet, k).labels)
                          \cup TraefikNotes(Service(fleet, k).labels)],
            routers |-> live.byService]
      BY <1>2
<1>4. PICK chain \in {[k \in Keys(fleet) |-> PostureOf(
              [routers |-> live.byService[k], reachable |-> OK(proxy.phase),
               chainComplete |-> OK(proxy.phase) /\ proxy.snapshot.entrypointsRead,
               absent |-> AbsentRouters(live, Service(fleet, k)), labelAccounts |-> label[k],
               hints |-> hints, fleet |-> fleet, authentikKey |-> IdentityKey,
               applications |-> apps.byService[k]])]} :
         \E evidence \in {[k \in Keys(fleet) |-> Evidence(label[k], chain[k], apps.accounts[k])]} :
           verdict' =
           [suppressed |-> {k \in Keys(fleet) : chain[k].suppress},
            posture |-> [k \in Keys(fleet) |-> Resolve(evidence[k])],
            gates |-> [k \in Keys(fleet) |-> IF GateService(fleet, GateAddress(evidence[k])) = k THEN 0
                                              ELSE GateService(fleet, GateAddress(evidence[k]))],
            notes |-> [k \in Keys(fleet) |-> chain[k].notes \cup apps.notes[k] \cup ProxyNotes(k)
                          \cup CloudflareNotes(Service(fleet, k).labels)
                          \cup TraefikNotes(Service(fleet, k).labels)],
            routers |-> live.byService]
      BY <1>3
<1>5. PICK evidence \in {[k \in Keys(fleet) |-> Evidence(label[k], chain[k], apps.accounts[k])]} :
           verdict' =
           [suppressed |-> {k \in Keys(fleet) : chain[k].suppress},
            posture |-> [k \in Keys(fleet) |-> Resolve(evidence[k])],
            gates |-> [k \in Keys(fleet) |-> IF GateService(fleet, GateAddress(evidence[k])) = k THEN 0
                                              ELSE GateService(fleet, GateAddress(evidence[k]))],
            notes |-> [k \in Keys(fleet) |-> chain[k].notes \cup apps.notes[k] \cup ProxyNotes(k)
                          \cup CloudflareNotes(Service(fleet, k).labels)
                          \cup TraefikNotes(Service(fleet, k).labels)],
            routers |-> live.byService]
      BY <1>4
<1>6. PICK gates : gates = [k \in Keys(fleet) |-> IF GateService(fleet, GateAddress(evidence[k])) = k THEN 0
                                              ELSE GateService(fleet, GateAddress(evidence[k]))]
      OBVIOUS
<1>7. PICK notes : notes = [k \in Keys(fleet) |-> chain[k].notes \cup apps.notes[k] \cup ProxyNotes(k)
                          \cup CloudflareNotes(Service(fleet, k).labels)
                          \cup TraefikNotes(Service(fleet, k).labels)]
      OBVIOUS
<1>8. v = [suppressed |-> {k \in Keys(fleet) : chain[k].suppress},
           posture |-> [k \in Keys(fleet) |-> Resolve(evidence[k])],
           gates |-> gates, notes |-> notes, routers |-> live.byService]
      BY <1>1, <1>5, <1>6, <1>7
<1>9. /\ v.suppressed = {k \in Keys(fleet) : chain[k].suppress}
      /\ v.posture = [k \in Keys(fleet) |-> Resolve(evidence[k])]
      /\ v.routers = live.byService
      BY <1>8
<1>10. \A k \in Keys(fleet) : label[k] = FromLabels(Service(fleet, k), Registry, hints)
       BY <1>3
<1>11. chain = [k \in Keys(fleet) |-> PostureOf(InputOf(live, apps, label, hints, fleet, IdentityKey, proxy, k))]
       BY <1>4 DEF InputOf
<1>12. \A k \in Keys(fleet) : chain[k] = PostureOf(InputOf(live, apps, label, hints, fleet, IdentityKey, proxy, k))
       BY <1>11
<1>13. \A k \in Keys(fleet) : v.posture[k] = Resolve(Evidence(label[k], chain[k], apps.accounts[k]))
       BY <1>5, <1>9
<1>14. Weighed(v, hints, apps, live, label, chain, fleet, IdentityKey, proxy, identity, Registry)
       BY <1>2, <1>9, <1>10, <1>12, <1>13 DEF Weighed
<1> QED BY <1>1, <1>14

\* One service's verdict, from its labels, its routers and its applications.
LEMMA OneWeighed ==
    ASSUME NEW f, SoundFleet(f), NEW p, NEW w, SoundWorld(w), ProxyReads(p, w),
           NEW i, IsList(i.assembled), \A app \in ToSet(i.assembled) : IsList(app.providers),
           NEW v, NEW hints, NEW apps, NEW live, NEW label, NEW chain, NEW key,
           Weighed(v, hints, apps, live, label, chain, f, key, p, i, NewRegistry(f)), NEW k \in Keys(f)
    PROVE  /\ ~chain[k].suppress /\ GateNamed(f, k) =>
                Detected(v.posture[k].method) /\ v.posture[k].confidence \in {"confirmed", "observed"}
           /\ v.posture[k].confidence = "confirmed" =>
                \/ p.phase = "connected" /\ \E r \in ToSet(v.routers[k]) : Guards(r)
                \/ \E app \in ToSet(i.assembled) : Proves(f, app, k)
           /\ chain[k].suppress =>
                /\ p.phase = "connected" /\ p.snapshot.entrypointsRead
                /\ \E r \in ToSet(v.routers[k]) : Working(r)
                /\ \A r \in ToSet(v.routers[k]) : LiveFits(p.snapshot, r) /\ ~Guards(r)
<1>1. PICK registry : registry = NewRegistry(f)
      OBVIOUS
<1>2. PICK svc : svc = Service(f, k)
      OBVIOUS
<1>3. SoundRoutes(svc) /\ Leads(registry)
      BY <1>1, <1>2, RegistryFits DEF SoundFleet
<1>4. PICK l : l = label[k] /\ l = FromLabels(svc, registry, hints)
      BY <1>1, <1>2 DEF Weighed
<1>5. /\ IsList(l) /\ \A a \in ToSet(l) : LabelAccount(a)
      /\ (\E r \in ToSet(svc.routers) : \E ref \in ToSet(r.middlewares) :
                 BareName[ref] # "" /\ BareName[ref] \in DOMAIN registry /\ registry[BareName[ref]].type \in GateTypes) =>
              \E a \in ToSet(l) : a.confidence = "observed"
      BY <1>3, <1>4, FromLabelsFits
<1>6. GateNamed(f, k) => \E a \in ToSet(l) : a.confidence = "observed"
  <2>1. \A s \in Keys(f) : \A name : \A t \in GateTypes :
                <<"middlewares", name, t>> \in DOMAIN Service(f, s).labels =>
                    name \in DOMAIN registry /\ registry[name].type \in GateTypes
        BY <1>1, RegistryFits
  <2> QED BY <1>2, <1>5, <2>1 DEF GateNamed
<1>7. PICK mine : mine = live.byService[k] /\ mine = v.routers[k]
      BY DEF Weighed
<1>8. SoundSnapshot(p.snapshot)
      BY SnapshotIsSound DEF ProxyReads
<1>9. IsList(mine) /\ \A r \in ToSet(mine) : LiveFits(p.snapshot, r) /\ IsList(r.middlewares)
  <2>1. live = ApplyProxy(p.snapshot, f)
        BY DEF Weighed
  <2> QED BY <1>7, <1>8, <2>1, ProxyApplied
<1>10. PICK in : in = InputOf(live, apps, label, hints, f, key, p, k)
       OBVIOUS
<1>11. in.routers = mine /\ in.chainComplete = (OK(p.phase) /\ p.snapshot.entrypointsRead)
       BY <1>7, <1>10 DEF InputOf
<1>12. PICK c : c = chain[k] /\ c = PostureOf(in)
       BY <1>10 DEF Weighed
<1>13. /\ IsList(c.accounts) /\ \A a \in ToSet(c.accounts) : Certain(a)
       /\ ToSet(c.accounts) # {} => in.chainComplete /\ \E r \in ToSet(mine) : Guards(r)
       /\ c.suppress => /\ in.chainComplete /\ \E r \in ToSet(mine) : Working(r)
                        /\ \A r \in ToSet(mine) : ~Guards(r)
       BY <1>9, <1>11, <1>12, PostureFits
<1>14. in.chainComplete => p.phase = "connected" /\ p.snapshot.entrypointsRead
       BY <1>11 DEF ProxyReads
<1>15. PICK more : more = apps.accounts[k]
       OBVIOUS
<1>16. /\ IsList(more) /\ \A a \in ToSet(more) : Weighable(a)
       /\ \A a \in ToSet(more) : a.confidence = "confirmed" => \E app \in ToSet(i.assembled) : Proves(f, app, k)
  <2>1. PICK all : all = i.assembled
        OBVIOUS
  <2>2. more = ApplyIdentity(all, f).accounts[k]
        BY <1>15, <2>1 DEF Weighed
  <2>3. IsList(all) /\ \A app \in ToSet(all) : IsList(app.providers)
        BY <2>1
  <2>4. /\ IsList(more) /\ \A a \in ToSet(more) : Weighable(a)
        /\ \A a \in ToSet(more) : a.confidence = "confirmed" => \E app \in ToSet(all) : Proves(f, app, k)
        BY <2>2, <2>3, IdentityApplied
  <2> QED BY <2>1, <2>4
<1>17. PICK evidence : evidence = Evidence(l, c, more)
       OBVIOUS
<1>18. v.posture[k] = Resolve(evidence)
       BY <1>4, <1>12, <1>15, <1>17 DEF Weighed
<1>19. IsList(c.accounts \o more) /\ \A a : a \in ToSet(c.accounts \o more) <=> a \in ToSet(c.accounts) \/ a \in ToSet(more)
       BY <1>13, <1>16, JoinLists
<1>20. /\ IsList(l \o c.accounts) /\ IsList((l \o c.accounts) \o more)
       /\ \A a : a \in ToSet((l \o c.accounts) \o more) <=> a \in ToSet(l) \/ a \in ToSet(c.accounts) \/ a \in ToSet(more)
  <2>1. IsList(l \o c.accounts) /\ \A a : a \in ToSet(l \o c.accounts) <=> a \in ToSet(l) \/ a \in ToSet(c.accounts)
        BY <1>5, <1>13, JoinLists
  <2>2. PICK both : both = l \o c.accounts
        OBVIOUS
  <2>3. IsList(both \o more) /\ \A a : a \in ToSet(both \o more) <=> a \in ToSet(both) \/ a \in ToSet(more)
        BY <1>16, <2>1, <2>2, JoinLists
  <2> QED BY <2>1, <2>2, <2>3
<1>21. /\ IsList(evidence)
       /\ \A a \in ToSet(evidence) : a \in ToSet(l) \/ a \in ToSet(c.accounts) \/ a \in ToSet(more)
       /\ ~c.suppress => \A a \in ToSet(l) : a \in ToSet(evidence)
  <2>1. evidence = IF c.suppress THEN c.accounts \o more ELSE (l \o c.accounts) \o more
        BY <1>17 DEF Evidence
  <2>2. CASE c.suppress
        BY <1>19, <2>1, <2>2
  <2>3. CASE ~c.suppress
        BY <1>20, <2>1, <2>3
  <2> QED BY <2>2, <2>3
<1>22. \A a \in ToSet(evidence) : Weighable(a)
       BY <1>5, <1>13, <1>16, <1>21 DEF LabelAccount, Weighable, Certain
<1>23. /\ Resolve(evidence).confidence = "confirmed" => \E a \in ToSet(evidence) : a.confidence = "confirmed"
       /\ (\E a \in ToSet(evidence) : a.confidence = "observed") =>
                Detected(Resolve(evidence).method) /\ Resolve(evidence).confidence \in {"confirmed", "observed"}
       BY <1>21, <1>22, ResolveFits
<1>24. ASSUME v.posture[k].confidence = "confirmed"
       PROVE  \/ p.phase = "connected" /\ \E r \in ToSet(v.routers[k]) : Guards(r)
              \/ \E app \in ToSet(i.assembled) : Proves(f, app, k)
  <2>1. PICK a \in ToSet(evidence) : a.confidence = "confirmed"
        BY <1>18, <1>23, <1>24
  <2>2. a \notin ToSet(l)
        BY <1>5, <2>1 DEF LabelAccount
  <2>3. CASE a \in ToSet(c.accounts)
        BY <1>7, <1>13, <1>14, <2>3
  <2>4. CASE a \in ToSet(more)
        BY <1>16, <2>1, <2>4
  <2> QED BY <1>21, <2>2, <2>3, <2>4
<1>25. ASSUME ~c.suppress, GateNamed(f, k)
       PROVE  Detected(v.posture[k].method) /\ v.posture[k].confidence \in {"confirmed", "observed"}
       BY <1>6, <1>18, <1>21, <1>23, <1>25
<1>26. ASSUME c.suppress
       PROVE  /\ p.phase = "connected" /\ p.snapshot.entrypointsRead
              /\ \E r \in ToSet(v.routers[k]) : Working(r)
              /\ \A r \in ToSet(v.routers[k]) : LiveFits(p.snapshot, r) /\ ~Guards(r)
       BY <1>7, <1>9, <1>13, <1>14, <1>26
<1> QED BY <1>12, <1>24, <1>25, <1>26

LEMMA ConcludeJudges ==
    ASSUME IInv, ProxyReads(proxy, world), IdentityReads(identity, world, far, edited), Conclude
    PROVE  Judged(verdict', fleet, proxy, identity)
<1>1. PICK f, p, i, v : f = fleet /\ p = proxy /\ i = identity /\ v = verdict'
      OBVIOUS
<1>2. PICK hints, apps, live, label, chain, key :
        Weighed(v, hints, apps, live, label, chain, f, key, p, i, NewRegistry(f))
  <2>1. PICK key : key = IdentityKey
        OBVIOUS
  <2>2. NewRegistry(f) = Registry
        BY <1>1 DEF Registry
  <2> QED BY <1>1, <2>1, <2>2, ConcludeWeighs
<1>3. SoundWorld(world)
      BY WorldsAssumption DEF IInv
<1>4. SoundFleet(f)
      BY <1>1, <1>3, SoundAfterRoutes DEF IInv, Conclude
<1>5. PICK w : w = world
      OBVIOUS
<1>6. ProxyReads(p, w) /\ IsList(i.assembled) /\ \A app \in ToSet(i.assembled) : IsList(app.providers)
      BY <1>1, <1>5 DEF IdentityReads
<1>7. \A k \in Keys(f) :
           /\ ~chain[k].suppress /\ GateNamed(f, k) =>
                Detected(v.posture[k].method) /\ v.posture[k].confidence \in {"confirmed", "observed"}
           /\ v.posture[k].confidence = "confirmed" =>
                \/ p.phase = "connected" /\ \E r \in ToSet(v.routers[k]) : Guards(r)
                \/ \E app \in ToSet(i.assembled) : Proves(f, app, k)
           /\ chain[k].suppress =>
                /\ p.phase = "connected" /\ p.snapshot.entrypointsRead
                /\ \E r \in ToSet(v.routers[k]) : Working(r)
                /\ \A r \in ToSet(v.routers[k]) : LiveFits(p.snapshot, r) /\ ~Guards(r)
      BY <1>2, <1>3, <1>4, <1>5, <1>6, OneWeighed
<1>8. v.suppressed = {k \in Keys(f) : chain[k].suppress}
      BY <1>2 DEF Weighed
<1>9. Judged(v, f, p, i)
      BY <1>7, <1>8 DEF Judged
<1> QED BY <1>1, <1>9

-----------------------------------------------------------------------------
(* What is published is what was judged. *)

\* Two fleets that look alike to whoever matches an application to a service.
LooksAlike(svc, other) ==
    /\ svc.name = other.name /\ svc.container = other.container /\ svc.docker = other.docker
    /\ svc.stack = other.stack /\ svc.tunnels = other.tunnels /\ svc.routers = other.routers
    /\ svc.labels = other.labels
Alike(f, g) ==
    /\ f.stacks = g.stacks /\ Keys(f) = Keys(g)
    /\ \A k \in Keys(f) : LooksAlike(Service(f, k), Service(g, k))

LEMMA KnownAlike ==
    ASSUME NEW f, NEW g, Alike(f, g)
    PROVE  /\ \A name : ByName(f, name) = ByName(g, name)
           /\ \A ip : ByIP(f, ip) = ByIP(g, ip)
           /\ \A host : ByHostname(f, host) = ByHostname(g, host)
           /\ \A k \in Keys(f) : NamesOf(f, k) = NamesOf(g, k)
<1>1. ASSUME NEW k \in Keys(f)
      PROVE  /\ DnsNames(Service(f, k)) = DnsNames(Service(g, k))
             /\ Hostnames(Service(f, k)) = Hostnames(Service(g, k))
             /\ Service(f, k).docker = Service(g, k).docker
             /\ NamesOf(f, k) = NamesOf(g, k)
  <2>1. PICK a, b : a = Service(f, k) /\ b = Service(g, k)
        OBVIOUS
  <2>2. LooksAlike(a, b)
        BY <2>1 DEF Alike
  <2>3. DnsNames(a) = DnsNames(b)
        BY <2>2 DEF DnsNames, LooksAlike
  <2>4. Hostnames(a) = Hostnames(b)
        BY <2>2 DEF Hostnames, LooksAlike
  <2>5. Stack(f, k) = Stack(g, k)
    <3>1. Stack(f, k) = f.stacks[a.stack] /\ Stack(g, k) = g.stacks[b.stack]
          BY <2>1 DEF Stack, Service
    <3> QED BY <2>2, <3>1 DEF LooksAlike, Alike
  <2>6. NamesOf(f, k) = NamesOf(g, k)
        BY <2>1, <2>2, <2>5 DEF NamesOf, LooksAlike
  <2> QED BY <2>1, <2>2, <2>3, <2>4, <2>6 DEF LooksAlike
<1>2. Keys(f) = Keys(g)
      BY DEF Alike
<1>3. ASSUME NEW name PROVE ByName(f, name) = ByName(g, name)
      BY <1>1, <1>2 DEF ByName
<1>4. ASSUME NEW ip PROVE ByIP(f, ip) = ByIP(g, ip)
      BY <1>1, <1>2 DEF ByIP
<1>5. ASSUME NEW host PROVE ByHostname(f, host) = ByHostname(g, host)
      BY <1>1, <1>2 DEF ByHostname
<1> QED BY <1>1, <1>3, <1>4, <1>5

LEMMA LeadsAlike ==
    ASSUME NEW f, NEW g, Alike(f, g)
    PROVE  /\ \A a : ByURL(f, a) = ByURL(g, a)
           /\ \A key : NamedRaw(f, key) = NamedRaw(g, key)
           /\ \A key : NamedTight(f, key) = NamedTight(g, key)
<1>1. ASSUME NEW a PROVE ByURL(f, a) = ByURL(g, a)
  <2>1. PICK h : h = ByHostname(f, a.host) /\ h = ByHostname(g, a.host)
        BY KnownAlike
  <2>2. PICK i : i = ByIP(f, a.host) /\ i = ByIP(g, a.host)
        BY KnownAlike
  <2>3. PICK n : n = ByName(f, a.host) /\ n = ByName(g, a.host)
        BY KnownAlike
  <2>4. ByURL(f, a) = FirstHolding(<< <<a.form = "none", {}>>, <<h # {}, h>>, <<a.form = "ip", i>>, <<TRUE, n>> >>)
        BY <2>1, <2>2, <2>3 DEF ByURL
  <2>5. ByURL(g, a) = FirstHolding(<< <<a.form = "none", {}>>, <<h # {}, h>>, <<a.form = "ip", i>>, <<TRUE, n>> >>)
        BY <2>1, <2>2, <2>3 DEF ByURL
  <2> QED BY <2>4, <2>5
<1>2. Keys(f) = Keys(g)
      BY DEF Alike
<1>3. \A k \in Keys(f) : NamesOf(f, k) = NamesOf(g, k)
      BY KnownAlike
<1>4. ASSUME NEW key PROVE NamedRaw(f, key) = NamedRaw(g, key)
      BY <1>2, <1>3 DEF NamedRaw
<1>5. ASSUME NEW key PROVE NamedTight(f, key) = NamedTight(g, key)
      BY <1>2, <1>3 DEF NamedTight
<1> QED BY <1>1, <1>4, <1>5

LEMMA MatchesAlike ==
    ASSUME NEW f, NEW g, Alike(f, g), NEW app
    PROVE  MatchApplication(f, app) = MatchApplication(g, app)
<1>1. RuleInternalHost(f, app) = RuleInternalHost(g, app)
  <2>1. PICK hosts : hosts = {p.internal : p \in {p \in ToSet(app.providers) : p.kind = "proxy" /\ IsAddress(p.internal)}}
        OBVIOUS
  <2>2. {ByURL(f, a) : a \in hosts} = {ByURL(g, a) : a \in hosts}
        BY LeadsAlike
  <2>3. PICK found : found = UNION {ByURL(f, a) : a \in hosts} /\ found = UNION {ByURL(g, a) : a \in hosts}
        BY <2>2
  <2>4. RuleInternalHost(f, app) = Rule(hosts # {}, found, FALSE)
        BY <2>1, <2>3 DEF RuleInternalHost
  <2>5. RuleInternalHost(g, app) = Rule(hosts # {}, found, FALSE)
        BY <2>1, <2>3 DEF RuleInternalHost
  <2> QED BY <2>4, <2>5
<1>2. RuleURLHost(f, app) = RuleURLHost(g, app)
  <2>1. PICK urls : urls = HandedOut(app)
        OBVIOUS
  <2>2. PICK bare : bare = {a \in urls : a.form = "bare"}
        OBVIOUS
  <2>3. \A name : ByName(f, name) = ByName(g, name)
        BY KnownAlike
  <2>4. {ByName(f, a.host) : a \in bare} = {ByName(g, a.host) : a \in bare}
        BY <2>3
  <2>5. PICK found : found = UNION {ByName(f, a.host) : a \in bare} /\ found = UNION {ByName(g, a.host) : a \in bare}
        BY <2>4
  <2>6. PICK declined : declined = IF urls = {} THEN Declined(app) ELSE \E a \in urls : a.form # "bare"
        OBVIOUS
  <2>7. RuleURLHost(f, app) = Rule(urls # {}, found, IF urls = {} THEN Declined(app) ELSE \E a \in urls : a.form # "bare")
        BY <2>1, <2>2, <2>5 DEF RuleURLHost
  <2>8. RuleURLHost(g, app) = Rule(urls # {}, found, IF urls = {} THEN Declined(app) ELSE \E a \in urls : a.form # "bare")
        BY <2>1, <2>2, <2>5 DEF RuleURLHost
  <2> QED BY <2>7, <2>8
<1>3. RuleHostname(f, app) = RuleHostname(g, app)
  <2>1. PICK hosts : hosts = {a.host : a \in {a \in HandedOut(app) : a.form # "ip"}}
        OBVIOUS
  <2>2. {ByHostname(f, h) : h \in hosts} = {ByHostname(g, h) : h \in hosts}
        BY KnownAlike
  <2>3. PICK found : found = UNION {ByHostname(f, h) : h \in hosts} /\ found = UNION {ByHostname(g, h) : h \in hosts}
        BY <2>2
  <2>4. RuleHostname(f, app) = Rule(hosts # {}, found, FALSE)
        BY <2>1, <2>3 DEF RuleHostname
  <2>5. RuleHostname(g, app) = Rule(hosts # {}, found, FALSE)
        BY <2>1, <2>3 DEF RuleHostname
  <2> QED BY <2>4, <2>5
<1>4. RuleName(f, app) = RuleName(g, app)
  <2>1. PICK names : names = <<app.slug, app.name>> \o [i \in DOMAIN app.providers |-> app.providers[i].name]
        OBVIOUS
  <2> DEFINE raw(x) == [i \in DOMAIN names |-> [key |-> Fold[names[i]], found |-> NamedRaw(x, Fold[names[i]])]]
             tight(x) == [i \in DOMAIN names |-> [key |-> Tighten(Tokens[names[i]]),
                                                   found |-> NamedTight(x, Tighten(Tokens[names[i]]))]]
             strip(x) == [i \in DOMAIN names |-> [key |-> StripMechanism(names[i]),
                                                   found |-> NamedTight(x, StripMechanism(names[i]))]]
             Named3(tries) ==
                LET tried == {i \in DOMAIN tries : Len(tries[i].key) >= MinDerivedKey}
                    hits == {i \in tried : tries[i].found # {}}
                IN  Rule(tried # {}, IF hits = {} THEN {} ELSE tries[Min(hits)].found, FALSE)
  <2>2. raw(f) = raw(g)
        BY LeadsAlike
  <2>3. tight(f) = tight(g)
        BY LeadsAlike
  <2>4. strip(f) = strip(g)
        BY LeadsAlike
  <2>5. RuleName(f, app) = Named3(raw(f) \o tight(f) \o strip(f))
        BY <2>1 DEF RuleName
  <2>6. RuleName(g, app) = Named3(raw(g) \o tight(g) \o strip(g))
        BY <2>1 DEF RuleName
  <2> HIDE DEF raw, tight, strip, Named3
  <2>7. raw(f) \o tight(f) \o strip(f) = raw(g) \o tight(g) \o strip(g)
        BY <2>2, <2>3, <2>4
  <2> QED BY <2>5, <2>6, <2>7
<1> QED BY <1>1, <1>2, <1>3, <1>4 DEF MatchApplication

LEMMA JudgedAlike ==
    ASSUME NEW f, NEW g, Alike(f, g), NEW v, NEW p, NEW i, Judged(v, f, p, i)
    PROVE  Judged(v, g, p, i)
<1>1. Keys(f) = Keys(g)
      BY DEF Alike
<1>2. \A k \in Keys(f) : /\ Service(f, k).routers = Service(g, k).routers
                          /\ Service(f, k).labels = Service(g, k).labels
      BY DEF Alike, LooksAlike
<1>3. ASSUME NEW k \in Keys(g) PROVE GateNamed(g, k) => GateNamed(f, k)
      BY <1>1, <1>2 DEF GateNamed
<1>4. ASSUME NEW app, NEW k, Proves(f, app, k) PROVE Proves(g, app, k)
  <2>1. PICK match : match = MatchApplication(f, app) /\ match = MatchApplication(g, app)
        BY MatchesAlike
  <2> QED BY <1>4, <2>1 DEF Proves
<1>5. \A k \in Keys(g) : v.posture[k].confidence = "confirmed" =>
         \/ p.phase = "connected" /\ \E r \in ToSet(v.routers[k]) : Guards(r)
         \/ \E app \in ToSet(i.assembled) : Proves(g, app, k)
      BY <1>1, <1>4 DEF Judged
<1>6. \A k \in Keys(g) \ v.suppressed : GateNamed(g, k) =>
         Detected(v.posture[k].method) /\ v.posture[k].confidence \in {"confirmed", "observed"}
      BY <1>1, <1>3 DEF Judged
<1> QED BY <1>1, <1>5, <1>6 DEF Judged

LEMMA PublishJudges ==
    ASSUME SoundWorld(world), FleetFits(fleet, "publish"), Publish, Judged(verdict, fleet, proxy, identity)
    PROVE  Judged(verdict', fleet', proxy', identity')
<1>1. PICK f, g, v, p, i : f = fleet /\ g = fleet' /\ v = verdict /\ p = proxy /\ i = identity
      OBVIOUS
<1>2. v = verdict' /\ p = proxy' /\ i = identity'
      BY <1>1 DEF Publish
<1>3. PICK w : w = world
      OBVIOUS
<1>4. /\ FleetFits(fleet', "done") /\ g.stacks = f.stacks /\ Keys(g) = Keys(f)
      /\ \A k \in Keys(f) : Service(g, k).tunnels = Service(f, k).tunnels /\ Service(g, k).routers = Service(f, k).routers
      BY <1>1, PublishKeeps
<1>5. /\ \A k \in Keys(f) : SameService(Service(f, k), Service(w.fleet, k))
      /\ \A k \in Keys(g) : SameService(Service(g, k), Service(w.fleet, k))
  <2>1. \A k \in Keys(f) : SameService(Service(f, k), Service(w.fleet, k))
        BY <1>1, <1>3 DEF FleetFits
  <2>2. world' = world
        BY DEF Publish
  <2>3. \A k \in Keys(g) : SameService(Service(g, k), Service(w.fleet, k))
        BY <1>1, <1>3, <1>4, <2>2 DEF FleetFits
  <2> QED BY <2>1, <2>3
<1>6. ASSUME NEW k \in Keys(f) PROVE LooksAlike(Service(f, k), Service(g, k))
      BY <1>4, <1>5 DEF SameService, LooksAlike
<1>7. Alike(f, g)
      BY <1>4, <1>6 DEF Alike
<1>8. Judged(v, f, p, i)
      BY <1>1
<1>9. Judged(v, g, p, i)
      BY <1>7, <1>8, JudgedAlike
<1> QED BY <1>1, <1>2, <1>9

-----------------------------------------------------------------------------
(* The second invariant: what was read, and what was concluded of it. *)

ReadsInv ==
    /\ IInv
    /\ ProxyReads(proxy, world)
    /\ IdentityReads(identity, world, far, edited)
    /\ stage \in {"publish", "done"} => Judged(verdict, fleet, proxy, identity)

LEMMA ReadsStart ==
    ASSUME Init
    PROVE  ReadsInv
<1>1. SoundWorld(world)
      BY WorldsAssumption DEF Init
<1>2. IsList(<<>>) /\ ToSet(<<>>) = {}
  <2>1. <<>> \in Seq({}) /\ ToSet(<<>>) = {}
        BY DEF ToSet
  <2> QED BY <2>1, SeqIsList
<1>3. ProxyReads(proxy, world)
  <2>1. PICK p : p = proxy
        OBVIOUS
  <2>2. p.snapshot = NoSnapshot /\ p.pc = "idle"
        BY <2>1 DEF Init, NoProxy
  <2>3. NoSnapshot.entrypointsRead = FALSE
        BY DEF NoSnapshot
  <2> QED BY <2>1, <2>2, <2>3 DEF ProxyReads, SnapFits
<1>4. IdentityReads(identity, world, far, edited)
  <2>1. PICK p : p = identity
        OBVIOUS
  <2>2. /\ p.pc = "idle" /\ p.page = 1 /\ p.applications = <<>> /\ p.proxy = <<>> /\ p.oauth2 = <<>>
        /\ p.outposts = <<>> /\ p.assembled = <<>>
        BY <2>1 DEF Init, NoIdentity
  <2>3. far = world.applications /\ IsList(far)
        BY <1>1 DEF Init, SoundWorld
  <2>4. \A l \in Listing : IsList(p[l])
        BY <1>2, <2>2 DEF Listing
  <2> QED BY <1>2, <2>1, <2>2, <2>3, <2>4 DEF IdentityReads, Listing
<1>5. stage = "routes"
      BY DEF Init
<1> QED BY <1>3, <1>4, <1>5, Start DEF ReadsInv

LEMMA ReadsStep ==
    ASSUME ReadsInv, [Next]_vars
    PROVE  ReadsInv'
<1>1. SoundWorld(world)
      BY WorldsAssumption DEF ReadsInv, IInv
<1>2. IInv'
      BY Step DEF ReadsInv
<1>3. IInv /\ ProxyReads(proxy, world) /\ IdentityReads(identity, world, far, edited)
      BY DEF ReadsInv
<1>4. ASSUME UNCHANGED world, ProxyReads(proxy', world), IdentityReads(identity', world, far', edited'),
             stage' \notin {"publish", "done"}
      PROVE  ReadsInv'
      BY <1>2, <1>4 DEF ReadsInv
<1>5. CASE ProxyStart \/ ProxyVersion \/ ProxyRetry \/ ProxyRawData \/ ProxyEntrypoints
  <2>1. ProxyReads(proxy', world)
        BY <1>3, <1>5, ProxyHoldsOn, ProxyReadsOnceMore
  <2>2. stage = "read" /\ UNCHANGED <<world, stage, identity, far, edited>>
        BY <1>5 DEF ProxyStart, ProxyVersion, ProxyRetry, ProxyRawData, ProxyEntrypoints, Reading, OnlyProxy
  <2>3. IdentityReads(identity', world, far', edited')
        BY <1>3, <2>2
  <2> QED BY <1>4, <2>1, <2>2, <2>3
<1>6. CASE IdentityStart \/ IdentityProbe \/ IdentityPage
  <2>1. IdentityReads(identity', world, far, edited)
        BY <1>3, <1>6, IdentityStartReads, IdentityProbeReads, IdentityPageReads
  <2>2. stage = "read" /\ UNCHANGED <<world, stage, proxy, far, edited>>
        BY <1>6 DEF IdentityStart, IdentityProbe, IdentityPage, Reading, OnlyIdentity
  <2>3. IdentityReads(identity', world, far', edited') /\ ProxyReads(proxy', world)
        BY <1>3, <2>1, <2>2
  <2> QED BY <1>4, <2>2, <2>3
<1>7. CASE Edit
  <2>1. IdentityReads(identity', world, far', edited')
        BY <1>3, <1>7, EditReads
  <2>2. stage = "read" /\ UNCHANGED <<world, stage, proxy>>
        BY <1>7 DEF Edit, Reading, OnlyIdentity
  <2>3. ProxyReads(proxy', world)
        BY <1>3, <2>2
  <2> QED BY <1>4, <2>1, <2>2, <2>3
<1>8. CASE Routes
  <2>1. stage' = "read" /\ UNCHANGED <<world, proxy, identity, far, edited>>
        BY <1>8 DEF Routes
  <2>2. ProxyReads(proxy', world) /\ IdentityReads(identity', world, far', edited')
        BY <1>3, <2>1
  <2> QED BY <1>4, <2>1, <2>2
<1>9. CASE Conclude
  <2>1. Judged(verdict', fleet, proxy, identity)
        BY <1>3, <1>9, ConcludeJudges
  <2>2. UNCHANGED <<world, fleet, proxy, identity, far, edited>>
        BY <1>9 DEF Conclude
  <2>3. ProxyReads(proxy', world') /\ IdentityReads(identity', world', far', edited')
        BY <1>3, <2>2
  <2>4. Judged(verdict', fleet', proxy', identity')
        BY <2>1, <2>2
  <2> QED BY <1>2, <2>3, <2>4 DEF ReadsInv
<1>10. CASE Publish
  <2>1. stage = "publish" /\ UNCHANGED <<world, proxy, identity, far, edited>>
        BY <1>10 DEF Publish
  <2>2. FleetFits(fleet, "publish") /\ Judged(verdict, fleet, proxy, identity)
        BY <2>1 DEF ReadsInv, IInv
  <2>3. Judged(verdict', fleet', proxy', identity')
        BY <1>1, <1>10, <2>2, PublishJudges
  <2>4. ProxyReads(proxy', world') /\ IdentityReads(identity', world', far', edited')
        BY <1>3, <2>1
  <2> QED BY <1>2, <2>3, <2>4 DEF ReadsInv
<1>11. CASE Finished \/ UNCHANGED vars
  <2>1. UNCHANGED <<world, fleet, stage, proxy, identity, far, edited, verdict>>
        BY <1>11 DEF Finished, vars
  <2>2. ProxyReads(proxy', world') /\ IdentityReads(identity', world', far', edited')
        BY <1>3, <2>1
  <2>3. stage' \in {"publish", "done"} => Judged(verdict', fleet', proxy', identity')
        BY <2>1 DEF ReadsInv
  <2> QED BY <1>2, <2>2, <2>3 DEF ReadsInv
<1> QED BY <1>5, <1>6, <1>7, <1>8, <1>9, <1>10, <1>11 DEF Next

LEMMA ReadsInductive == Spec => []ReadsInv
<1>1. Init => ReadsInv
      BY ReadsStart
<1>2. ReadsInv /\ [Next]_vars => ReadsInv'
      BY ReadsStep
<1> QED BY <1>1, <1>2, PTL DEF Spec

\* What a posture rests on, where it is not contradicted: a gate that the labels of any scanned fleet
\* name is never reported as weaker than observed.
THEOREM SilenceNeverWeakens == Spec => []SilenceWeakensNothing
<1>1. ASSUME ReadsInv PROVE SilenceWeakensNothing
  <2> SUFFICES ASSUME stage \in {"publish", "done"}, NEW k \in Keys(fleet) \ verdict.suppressed
               PROVE  LET routes == Service(fleet, k).routers
                          gates == {ref \in UNION {ToSet(routes[i].middlewares) : i \in DOMAIN routes} :
                              BareName[ref] # "" /\ \E s \in Keys(fleet), t \in {"forwardauth", "basicauth", "digestauth"} :
                                  <<"middlewares", BareName[ref], t>> \in DOMAIN Service(fleet, s).labels}
                      IN  gates # {} => Detected(verdict.posture[k].method)
                                        /\ verdict.posture[k].confidence \in {"confirmed", "observed"}
      BY DEF SilenceWeakensNothing
  <2>1. PICK routes : routes = Service(fleet, k).routers
        OBVIOUS
  <2>2. PICK gates : gates = {ref \in UNION {ToSet(routes[i].middlewares) : i \in DOMAIN routes} :
                              BareName[ref] # "" /\ \E s \in Keys(fleet), t \in {"forwardauth", "basicauth", "digestauth"} :
                                  <<"middlewares", BareName[ref], t>> \in DOMAIN Service(fleet, s).labels}
        OBVIOUS
  <2>3. ASSUME NEW ref \in gates PROVE GateNamed(fleet, k)
    <3>1. PICK i \in DOMAIN routes : ref \in ToSet(routes[i].middlewares)
          BY <2>2
    <3>2. routes[i] \in ToSet(routes)
          BY <3>1 DEF ToSet
    <3>3. PICK s \in Keys(fleet), t \in {"forwardauth", "basicauth", "digestauth"} :
               <<"middlewares", BareName[ref], t>> \in DOMAIN Service(fleet, s).labels
          BY <2>2
    <3>4. BareName[ref] # "" /\ t \in GateTypes
          BY <2>2, <3>3 DEF GateTypes
    <3> QED BY <2>1, <3>1, <3>2, <3>3, <3>4 DEF GateNamed
  <2>4. GateNamed(fleet, k) => Detected(verdict.posture[k].method) /\ verdict.posture[k].confidence \in {"confirmed", "observed"}
        BY <1>1 DEF ReadsInv, Judged
  <2> QED BY <2>1, <2>2, <2>3, <2>4
<1> QED BY <1>1, ReadsInductive, PTL

\* A gate said to be confirmed is one that a request really meets, whatever was scanned and however
\* the far ends answered: it stands in a working router's chain, or an application's provider does.
THEOREM TheConfirmedIsEnforced == Spec => []ConfirmedMeansEnforced
<1>1. ASSUME ReadsInv PROVE ConfirmedMeansEnforced
  <2> SUFFICES ASSUME stage \in {"publish", "done"}, NEW k \in Keys(fleet), verdict.posture[k].confidence = "confirmed"
               PROVE  \/ /\ proxy.phase = "connected"
                         /\ \E r \in ToSet(verdict.routers[k]) :
                              Working(r) /\ \E mw \in ToSet(r.middlewares) : AuthMethodOf(mw.type) # "none"
                      \/ \E app \in ToSet(identity.assembled) :
                           LET match == MatchApplication(fleet, app)
                           IN  match.key = k /\ ~ByNameAlone(match) /\ \E p \in ToSet(app.providers) : Enforced(p)
      BY DEF ConfirmedMeansEnforced
  <2>1. Judged(verdict, fleet, proxy, identity)
        BY <1>1 DEF ReadsInv
  <2>2. CASE proxy.phase = "connected" /\ \E r \in ToSet(verdict.routers[k]) : Guards(r)
        BY <2>2 DEF Guards
  <2>3. CASE \E app \in ToSet(identity.assembled) : Proves(fleet, app, k)
        BY <2>3 DEF Proves
  <2> QED BY <2>1, <2>2, <2>3 DEF Judged
<1> QED BY <1>1, ReadsInductive, PTL

\* No application is lost without a word, whatever the policy hid, the page limit cut off or a record
\* named twice: a read that is called complete knows every one the provider has.
THEOREM TheMissingIsSaid == Spec => []WhatIsMissingIsSaid
<1>1. ASSUME ReadsInv PROVE WhatIsMissingIsSaid
  <2> SUFFICES ASSUME identity.pc = "over", OK(identity.phase), world.counted, ~edited
               PROVE  LET known == {identity.assembled[i].slug : i \in DOMAIN identity.assembled}
                      IN  (identity.phase = "connected") = (\A i \in DOMAIN far : far[i].slug \in known)
      BY DEF WhatIsMissingIsSaid
  <2>1. PICK all, list : all = identity.assembled /\ list = far
        OBVIOUS
  <2>2. MissingIsSaid(identity, far)
        BY <1>1 DEF ReadsInv, IdentityReads
  <2>3. PICK known : known = {all[i].slug : i \in DOMAIN all}
        OBVIOUS
  <2>4. \A slug : slug \in known <=> \E app \in ToSet(all) : app.slug = slug
        BY <2>3 DEF ToSet
  <2>5. (identity.phase = "connected") = (\A n \in DOMAIN list : \E app \in ToSet(all) : app.slug = list[n].slug)
        BY <2>1, <2>2 DEF MissingIsSaid
  <2>6. (\A n \in DOMAIN list : \E app \in ToSet(all) : app.slug = list[n].slug) <=> (\A n \in DOMAIN list : list[n].slug \in known)
        BY <2>4
  <2> QED BY <2>1, <2>3, <2>5, <2>6
<1> QED BY <1>1, ReadsInductive, PTL

-----------------------------------------------------------------------------
(* What the labels claim is set aside only where the proxy's own table shows that nothing gates. *)

\* What a middleware of the table leads on to, and what a router's requests start from.
Inner(w, ref) ==
    IF ref \in DOMAIN w.table.middlewares /\ "chain" \in DOMAIN w.table.middlewares[ref].body
      THEN ToSet(w.table.middlewares[ref].body["chain"]) ELSE {}
Attached(w, router) == UNION {ToSet(w.entrypoints[ep]) : ep \in ToSet(router.entryPoints) \cap DOMAIN w.entrypoints}

\* Whatever holds of what a router starts from, and is handed on from each reference to those behind
\* it, holds of all its requests pass.
LEMMA PassedStays ==
    ASSUME SoundTable(world.table), NEW router, NEW Z, ToSet(router.middlewares) \cup Attached(world, router) \subseteq Z,
           \A ref \in Z : Inner(world, ref) \subseteq Z
    PROVE  Passed(router) \subseteq Z
<1> DEFINE defs == world.table.middlewares
           attached == UNION {ToSet(world.entrypoints[ep]) : ep \in ToSet(router.entryPoints) \cap DOMAIN world.entrypoints}
           inner(ref) == IF ref \in DOMAIN defs /\ "chain" \in DOMAIN defs[ref].body
                           THEN ToSet(defs[ref].body["chain"]) ELSE {}
           Level(g, n) == IF n = 0 THEN ToSet(router.middlewares) \cup attached
                          ELSE g[n - 1] \cup UNION {inner(ref) : ref \in g[n - 1]}
           Reads(g) == g = [n \in 0..Cardinality(DOMAIN defs) |-> Level(g, n)]
<1>1. PICK m \in Nat : m = Cardinality(DOMAIN defs)
  <2>1. IsFiniteSet(DOMAIN defs)
        BY DEF SoundTable
  <2>2. Cardinality(DOMAIN defs) \in Nat
        BY <2>1, FS_CardinalityType
  <2> QED BY <2>2
<1>2. PICK start : start = ToSet(router.middlewares) \cup attached
      OBVIOUS
<1>3. \A ref : inner(ref) = Inner(world, ref)
      BY DEF Inner
<1>4. start \subseteq Z
      BY <1>2 DEF Attached
<1>5. PICK D : D = SUBSET Z
      OBVIOUS
<1>6. PICK next : next = [v \in D |-> v \cup UNION {inner(ref) : ref \in v}]
      OBVIOUS
<1>7. next \in [D -> D]
  <2>1. ASSUME NEW v \in D PROVE v \cup UNION {inner(ref) : ref \in v} \in D
    <3>1. \A ref \in v : inner(ref) \subseteq Z
          BY <1>3, <1>5
    <3> HIDE DEF inner
    <3> QED BY <1>5, <3>1
  <2> HIDE DEF inner
  <2> QED BY <1>6, <2>1
<1>8. \E g : Reads(g)
  <2>1. start \in D
        BY <1>4, <1>5
  <2>2. PICK g \in [0..m -> D] : g[0] = start /\ \A i \in 1..m : g[i] = next[g[i - 1]]
    <3>1. \E g : Levels(D, start, next, m, g)
          BY <1>7, <2>1, LevelsExist
    <3> QED BY <3>1 DEF Levels
  <2>3. ASSUME NEW n \in 0..m PROVE g[n] = Level(g, n)
    <3>1. CASE n = 0
          BY <1>2, <2>2, <3>1
    <3>2. CASE n # 0
      <4>1. n \in 1..m /\ n - 1 \in 0..m
            BY <3>2
      <4>2. PICK v \in D : v = g[n - 1]
            BY <2>2, <4>1
      <4>3. g[n] = v \cup UNION {inner(ref) : ref \in v}
        <5> HIDE DEF inner
        <5> QED BY <1>6, <2>2, <4>1, <4>2
      <4>4. Level(g, n) = v \cup UNION {inner(ref) : ref \in v}
            BY <3>2, <4>2
      <4> QED BY <4>3, <4>4
    <3> QED BY <3>1, <3>2
  <2>4. g = [n \in 0..m |-> g[n]]
        BY <2>2
  <2>5. Reads(g)
    <3> HIDE DEF Level
    <3> QED BY <1>1, <2>3, <2>4
  <2> QED BY <2>5
<1>9. PICK g : g = CHOOSE h : Reads(h)
      OBVIOUS
<1>10. Reads(g)
  <2> HIDE DEF Reads
  <2> QED BY <1>8, <1>9
<1>11. Passed(router) = g[m]
       BY <1>1, <1>9 DEF Passed
<1>12. \A n \in 0..m : g[n] = Level(g, n)
  <2> HIDE DEF Level
  <2> QED BY <1>1, <1>10
<1> DEFINE Q == {n \in Nat : n \in 0..m => g[n] \subseteq Z}
<1>13. 0 \in Q
  <2>1. 0 \in 0..m
        OBVIOUS
  <2>2. g[0] = start
        BY <1>2, <1>12, <2>1
  <2> QED BY <1>4, <2>2
<1>14. ASSUME NEW n \in Nat, n \in Q PROVE n + 1 \in Q
  <2>1. CASE n + 1 \in 0..m
    <3>1. n \in 0..m /\ n + 1 # 0 /\ (n + 1) - 1 = n
          BY <2>1
    <3>2. PICK v : v = g[n]
          OBVIOUS
    <3>3. v \subseteq Z
          BY <1>14, <3>1, <3>2
    <3>4. g[n + 1] = v \cup UNION {inner(ref) : ref \in v}
      <4>1. g[n + 1] = Level(g, n + 1)
            BY <1>12, <2>1
      <4>2. Level(g, n + 1) = v \cup UNION {inner(ref) : ref \in v}
            BY <3>1, <3>2
      <4> QED BY <4>1, <4>2
    <3>5. \A ref \in v : inner(ref) \subseteq Z
          BY <1>3, <3>3
    <3>6. g[n + 1] \subseteq Z
      <4> HIDE DEF inner
      <4> QED BY <3>3, <3>4, <3>5
    <3> QED BY <3>6
  <2>2. CASE n + 1 \notin 0..m
        BY <2>2
  <2> QED BY <2>1, <2>2
<1>15. m \in Q
  <2> HIDE DEF Q
  <2> QED BY <1>13, <1>14, SetInduction
<1> QED BY <1>11, <1>15

\* A middleware that was read has the type of its body's one field, and leads on to what the body does.
LEMMA ReadAsWritten ==
    ASSUME SoundTable(world.table), NEW snap, snap.middlewares = AbsorbMiddlewares(world.table.middlewares),
           NEW ref \in DOMAIN world.table.middlewares
    PROVE  /\ ref \in DOMAIN snap.middlewares
           /\ Inner(world, ref) # {} => ToSet(snap.middlewares[ref].chain) = Inner(world, ref)
           /\ \A t \in GateTypes : t \in DOMAIN world.table.middlewares[ref].body => snap.middlewares[ref].type = t
<1>1. PICK wire : wire = world.table.middlewares
      OBVIOUS
<1>2. PICK one, body : one = wire[ref] /\ body = one.body
      OBVIOUS
<1>3. PICK m : m = ParseMiddleware(ref, one)
      OBVIOUS
<1>4. \A r \in DOMAIN wire : "chain" \in DOMAIN wire[r].body => IsList(wire[r].body["chain"])
      BY <1>1 DEF SoundTable
<1>5. ref \in DOMAIN snap.middlewares /\ snap.middlewares[ref] = m
      BY <1>1, <1>2, <1>3, <1>4, AbsorbFits
<1>6. "chain" \in DOMAIN one.body => IsList(one.body["chain"])
      BY <1>1, <1>2, <1>4
<1>7. /\ m.type # "" => m.type \in DOMAIN body /\ m.type \in ToSet(TypeOrder)
      /\ m.type = "chain" => m.chain = body["chain"]
      /\ (\E t \in ToSet(TypeOrder) : t \in DOMAIN body) => m.type # ""
  <2>1. /\ m.type # "" => m.type \in DOMAIN one.body /\ m.type \in ToSet(TypeOrder)
        /\ m.type = "chain" => m.chain = one.body["chain"]
        /\ (\E t \in ToSet(TypeOrder) : t \in DOMAIN one.body) => m.type # ""
        BY <1>3, <1>6, ParsedFits
  <2> QED BY <1>2, <2>1
<1>8. \A t, other \in ToSet(TypeOrder) \cap DOMAIN body : t = other
      BY <1>1, <1>2 DEF SoundTable
<1>9. "chain" \in ToSet(TypeOrder) /\ GateTypes \subseteq ToSet(TypeOrder)
  <2>1. /\ TypeOrder[1] = "basicauth" /\ TypeOrder[2] = "chain" /\ TypeOrder[3] = "digestauth"
        /\ TypeOrder[4] = "forwardauth" /\ DOMAIN TypeOrder = 1..5
        BY DEF TypeOrder
  <2>2. 1 \in 1..5 /\ 2 \in 1..5 /\ 3 \in 1..5 /\ 4 \in 1..5
        OBVIOUS
  <2> QED BY <2>1, <2>2 DEF ToSet, GateTypes
<1>10. ASSUME NEW t \in ToSet(TypeOrder), t \in DOMAIN body PROVE m.type = t
       BY <1>7, <1>8, <1>10
<1>11. ASSUME Inner(world, ref) # {} PROVE ToSet(m.chain) = Inner(world, ref)
  <2>1. Inner(world, ref) = IF "chain" \in DOMAIN body THEN ToSet(body["chain"]) ELSE {}
        BY <1>1, <1>2 DEF Inner
  <2>2. "chain" \in DOMAIN body
        BY <1>11, <2>1
  <2> QED BY <1>7, <1>9, <1>10, <2>1, <2>2
<1> QED BY <1>1, <1>2, <1>5, <1>9, <1>10, <1>11

\* Where a whole chain has no gate and nothing in it was too deep, no request of its router meets one.
LEMMA NothingGates ==
    ASSUME SoundWorld(world), NEW snap, SnapFits(snap, world), snap.entrypointsRead, NEW raw \in ToSet(snap.routers),
           NEW chain, chain = ChainOf(snap, raw), ~Deeper(chain), \A e \in ToSet(chain) : e.type \notin GateTypes
    PROVE  /\ raw \in ToSet(world.table.routers)
           /\ \A ref \in Passed(raw) \cap DOMAIN world.table.middlewares :
                DOMAIN world.table.middlewares[ref].body \cap GateTypes = {}
<1>1. SoundTable(world.table)
      BY DEF SoundWorld
<1>2. /\ snap.routers = world.table.routers
      /\ snap.middlewares = AbsorbMiddlewares(world.table.middlewares)
      /\ snap.entrypoints = world.entrypoints
  <2>1. NoSnapshot.entrypointsRead = FALSE
        BY DEF NoSnapshot
  <2> QED BY <2>1 DEF SnapFits
<1>3. SoundSnapshot(snap)
      BY SnapshotIsSound
<1>4. PICK seen : Opens(snap, {}, chain, seen) /\ Starts(snap, raw) \subseteq seen \cup {""}
      BY <1>3, ChainOpens
<1>5. PICK Z : Z = seen \cup {""}
      OBVIOUS
<1>6. ToSet(raw.middlewares) \cup Attached(world, raw) \subseteq Z
      BY <1>2, <1>4, <1>5 DEF Starts, Attached
<1>7. ASSUME NEW ref \in Z, ref \in DOMAIN world.table.middlewares
      PROVE  /\ \E e \in ToSet(chain) : e.type = snap.middlewares[ref].type
             /\ ToSet(snap.middlewares[ref].chain) \subseteq Z
  <2>1. ref # ""
        BY <1>1, <1>7 DEF SoundTable
  <2>2. ref \in seen \ {} /\ ref \in DOMAIN snap.middlewares
        BY <1>1, <1>2, <1>5, <1>7, <2>1, ReadAsWritten
  <2>3. Shown(snap, ref, chain, seen)
        BY <1>4, <2>2 DEF Opens
  <2> QED BY <1>5, <2>3 DEF Shown
<1>8. ASSUME NEW ref \in Z PROVE Inner(world, ref) \subseteq Z
  <2>1. CASE Inner(world, ref) = {}
        BY <2>1
  <2>2. CASE Inner(world, ref) # {}
    <3>1. ref \in DOMAIN world.table.middlewares
          BY <2>2 DEF Inner
    <3>2. ToSet(snap.middlewares[ref].chain) = Inner(world, ref)
          BY <1>1, <1>2, <2>2, <3>1, ReadAsWritten
    <3> QED BY <1>7, <3>1, <3>2
  <2> QED BY <2>1, <2>2
<1>9. Passed(raw) \subseteq Z
      BY <1>1, <1>6, <1>8, PassedStays
<1>10. ASSUME NEW ref \in Passed(raw) \cap DOMAIN world.table.middlewares, NEW t \in GateTypes,
              t \in DOMAIN world.table.middlewares[ref].body
       PROVE  FALSE
  <2>1. snap.middlewares[ref].type = t
        BY <1>1, <1>2, <1>10, ReadAsWritten
  <2>2. \E e \in ToSet(chain) : e.type = t
        BY <1>7, <1>9, <2>1
  <2> QED BY <2>2
<1> QED BY <1>2, <1>10

\* What the labels claim is only set aside where the proxy proves it wrong, for every routing table it
\* may have: read to the end, a router of the service works, and no chain a working one names, its
\* entrypoints' included, has a gate anywhere in it.
THEOREM SuppressionNeedsProof == Spec => []SuppressionIsProven
<1>1. ASSUME ReadsInv PROVE SuppressionIsProven
  <2> SUFFICES ASSUME stage \in {"publish", "done"}, NEW k \in verdict.suppressed
               PROVE  LET working == {r \in ToSet(verdict.routers[k]) : Working(r)}
                      IN  /\ proxy.phase = "connected"
                          /\ working # {}
                          /\ \A r \in working :
                               \/ \E mw \in ToSet(r.middlewares) : mw.error = "deeper"
                               \/ LET raw == CHOOSE x \in ToSet(world.table.routers) : x.name = r.router
                                  IN  \A ref \in Passed(raw) \cap DOMAIN world.table.middlewares :
                                        DOMAIN world.table.middlewares[ref].body
                                          \cap {"forwardauth", "basicauth", "digestauth"} = {}
      BY DEF SuppressionIsProven
  <2>1. PICK working : working = {r \in ToSet(verdict.routers[k]) : Working(r)}
        OBVIOUS
  <2>2. SoundWorld(world)
        BY <1>1, WorldsAssumption DEF ReadsInv, IInv
  <2>3. PICK snap : snap = proxy.snapshot
        OBVIOUS
  <2>4. Judged(verdict, fleet, proxy, identity)
        BY <1>1 DEF ReadsInv
  <2>5. /\ proxy.phase = "connected" /\ snap.entrypointsRead
        /\ \E r \in ToSet(verdict.routers[k]) : Working(r)
        /\ \A r \in ToSet(verdict.routers[k]) : LiveFits(snap, r) /\ ~Guards(r)
        BY <2>3, <2>4 DEF Judged
  <2>6. SnapFits(snap, world)
        BY <1>1, <2>3 DEF ReadsInv, ProxyReads
  <2>7. ASSUME NEW r \in working, ~ \E mw \in ToSet(r.middlewares) : mw.error = "deeper", NEW x,
               x = CHOOSE other \in ToSet(world.table.routers) : other.name = r.router
        PROVE  \A ref \in Passed(x) \cap DOMAIN world.table.middlewares :
                 DOMAIN world.table.middlewares[ref].body \cap GateTypes = {}
    <3>1. PICK raw \in ToSet(snap.routers) : r.router = raw.name /\ r.middlewares = ChainOf(snap, raw)
          BY <2>1, <2>5 DEF LiveFits
    <3>2. Working(r) /\ ~Guards(r)
          BY <2>1, <2>5
    <3>3. PICK chain : chain = r.middlewares
          OBVIOUS
    <3>4. \A e \in ToSet(chain) : e.type \notin GateTypes
      <4>1. \A e \in ToSet(chain) : AuthMethodOf(e.type) = "none"
            BY <3>2, <3>3 DEF Guards
      <4> QED BY <4>1, GatesByType
    <3>5. ~Deeper(chain)
          BY <2>7, <3>3 DEF Deeper
    <3>6. /\ raw \in ToSet(world.table.routers)
          /\ \A ref \in Passed(raw) \cap DOMAIN world.table.middlewares :
               DOMAIN world.table.middlewares[ref].body \cap GateTypes = {}
          BY <2>2, <2>5, <2>6, <3>1, <3>3, <3>4, <3>5, NothingGates
    <3>7. x \in ToSet(world.table.routers) /\ x.name = r.router
          BY <2>7, <3>1, <3>6
    <3>8. x = raw
          BY <2>2, <3>1, <3>6, <3>7 DEF SoundWorld, SoundTable
    <3> QED BY <3>6, <3>8
  <2>8. working # {}
        BY <2>1, <2>5
  <2> QED BY <2>1, <2>5, <2>7, <2>8 DEF GateTypes
<1> QED BY <1>1, ReadsInductive, PTL

=============================================================================
