--------------------------- MODULE AssemblyProofs ---------------------------
(***************************************************************************)
(* Proofs about module Assembly: what is concluded, drawn and counted of a *)
(* fleet.  Run is one stage after another, so the invariant says of each   *)
(* what it leaves, and that no later one takes it away.                    *)
(***************************************************************************)
EXTENDS Assembly, FiniteSetTheorems, SequenceTheorems, WellFoundedInduction, TLAPS

-----------------------------------------------------------------------------
(* Numbers, sequences and their folds. *)

LEMMA SetInduction ==
    ASSUME NEW S, 0 \in S, \A n \in Nat : n \in S => n + 1 \in S
    PROVE  Nat \subseteq S
<1> DEFINE T == Nat \ S
<1> SUFFICES ASSUME T # {} PROVE FALSE
    OBVIOUS
<1>1. PICK x \in T : \A y \in T : ~ (<<y, x>> \in OpToRel(<, Nat))
  <2>1. T \subseteq Nat
    OBVIOUS
  <2> HIDE DEF T
  <2> QED BY WFMin, NatLessThanWellFounded, <2>1
<1>2. x # 0 /\ x \in Nat /\ x - 1 \in Nat /\ x - 1 < x
  OBVIOUS
<1>3. x - 1 \notin T
  BY <1>1, <1>2 DEF OpToRel
<1> QED BY <1>2, <1>3

\* A set of numbers has a least one.
LEMMA LeastIsThere ==
    ASSUME NEW S, S \subseteq Nat, S # {}
    PROVE  Min(S) \in S /\ \A y \in S : Min(S) <= y
<1>1. PICK x \in S : \A y \in S : ~ (<<y, x>> \in OpToRel(<, Nat))
      BY WFMin, NatLessThanWellFounded
<1>2. \A y \in S : x <= y
  <2> SUFFICES ASSUME NEW y \in S, ~(x <= y) PROVE FALSE
      OBVIOUS
  <2>1. x \in Nat /\ y \in Nat /\ y < x
        OBVIOUS
  <2>2. <<y, x>> \in OpToRel(<, Nat)
        BY <2>1 DEF OpToRel
  <2> QED BY <2>2, <1>1
<1> QED BY <1>2 DEF Min

\* Lists of one kind put one after the other are a list of that kind.
LEMMA FlattenIsAList ==
    ASSUME NEW T, NEW seqs \in Seq(Seq(T))
    PROVE  FlattenSeq(seqs) \in Seq(T)
<1>1. PICK n \in Nat : n = Len(seqs)
      OBVIOUS
<1>2. CASE n = 0
  <2>1. seqs = <<>>
        BY <1>1, <1>2, EmptySeq
  <2>2. FlattenSeq(seqs) = seqs
        BY <1>1, <1>2 DEF FlattenSeq
  <2>3. <<>> \in Seq(T)
        OBVIOUS
  <2> QED BY <2>1, <2>2, <2>3
<1>3. CASE n # 0
  <2> DEFINE Joins(f, m) == f = [i \in 1..m |-> IF i = 1 THEN seqs[i] ELSE f[i - 1] \o seqs[i]]
             S == {m \in Nat : m <= n => \E f \in [1..m -> Seq(T)] : Joins(f, m)}
  <2>1. \A i \in 1..n : seqs[i] \in Seq(T)
        BY <1>1
  <2>2. 0 \in S
    <3>1. PICK f : f = [i \in 1..0 |-> <<>>]
          OBVIOUS
    <3>2. f \in [1..0 -> Seq(T)] /\ Joins(f, 0)
          BY <3>1
    <3> QED BY <3>2
  <2>3. ASSUME NEW m \in Nat, m \in S PROVE m + 1 \in S
    <3>1. CASE m + 1 <= n
      <4>0. m <= n
            BY <3>1
      <4>1. PICK f \in [1..m -> Seq(T)] : Joins(f, m)
            BY <2>3, <4>0
      <4>2. PICK last : last = IF m = 0 THEN seqs[m + 1] ELSE f[m] \o seqs[m + 1]
            OBVIOUS
      <4>3. last \in Seq(T)
        <5>1. seqs[m + 1] \in Seq(T)
              BY <2>1, <3>1
        <5>2. CASE m = 0
              BY <5>1, <5>2, <4>2
        <5>3. CASE m # 0
          <6>1. f[m] \in Seq(T)
                BY <5>3
          <6> QED BY <6>1, <5>1, <5>3, <4>2
        <5> QED BY <5>2, <5>3
      <4>4. PICK g : g = [i \in 1..(m + 1) |-> IF i = m + 1 THEN last ELSE f[i]]
            OBVIOUS
      <4>5. g \in [1..(m + 1) -> Seq(T)]
            BY <4>3, <4>4
      <4>6. ASSUME NEW i \in 1..(m + 1)
            PROVE  g[i] = IF i = 1 THEN seqs[i] ELSE g[i - 1] \o seqs[i]
        <5>1. CASE i = m + 1
          <6>1. m # 0 => g[m] = f[m]
                BY <4>4
          <6> QED BY <5>1, <6>1, <4>2, <4>4
        <5>2. CASE i # m + 1
          <6>1. i \in 1..m /\ (i # 1 => i - 1 \in 1..m /\ i - 1 # m + 1)
                BY <5>2
          <6>2. f[i] = IF i = 1 THEN seqs[i] ELSE f[i - 1] \o seqs[i]
                BY <4>1, <6>1
          <6>3. g[i] = f[i] /\ (i # 1 => g[i - 1] = f[i - 1])
                BY <6>1, <5>2, <4>4
          <6> QED BY <6>1, <6>2, <6>3
        <5> QED BY <5>1, <5>2
      <4>7. g = [i \in 1..(m + 1) |-> g[i]]
            BY <4>4
      <4>8. Joins(g, m + 1)
            BY <4>6, <4>7
      <4>9. m + 1 \in Nat
            OBVIOUS
      <4> QED BY <4>5, <4>8, <4>9
    <3>2. CASE ~(m + 1 <= n)
      <4>1. m + 1 \in Nat
            OBVIOUS
      <4> QED BY <4>1, <3>2
    <3> QED BY <3>1, <3>2
  <2>4. \E f : Joins(f, n)
    <3>1. Nat \subseteq S
      <4> HIDE DEF S
      <4> QED BY <2>2, <2>3, SetInduction
    <3>2. n \in S
      <4> HIDE DEF S
      <4> QED BY <3>1
    <3>3. n <= n
          OBVIOUS
    <3> QED BY <3>2, <3>3
  <2>5. PICK h : h = CHOOSE f : Joins(f, n)
        OBVIOUS
  <2>6. Joins(h, n)
        BY <2>4, <2>5
  <2>7. FlattenSeq(seqs) = h[n]
        BY <1>1, <1>3, <2>5 DEF FlattenSeq
  <2> DEFINE R == {m \in Nat : m \in 1..n => h[m] \in Seq(T)}
  <2>8. ASSUME NEW m \in Nat, m \in R PROVE m + 1 \in R
    <3>1. CASE m + 1 \in 1..n
      <4>1. seqs[m + 1] \in Seq(T)
            BY <2>1, <3>1
      <4>2. h[m + 1] = IF m + 1 = 1 THEN seqs[m + 1] ELSE h[(m + 1) - 1] \o seqs[m + 1]
            BY <2>6, <3>1
      <4>3. CASE m = 0
            BY <4>1, <4>2, <4>3
      <4>4. CASE m # 0
        <5>1. m \in 1..n /\ (m + 1) - 1 = m /\ m + 1 # 1
              BY <3>1, <4>4
        <5>2. h[m] \in Seq(T)
              BY <5>1, <2>8
        <5>3. h[m + 1] = h[m] \o seqs[m + 1]
              BY <4>2, <5>1
        <5>4. h[m] \o seqs[m + 1] \in Seq(T)
              BY <5>2, <4>1, ConcatProperties
        <5>5. h[m + 1] \in Seq(T)
              BY <5>3, <5>4
        <5>6. m + 1 \in Nat
              OBVIOUS
        <5> QED BY <5>5, <5>6
      <4> QED BY <4>3, <4>4
    <3>2. CASE m + 1 \notin 1..n
          BY <3>2
    <3> QED BY <3>1, <3>2
  <2>9. 0 \in R
        OBVIOUS
  <2>10. Nat \subseteq R
    <3> HIDE DEF R
    <3> QED BY <2>8, <2>9, SetInduction
  <2>11. n \in 1..n
        BY <1>3
  <2> QED BY <2>7, <2>10, <2>11
<1> QED BY <1>2, <1>3

-----------------------------------------------------------------------------
(* What the model is built from. *)

\* The answer of a switch is the value of its first row that holds; the last one always does.
LEMMA FirstOf3 ==
    ASSUME NEW a, NEW b, NEW c, c[1] = TRUE
    PROVE  FirstHolding(<<a, b, c>>) =
             IF a[1] THEN a[2] ELSE IF b[1] THEN b[2] ELSE c[2]
<1>1. PICK rows : rows = <<a, b, c>>
      OBVIOUS
<1>2. DOMAIN rows = 1..3 /\ rows[1] = a /\ rows[2] = b /\ rows[3] = c
      BY <1>1
<1> HIDE <1>1
<1>3. PICK first : first = CHOOSE i \in DOMAIN rows : rows[i][1] /\ \A j \in 1..(i - 1) : ~rows[j][1]
      OBVIOUS
<1>4. FirstHolding(rows) = rows[first][2]
      BY <1>3 DEF FirstHolding
<1>5. CASE a[1]
  <2>1. first = 1
        BY <1>2, <1>3, <1>5
  <2> QED BY <1>1, <1>2, <1>4, <1>5, <2>1
<1>6. CASE ~a[1] /\ b[1]
  <2>1. first = 2
        BY <1>2, <1>3, <1>6
  <2> QED BY <1>1, <1>2, <1>4, <1>6, <2>1
<1>7. CASE ~a[1] /\ ~b[1]
  <2>1. first = 3
        BY <1>2, <1>3, <1>7
  <2> QED BY <1>1, <1>2, <1>4, <1>7, <2>1
<1> QED BY <1>5, <1>6, <1>7

LEMMA FirstOf4 ==
    ASSUME NEW a, NEW b, NEW c, NEW d, d[1] = TRUE
    PROVE  FirstHolding(<<a, b, c, d>>) =
             IF a[1] THEN a[2] ELSE IF b[1] THEN b[2] ELSE IF c[1] THEN c[2] ELSE d[2]
<1>1. PICK rows : rows = <<a, b, c, d>>
      OBVIOUS
<1>2. DOMAIN rows = 1..4 /\ rows[1] = a /\ rows[2] = b /\ rows[3] = c /\ rows[4] = d
      BY <1>1
<1> HIDE <1>1
<1>3. PICK first : first = CHOOSE i \in DOMAIN rows : rows[i][1] /\ \A j \in 1..(i - 1) : ~rows[j][1]
      OBVIOUS
<1>4. FirstHolding(rows) = rows[first][2]
      BY <1>3 DEF FirstHolding
<1>5. CASE a[1]
  <2>1. first = 1
        BY <1>2, <1>3, <1>5
  <2> QED BY <1>1, <1>2, <1>4, <1>5, <2>1
<1>6. CASE ~a[1] /\ b[1]
  <2>1. first = 2
        BY <1>2, <1>3, <1>6
  <2> QED BY <1>1, <1>2, <1>4, <1>6, <2>1
<1>7. CASE ~a[1] /\ ~b[1] /\ c[1]
  <2>1. first = 3
        BY <1>2, <1>3, <1>7
  <2> QED BY <1>1, <1>2, <1>4, <1>7, <2>1
<1>8. CASE ~a[1] /\ ~b[1] /\ ~c[1]
  <2>1. first = 4
        BY <1>2, <1>3, <1>8
  <2> QED BY <1>1, <1>2, <1>4, <1>8, <2>1
<1> QED BY <1>5, <1>6, <1>7, <1>8

LEMMA FirstOf5 ==
    ASSUME NEW a, NEW b, NEW c, NEW d, NEW e, e[1] = TRUE
    PROVE  FirstHolding(<<a, b, c, d, e>>) =
             IF a[1] THEN a[2] ELSE IF b[1] THEN b[2] ELSE IF c[1] THEN c[2] ELSE
             IF d[1] THEN d[2] ELSE e[2]
<1>1. PICK rows : rows = <<a, b, c, d, e>>
      OBVIOUS
<1>2. DOMAIN rows = 1..5 /\ rows[1] = a /\ rows[2] = b /\ rows[3] = c /\ rows[4] = d /\ rows[5] = e
      BY <1>1
<1> HIDE <1>1
<1>3. PICK first : first = CHOOSE i \in DOMAIN rows : rows[i][1] /\ \A j \in 1..(i - 1) : ~rows[j][1]
      OBVIOUS
<1>4. FirstHolding(rows) = rows[first][2]
      BY <1>3 DEF FirstHolding
<1>5. CASE a[1]
  <2>1. first = 1
        BY <1>2, <1>3, <1>5
  <2> QED BY <1>1, <1>2, <1>4, <1>5, <2>1
<1>6. CASE ~a[1] /\ b[1]
  <2>1. first = 2
        BY <1>2, <1>3, <1>6
  <2> QED BY <1>1, <1>2, <1>4, <1>6, <2>1
<1>7. CASE ~a[1] /\ ~b[1] /\ c[1]
  <2>1. first = 3
        BY <1>2, <1>3, <1>7
  <2> QED BY <1>1, <1>2, <1>4, <1>7, <2>1
<1>8. CASE ~a[1] /\ ~b[1] /\ ~c[1] /\ d[1]
  <2>1. first = 4
        BY <1>2, <1>3, <1>8
  <2> QED BY <1>1, <1>2, <1>4, <1>8, <2>1
<1>9. CASE ~a[1] /\ ~b[1] /\ ~c[1] /\ ~d[1]
  <2>1. first = 5
        BY <1>2, <1>3, <1>9
  <2> QED BY <1>1, <1>2, <1>4, <1>9, <2>1
<1> QED BY <1>5, <1>6, <1>7, <1>8, <1>9

LEMMA FirstOf7 ==
    ASSUME NEW a, NEW b, NEW c, NEW d, NEW e, NEW f, NEW g, g[1] = TRUE
    PROVE  FirstHolding(<<a, b, c, d, e, f, g>>) =
             IF a[1] THEN a[2] ELSE IF b[1] THEN b[2] ELSE IF c[1] THEN c[2] ELSE IF d[1] THEN d[2] ELSE
             IF e[1] THEN e[2] ELSE IF f[1] THEN f[2] ELSE g[2]
<1>1. PICK rows : rows = <<a, b, c, d, e, f, g>>
      OBVIOUS
<1>2. DOMAIN rows = 1..7 /\ rows[1] = a /\ rows[2] = b /\ rows[3] = c /\ rows[4] = d /\ rows[5] = e /\ rows[6] = f /\ rows[7] = g
      BY <1>1
<1> HIDE <1>1
<1>3. PICK first : first = CHOOSE i \in DOMAIN rows : rows[i][1] /\ \A j \in 1..(i - 1) : ~rows[j][1]
      OBVIOUS
<1>4. FirstHolding(rows) = rows[first][2]
      BY <1>3 DEF FirstHolding
<1>5. CASE a[1]
  <2>1. first = 1
        BY <1>2, <1>3, <1>5
  <2> QED BY <1>1, <1>2, <1>4, <1>5, <2>1
<1>6. CASE ~a[1] /\ b[1]
  <2>1. first = 2
        BY <1>2, <1>3, <1>6
  <2> QED BY <1>1, <1>2, <1>4, <1>6, <2>1
<1>7. CASE ~a[1] /\ ~b[1] /\ c[1]
  <2>1. first = 3
        BY <1>2, <1>3, <1>7
  <2> QED BY <1>1, <1>2, <1>4, <1>7, <2>1
<1>8. CASE ~a[1] /\ ~b[1] /\ ~c[1] /\ d[1]
  <2>1. first = 4
        BY <1>2, <1>3, <1>8
  <2> QED BY <1>1, <1>2, <1>4, <1>8, <2>1
<1>9. CASE ~a[1] /\ ~b[1] /\ ~c[1] /\ ~d[1] /\ e[1]
  <2>1. first = 5
        BY <1>2, <1>3, <1>9
  <2> QED BY <1>1, <1>2, <1>4, <1>9, <2>1
<1>10. CASE ~a[1] /\ ~b[1] /\ ~c[1] /\ ~d[1] /\ ~e[1] /\ f[1]
  <2>1. first = 6
        BY <1>2, <1>3, <1>10
  <2> QED BY <1>1, <1>2, <1>4, <1>10, <2>1
<1>11. CASE ~a[1] /\ ~b[1] /\ ~c[1] /\ ~d[1] /\ ~e[1] /\ ~f[1]
  <2>1. first = 7
        BY <1>2, <1>3, <1>11
  <2> QED BY <1>1, <1>2, <1>4, <1>11, <2>1
<1> QED BY <1>5, <1>6, <1>7, <1>8, <1>9, <1>10, <1>11

\* The one service of a set is all there is in it.
LEMMA OnlyIsAll ==
    ASSUME NEW S, IsFiniteSet(S), TheOnly(S) # 0
    PROVE  S = {TheOnly(S)}
<1>1. Cardinality(S) = 1
      BY DEF TheOnly
<1>2. PICK x : S = {x}
      BY <1>1, FS_Singleton
<1>3. TheOnly(S) = CHOOSE k \in S : TRUE
      BY <1>1 DEF TheOnly
<1> QED BY <1>2, <1>3

\* The keys of a fleet are finitely many, and 0 is none.
LEMMA KeysAreFinite ==
    ASSUME NEW f, IsList(f.services)
    PROVE  IsFiniteSet(Keys(f)) /\ 0 \notin Keys(f) /\ Keys(f) \subseteq Nat
<1>1. PICK n \in Nat : DOMAIN f.services = 1..n
      BY DEF IsList
<1>2. IsFiniteSet(1..n)
      BY FS_Interval
<1> QED BY <1>1, <1>2 DEF Keys

-----------------------------------------------------------------------------
(* The fleet of a scan. *)

\* What every stage can rely on: the services are listed, each has its parts and a stack there is,
\* and what is read in order is a list.
ServiceFits(f, svc) ==
    /\ ServiceParts \cup {"stack", "tunnels", "routers", "live", "docker"} \subseteq DOMAIN svc
    /\ svc.stack \in DOMAIN f.stacks
    /\ IsList(svc.sidecar.auth)
FleetFits(f) ==
    /\ {"stacks", "services"} \subseteq DOMAIN f
    /\ IsList(f.services)
    /\ \A k \in Keys(f) : ServiceFits(f, Service(f, k))
    /\ \A s \in DOMAIN f.stacks : IsList(f.stacks[s].volumes)

\* A service as scan.Run leaves it, in its place.
LEMMA PlacedFits ==
    ASSUME NEW f, NEW s \in DOMAIN f.stacks, NEW svc,
           ServiceParts \subseteq DOMAIN svc, IsList(svc.sidecar.auth)
    PROVE  ServiceFits(f, Placed(s, svc))
<1> DEFINE new == New(s)
           all == Placed(s, svc)
<1>1. DOMAIN new = {"stack", "tunnels", "routers", "live", "docker"} /\ new.stack = s
      BY DEF New
<1>2. all = [p \in DOMAIN new \cup DOMAIN svc |-> IF p \in DOMAIN new THEN new[p] ELSE svc[p]]
      BY DEF Placed
<1> HIDE DEF new, all
<1>3. "sidecar" \in DOMAIN svc /\ "sidecar" \notin DOMAIN new /\ "stack" \in DOMAIN new
      BY <1>1 DEF ServiceParts
<1>4. all.stack = s /\ all.sidecar = svc.sidecar
      BY <1>1, <1>2, <1>3
<1>5. ServiceParts \cup {"stack", "tunnels", "routers", "live", "docker"} \subseteq DOMAIN all
      BY <1>1, <1>2
<1>6. IsList(all.sidecar.auth)
      BY <1>4
<1> QED BY <1>4, <1>5, <1>6 DEF ServiceFits, all

\* What Run's first stage makes of a scan: every service is one that the scan brings, in its place.
MadeOf(f, found) ==
    /\ {"stacks", "services"} \subseteq DOMAIN f /\ IsList(f.services)
    /\ f.stacks = [s \in DOMAIN found |-> [p \in DOMAIN found[s] \ {"services"} |-> found[s][p]]]
    /\ \A k \in Keys(f) : \E s \in DOMAIN found : \E i \in DOMAIN found[s].services :
         Service(f, k) = Placed(s, found[s].services[i])

LEMMA ScannedFleet ==
    ASSUME NEW w, SoundWorld(w)
    PROVE  MadeOf(Fleet(Scanned(w.disk)), Scanned(w.disk).stacks)
<1>1. PICK scan, found, f : scan = Scanned(w.disk) /\ found = scan.stacks /\ f = Fleet(scan)
      OBVIOUS
<1>2. IsList(found) /\ \A s \in DOMAIN found : SoundStack(found[s])
      BY <1>1 DEF SoundWorld, SoundStacks
<1> DEFINE placed(s) == [i \in DOMAIN found[s].services |-> Placed(s, found[s].services[i])]
           T == UNION {ToSet(placed(s)) : s \in DOMAIN found}
<1>3. PICK lists : lists = [s \in DOMAIN found |-> placed(s)]
      OBVIOUS
<1>4. /\ f.services = FlattenSeq(lists)
      /\ f.stacks = [s \in DOMAIN found |-> [p \in DOMAIN found[s] \ {"services"} |-> found[s][p]]]
      /\ {"stacks", "services"} \subseteq DOMAIN f
      BY <1>1, <1>3 DEF Fleet
<1>5. ASSUME NEW s \in DOMAIN found PROVE placed(s) \in Seq(T)
  <2>1. PICK n \in Nat : DOMAIN found[s].services = 1..n
        BY <1>2 DEF SoundStack, IsList
  <2>2. placed(s) = [i \in 1..n |-> Placed(s, found[s].services[i])]
        BY <2>1
  <2>3. \A i \in 1..n : placed(s)[i] \in ToSet(placed(s))
        BY <2>2 DEF ToSet
  <2>4. ToSet(placed(s)) \subseteq T
        OBVIOUS
  <2> HIDE DEF T
  <2>5. \A i \in 1..n : placed(s)[i] \in T
        BY <2>3, <2>4
  <2> QED BY <2>2, <2>5
<1>6. lists \in Seq(Seq(T))
  <2>1. PICK n \in Nat : DOMAIN found = 1..n
        BY <1>2 DEF IsList
  <2> HIDE DEF T
  <2>2. \A s \in 1..n : lists[s] \in Seq(T)
        BY <1>3, <1>5, <2>1
  <2>3. lists = [s \in 1..n |-> lists[s]]
        BY <1>3, <2>1
  <2> QED BY <2>2, <2>3
<1>7. f.services \in Seq(T)
  <2> HIDE DEF T
  <2> QED BY <1>4, <1>6, FlattenIsAList
<1>8. IsList(f.services)
  <2> HIDE DEF T
  <2>1. PICK n \in Nat : DOMAIN f.services = 1..n /\ f.services = [i \in 1..n |-> f.services[i]]
    <3>1. Len(f.services) \in Nat /\ f.services \in [1..Len(f.services) -> T]
          BY <1>7, LenProperties
    <3> QED BY <3>1
  <2>2. \A i \in 1..n : f.services[i] \in ToSet(f.services)
        BY <2>1 DEF ToSet
  <2> QED BY <2>1, <2>2 DEF IsList
<1>9. ASSUME NEW k \in Keys(f)
      PROVE  \E s \in DOMAIN found : \E i \in DOMAIN found[s].services :
                Service(f, k) = Placed(s, found[s].services[i])
  <2>1. Service(f, k) \in T
    <3> HIDE DEF T
    <3> QED BY <1>7 DEF Keys, Service
  <2>2. PICK s \in DOMAIN found : Service(f, k) \in ToSet(placed(s))
        BY <2>1
  <2>3. PICK i \in DOMAIN found[s].services : Service(f, k) = Placed(s, found[s].services[i])
        BY <2>2 DEF ToSet
  <2> QED BY <2>3
<1> QED BY <1>1, <1>4, <1>8, <1>9 DEF MadeOf

\* Run's first stage leaves a fleet that the others can rely on.
LEMMA ScannedFleetFits ==
    ASSUME NEW w, SoundWorld(w)
    PROVE  FleetFits(Fleet(Scanned(w.disk)))
<1>1. PICK found, f : found = Scanned(w.disk).stacks /\ f = Fleet(Scanned(w.disk))
      OBVIOUS
<1>2. \A s \in DOMAIN found : SoundStack(found[s])
      BY <1>1 DEF SoundWorld, SoundStacks
<1>3. /\ {"stacks", "services"} \subseteq DOMAIN f /\ IsList(f.services)
      /\ f.stacks = [s \in DOMAIN found |-> [p \in DOMAIN found[s] \ {"services"} |-> found[s][p]]]
      /\ \A k \in Keys(f) : \E s \in DOMAIN found : \E i \in DOMAIN found[s].services :
            Service(f, k) = Placed(s, found[s].services[i])
  <2>1. MadeOf(f, found)
        BY <1>1, ScannedFleet
  <2> QED BY <2>1 DEF MadeOf
<1>4. \A s \in DOMAIN f.stacks : IsList(f.stacks[s].volumes)
  <2> SUFFICES ASSUME NEW s \in DOMAIN f.stacks PROVE IsList(f.stacks[s].volumes)
      OBVIOUS
  <2>1. s \in DOMAIN found
        BY <1>3
  <2>2. "volumes" \in DOMAIN found[s] \ {"services"} /\ IsList(found[s].volumes)
        BY <2>1, <1>2 DEF SoundStack, StackParts
  <2>3. f.stacks[s].volumes = found[s].volumes
        BY <2>1, <2>2, <1>3
  <2> QED BY <2>2, <2>3
<1>5. \A k \in Keys(f) : ServiceFits(f, Service(f, k))
  <2> SUFFICES ASSUME NEW k \in Keys(f) PROVE ServiceFits(f, Service(f, k))
      OBVIOUS
  <2>1. PICK s \in DOMAIN found : \E i \in DOMAIN found[s].services :
                Service(f, k) = Placed(s, found[s].services[i])
        BY <1>3
  <2>2. PICK i \in DOMAIN found[s].services : Service(f, k) = Placed(s, found[s].services[i])
        BY <2>1
  <2>3. s \in DOMAIN f.stacks
        BY <1>3
  <2>4. ServiceParts \subseteq DOMAIN found[s].services[i] /\ IsList(found[s].services[i].sidecar.auth)
        BY <1>2 DEF SoundStack
  <2> QED BY <2>2, <2>3, <2>4, PlacedFits
<1> QED BY <1>1, <1>3, <1>4, <1>5 DEF FleetFits

\* What the readers say of a service takes nothing away that is known of it.
SameButLive(f, g) ==
    /\ {"stacks", "services"} \subseteq DOMAIN g
    /\ g.stacks = f.stacks /\ IsList(g.services) /\ Keys(g) = Keys(f)
    /\ \A k \in Keys(f) :
         LET svc == Service(f, k)
             now == Service(g, k)
         IN  /\ DOMAIN now = DOMAIN svc
             /\ <<now.name, now.stack, now.container, now.docker>> = <<svc.name, svc.stack, svc.container, svc.docker>>
             /\ <<now.ports, now.networks, now.tunnels, now.routers>> = <<svc.ports, svc.networks, svc.tunnels, svc.routers>>
             /\ now.sidecar = svc.sidecar

LEMMA MatchKeeps ==
    ASSUME Match, FleetFits(fleet)
    PROVE  SameButLive(fleet, fleet') /\ \A k \in Keys(fleet) : fleet'.gates[k] \in Keys(fleet) \cup {0}
<1>1. PICK says : says = [k \in Keys(fleet) |->
            IF NameOf(k) \in DOMAIN world.says THEN world.says[NameOf(k)] ELSE Unsaid]
      OBVIOUS
<1>2. PICK old : old = fleet
      OBVIOUS
<1>3. PICK new : new = fleet'
      OBVIOUS
<1>4. PICK services : services = [k \in Keys(old) |-> [Service(old, k) EXCEPT !.live = says[k].live]]
      OBVIOUS
<1>5. /\ new.stacks = old.stacks
      /\ new.services = services
      /\ {"stacks", "services"} \subseteq DOMAIN new
      /\ new.gates = [k \in Keys(old) |-> TheOnly({c \in Keys(old) \ {k} : NameOf(c) = says[k].gate})]
      BY <1>1, <1>2, <1>3, <1>4 DEF Match
<1>6. FleetFits(old)
      BY <1>2
<1>7. PICK n \in Nat : DOMAIN old.services = 1..n
      BY <1>6 DEF FleetFits, IsList
<1>8. DOMAIN services = 1..n
      BY <1>4, <1>7 DEF Keys
<1>9. IsList(new.services)
  <2>1. \A i \in 1..n : services[i] \in ToSet(services)
        BY <1>8 DEF ToSet
  <2>2. services = [i \in 1..n |-> services[i]]
        BY <1>4, <1>7 DEF Keys
  <2> QED BY <1>5, <2>1, <2>2 DEF IsList
<1>10. Keys(new) = Keys(old)
      BY <1>5, <1>7, <1>8 DEF Keys
<1>11. ASSUME NEW k \in Keys(old)
       PROVE  LET svc == Service(old, k)
                  now == Service(new, k)
              IN  /\ DOMAIN now = DOMAIN svc
                  /\ <<now.name, now.stack, now.container, now.docker>> = <<svc.name, svc.stack, svc.container, svc.docker>>
                  /\ <<now.ports, now.networks, now.tunnels, now.routers>> = <<svc.ports, svc.networks, svc.tunnels, svc.routers>>
                  /\ now.sidecar = svc.sidecar
  <2>1. PICK svc : svc = Service(old, k)
        OBVIOUS
  <2>2. PICK now : now = Service(new, k)
        OBVIOUS
  <2>3. now = [svc EXCEPT !.live = says[k].live]
        BY <2>1, <2>2, <1>4, <1>5 DEF Service
  <2>4. ServiceFits(old, svc)
        BY <2>1, <1>6 DEF FleetFits
  <2>5. {"name", "container", "ports", "networks", "sidecar", "stack", "tunnels", "routers", "docker"} \subseteq DOMAIN svc
        BY <2>4 DEF ServiceFits, ServiceParts
  <2>6. DOMAIN now = DOMAIN svc /\ \A p \in DOMAIN svc : p # "live" => now[p] = svc[p]
        BY <2>3
  <2> QED BY <2>1, <2>2, <2>5, <2>6
<1>12. \A k \in Keys(old) : new.gates[k] \in Keys(old) \cup {0}
  <2> SUFFICES ASSUME NEW k \in Keys(old), new.gates[k] # 0 PROVE new.gates[k] \in Keys(old)
      OBVIOUS
  <2>1. PICK S : S = {c \in Keys(old) \ {k} : NameOf(c) = says[k].gate}
        OBVIOUS
  <2>2. new.gates[k] = TheOnly(S)
        BY <1>5, <2>1
  <2>3. IsFiniteSet(S)
    <3>1. IsFiniteSet(Keys(old)) /\ S \in SUBSET Keys(old)
          BY <1>6, <2>1, KeysAreFinite DEF FleetFits
    <3> QED BY <3>1, FS_Subset
  <2>4. S = {TheOnly(S)}
        BY <2>2, <2>3, OnlyIsAll
  <2> QED BY <2>1, <2>2, <2>4
<1> QED BY <1>2, <1>3, <1>5, <1>9, <1>10, <1>11, <1>12 DEF SameButLive

LEMMA SameButLiveFits ==
    ASSUME NEW f, NEW g, FleetFits(f), SameButLive(f, g)
    PROVE  FleetFits(g)
<1>1. ASSUME NEW k \in Keys(g) PROVE ServiceFits(g, Service(g, k))
  <2>1. k \in Keys(f) /\ ServiceFits(f, Service(f, k))
        BY DEF SameButLive, FleetFits
  <2>2. /\ DOMAIN Service(g, k) = DOMAIN Service(f, k)
        /\ Service(g, k).stack = Service(f, k).stack
        /\ Service(g, k).sidecar = Service(f, k).sidecar
        /\ g.stacks = f.stacks
        BY <2>1 DEF SameButLive
  <2> QED BY <2>1, <2>2 DEF ServiceFits
<1>2. \A s \in DOMAIN g.stacks : IsList(g.stacks[s].volumes)
      BY DEF SameButLive, FleetFits
<1> QED BY <1>1, <1>2 DEF FleetFits, SameButLive

\* Routes fills in what was empty, and moves no service.
LEMMA RoutesKeeps ==
    ASSUME Routes, FleetFits(fleet)
    PROVE  FleetFits(fleet') /\ Keys(fleet') = Keys(fleet)
<1>1. PICK lbls : lbls = [k \in Keys(fleet) |-> ParsedLabels(Service(fleet, k).labels)]
      OBVIOUS
<1>2. PICK old : old = fleet
      OBVIOUS
<1>3. PICK new : new = fleet'
      OBVIOUS
<1>4. PICK services : services = [k \in Keys(fleet) |-> Discovered(k, lbls[k])]
      OBVIOUS
<1>5. new = [old EXCEPT !.services = services]
      BY <1>1, <1>2, <1>3, <1>4 DEF Routes
<1>6. FleetFits(old)
      BY <1>2
<1>7. new.services = services /\ new.stacks = old.stacks /\ {"stacks", "services"} \subseteq DOMAIN new
      BY <1>5, <1>6 DEF FleetFits
<1>8. PICK n \in Nat : DOMAIN old.services = 1..n
      BY <1>6 DEF FleetFits, IsList
<1>9. services = [i \in 1..n |-> services[i]]
  <2>1. Keys(fleet) = 1..n
        BY <1>2, <1>8 DEF Keys
  <2> QED BY <1>4, <2>1
<1>10. IsList(services) /\ Keys(new) = Keys(old)
  <2>1. \A i \in 1..n : services[i] \in ToSet(services)
        BY <1>9 DEF ToSet
  <2> QED BY <1>7, <1>8, <1>9, <2>1 DEF IsList, Keys
<1>11. ASSUME NEW k \in Keys(new) PROVE ServiceFits(new, Service(new, k))
  <2>1. PICK svc : svc = Service(old, k)
        OBVIOUS
  <2>2. PICK now : now = Service(new, k)
        OBVIOUS
  <2>3. k \in Keys(old) /\ ServiceFits(old, svc)
        BY <1>10, <1>6, <2>1 DEF FleetFits
  <2>4. now = [svc EXCEPT !.tunnels = Cloudflare(lbls[k]), !.routers = Traefik(lbls[k]), !.docker = Container(k)]
    <3>1. now = services[k]
          BY <1>7, <2>2 DEF Service
    <3>2. services[k] = Discovered(k, lbls[k])
          BY <1>2, <1>4, <2>3
    <3> QED BY <1>2, <2>1, <3>1, <3>2 DEF Discovered
  <2>5. DOMAIN now = DOMAIN svc /\ "stack" \in DOMAIN svc /\ "sidecar" \in DOMAIN svc
        BY <2>3, <2>4 DEF ServiceFits, ServiceParts
  <2>6. now.stack = svc.stack /\ now.sidecar = svc.sidecar
        BY <2>4, <2>5
  <2> QED BY <2>2, <2>3, <2>5, <2>6, <1>7 DEF ServiceFits
<1>12. \A s \in DOMAIN new.stacks : IsList(new.stacks[s].volumes)
      BY <1>6, <1>7 DEF FleetFits
<1> QED BY <1>2, <1>3, <1>7, <1>10, <1>11, <1>12 DEF FleetFits

\* What is there to find is sound, for the first scan and for the next.
WorldFits == SoundWorld(world) /\ (before = <<>> => world \in Worlds)

LEMMA FleetInit == Init => WorldFits /\ FleetFits(fleet)
<1> SUFFICES ASSUME Init PROVE WorldFits /\ FleetFits(fleet)
    OBVIOUS
<1>1. WorldFits
      BY WorldsAssumption DEF Init, WorldFits
<1>2. FleetFits(fleet)
  <2>1. /\ {"stacks", "services"} \subseteq DOMAIN fleet
        /\ fleet.services = <<>> /\ fleet.stacks = <<>>
        BY DEF Init, NoFleet
  <2>2. IsList(fleet.services)
        BY <2>1 DEF IsList
  <2> QED BY <2>1, <2>2 DEF FleetFits, Keys
<1> QED BY <1>1, <1>2

LEMMA FleetStep == WorldFits /\ FleetFits(fleet) /\ [Next]_vars => WorldFits' /\ FleetFits(fleet')
<1> SUFFICES ASSUME WorldFits, FleetFits(fleet), [Next]_vars PROVE WorldFits' /\ FleetFits(fleet')
    OBVIOUS
<1>1. CASE ReadFleet
  <2>1. fleet' = Fleet(Scanned(world.disk)) /\ world' = world /\ before' = before
        BY <1>1 DEF ReadFleet, logVars
  <2> QED BY <2>1, ScannedFleetFits DEF WorldFits
<1>2. CASE Routes
      BY <1>2, RoutesKeeps DEF Routes, WorldFits, logVars
<1>3. CASE Match
      BY <1>3, MatchKeeps, SameButLiveFits DEF Match, WorldFits, logVars
<1>4. CASE Rescan
  <2>1. world' \in UNION {Edits(v) : v \in Worlds} /\ before' # <<>> /\ fleet' = NoFleet
        BY <1>4 DEF Rescan, WorldFits
  <2>2. WorldFits'
        BY <2>1, WorldsAssumption DEF WorldFits
  <2>3. /\ {"stacks", "services"} \subseteq DOMAIN fleet'
        /\ fleet'.services = <<>> /\ fleet'.stacks = <<>>
        BY <2>1 DEF NoFleet
  <2>4. IsList(fleet'.services)
        BY <2>3 DEF IsList
  <2> QED BY <2>2, <2>3, <2>4 DEF FleetFits, Keys
<1>5. CASE UNCHANGED <<world, fleet, before>>
      BY <1>5 DEF WorldFits
<1>6. CASE Classify \/ Origins \/ Dependencies \/ Probe \/ Declare \/ Draw \/ Tell \/ Finished \/ UNCHANGED vars
  <2>1. UNCHANGED <<world, fleet, before>>
        BY <1>6 DEF Classify, Origins, Dependencies, Probe, Declare, Draw, Tell, Finished, vars, logVars
  <2> QED BY <1>5, <2>1
<1> QED BY <1>1, <1>2, <1>3, <1>4, <1>6 DEF Next

-----------------------------------------------------------------------------
(* Where the origins lead. *)

\* What a fleet is asked for does not depend on what the readers say of its services.
LEMMA SameLookups ==
    ASSUME NEW f, NEW g, SameButLive(f, g)
    PROVE  /\ \A a, b \in Keys(f) : Shared(g, a, b) = Shared(f, a, b)
           /\ \A name : ByName(g, name) = ByName(f, name)
           /\ \A port : ByHostPort(g, port) = ByHostPort(f, port)
<1>1. Keys(g) = Keys(f)
      BY DEF SameButLive
<1>2. ASSUME NEW k \in Keys(f)
      PROVE  /\ Service(g, k).networks = Service(f, k).networks
             /\ DnsNames(Service(g, k)) = DnsNames(Service(f, k))
             /\ HostPorts(Service(g, k)) = HostPorts(Service(f, k))
      BY DEF SameButLive, DnsNames, HostPorts
<1>3. \A a, b \in Keys(f) : Shared(g, a, b) = Shared(f, a, b)
      BY <1>2 DEF Shared
<1>4. \A name : ByName(g, name) = ByName(f, name)
      BY <1>1, <1>2 DEF ByName
<1>5. \A port : ByHostPort(g, port) = ByHostPort(f, port)
      BY <1>1, <1>2 DEF ByHostPort
<1> QED BY <1>3, <1>4, <1>5

\* A hop is a candidate, on a network of the one who asks, and nobody else who could be meant is.
Hop(f, k, hop, meant) ==
    /\ hop \in meant /\ Shared(f, k, hop) # {} /\ hop # k
    /\ \A other \in meant \ {hop, k} : Shared(f, k, other) = {}

LEMMA OnlyReachableIsAHop ==
    ASSUME FleetFits(fleet), NEW k, NEW meant, meant \subseteq Keys(fleet),
           OnlyReachable(k, meant).hop # 0
    PROVE  Hop(fleet, k, OnlyReachable(k, meant).hop, meant)
<1>1. PICK S : S = Reachable(fleet, k, meant)
      OBVIOUS
<1>2. OnlyReachable(k, meant).hop = TheOnly(S)
      BY <1>1 DEF OnlyReachable
<1>3. S \subseteq meant /\ S \in SUBSET Keys(fleet)
      BY <1>1 DEF Reachable
<1>4. IsFiniteSet(S)
      BY <1>3, KeysAreFinite, FS_Subset DEF FleetFits
<1>5. S = {TheOnly(S)}
      BY <1>2, <1>4, OnlyIsAll
<1> QED BY <1>1, <1>2, <1>5 DEF Hop, Reachable

\* What an origin can mean: who publishes the port, or who goes by the name.
Meant(f, a) == IF a.form = "ip" THEN ByHostPort(f, Port(a)) ELSE ByName(f, a.host)

LEMMA ResolvedIsAHop ==
    ASSUME FleetFits(fleet), NEW k, NEW a
    PROVE  LET end == ResolveOrigin(k, a)
           IN  /\ end.hop # 0 => Hop(fleet, k, end.hop, Meant(fleet, a))
               /\ (end.hop # 0) = (end.kind = "fleet-service")
<1>1. PICK end : end = ResolveOrigin(k, a)
      OBVIOUS
<1>2. ASSUME NEW meant, meant \subseteq Keys(fleet), end = OnlyReachable(k, meant)
      PROVE  /\ end.hop # 0 => Hop(fleet, k, end.hop, meant)
             /\ (end.hop # 0) = (end.kind = "fleet-service")
  <2>1. end.hop # 0 => Hop(fleet, k, end.hop, meant)
        BY <1>2, OnlyReachableIsAHop
  <2>2. (end.hop # 0) = (end.kind = "fleet-service")
        BY <1>2 DEF OnlyReachable
  <2> QED BY <2>1, <2>2
<1>3. ASSUME NEW kind, kind # "fleet-service", end = [hop |-> 0, kind |-> kind]
      PROVE  end.hop = 0 /\ end.kind # "fleet-service"
      BY <1>3
<1>4. ByName(fleet, a.host) \subseteq Keys(fleet) /\ ByHostPort(fleet, Port(a)) \subseteq Keys(fleet)
      BY DEF ByName, ByHostPort
<1>5. PICK r1, r2, r3, r4, r5 :
            /\ r1 = <<a.form = "none",                          [hop |-> 0, kind |-> "unresolved"]>>
            /\ r2 = <<a.form # "ip" /\ NamesSelf(k, a.host),    [hop |-> 0, kind |-> "self-network"]>>
            /\ r3 = <<a.form = "ip",                            ResolveHostPort(k, a)>>
            /\ r4 = <<a.form = "bare",                          OnlyReachable(k, ByName(fleet, a.host))>>
            /\ r5 = <<TRUE,                                     [hop |-> 0, kind |-> "unresolved"]>>
      OBVIOUS
<1>6. end = IF r1[1] THEN r1[2] ELSE IF r2[1] THEN r2[2] ELSE IF r3[1] THEN r3[2] ELSE
            IF r4[1] THEN r4[2] ELSE r5[2]
  <2>1. end = FirstHolding(<<r1, r2, r3, r4, r5>>)
        BY <1>1, <1>5 DEF ResolveOrigin
  <2>2. r5[1] = TRUE
        BY <1>5
  <2> QED BY <2>1, <2>2, FirstOf5
<1>7. /\ r1[2] = [hop |-> 0, kind |-> "unresolved"] /\ r2[2] = [hop |-> 0, kind |-> "self-network"]
      /\ r3[1] <=> a.form = "ip"
      /\ r3[2] = ResolveHostPort(k, a)
      /\ r4[1] <=> a.form = "bare"
      /\ r4[2] = OnlyReachable(k, ByName(fleet, a.host)) /\ r5[2] = [hop |-> 0, kind |-> "unresolved"]
      BY <1>5
<1>8. CASE end \in {r1[2], r2[2], r5[2]}
  <2>1. end = [hop |-> 0, kind |-> "unresolved"] \/ end = [hop |-> 0, kind |-> "self-network"]
        BY <1>7, <1>8
  <2> QED BY <1>1, <1>3, <2>1
<1>9. CASE r3[1] /\ end = r3[2]
  <2>1. end = ResolveHostPort(k, a) /\ a.form = "ip"
        BY <1>7, <1>9
  <2>2. PICK b1, b2, b3 :
            /\ b1 = <<Port(a) = "",                         [hop |-> 0, kind |-> "unresolved"]>>
            /\ b2 = <<k \in ByHostPort(fleet, Port(a)),     [hop |-> 0, kind |-> "self-host-port"]>>
            /\ b3 = <<TRUE,                                 OnlyReachable(k, ByHostPort(fleet, Port(a)))>>
        OBVIOUS
  <2>3. end \in {b1[2], b2[2], b3[2]}
    <3>1. end = FirstHolding(<<b1, b2, b3>>)
          BY <2>1, <2>2 DEF ResolveHostPort
    <3>2. b3[1] = TRUE
          BY <2>2
    <3> QED BY <3>1, <3>2, FirstOf3
  <2>4. /\ b1[2] = [hop |-> 0, kind |-> "unresolved"] /\ b2[2] = [hop |-> 0, kind |-> "self-host-port"]
        /\ b3[2] = OnlyReachable(k, ByHostPort(fleet, Port(a)))
        BY <2>2
  <2>5. CASE end = [hop |-> 0, kind |-> "unresolved"] \/ end = [hop |-> 0, kind |-> "self-host-port"]
        BY <1>1, <1>3, <2>5
  <2>6. CASE end = OnlyReachable(k, ByHostPort(fleet, Port(a)))
    <3>1. Meant(fleet, a) = ByHostPort(fleet, Port(a))
          BY <2>1 DEF Meant
    <3> QED BY <1>1, <1>2, <1>4, <2>6, <3>1
  <2> QED BY <2>3, <2>4, <2>5, <2>6
<1>10. CASE r4[1] /\ end = r4[2]
  <2>1. end = OnlyReachable(k, ByName(fleet, a.host)) /\ a.form = "bare"
        BY <1>7, <1>10
  <2>2. Meant(fleet, a) = ByName(fleet, a.host)
        BY <2>1 DEF Meant
  <2> QED BY <1>1, <1>2, <1>4, <2>1, <2>2
<1> QED BY <1>6, <1>8, <1>9, <1>10

\* From the stage on that resolves them there is an end for every tunnel's origin, and none before.
FromDepends == {"depends", "match", "probe", "declare", "draw", "describe", "done"}
EndFits(k, t) ==
    LET end == origins[k][t]
    IN  /\ end.hop # 0 => /\ Hop(fleet, k, end.hop, Meant(fleet, Service(fleet, k).tunnels[t].origin))
                          /\ end.hop \in proxies
        /\ (end.hop # 0) = (end.kind = "fleet-service")
OriginsFit ==
    /\ \A k \in DOMAIN origins : k \in Keys(fleet)
    /\ stage = "scan" => DOMAIN origins = {}
    /\ \A k \in DOMAIN origins : \A t \in DOMAIN origins[k] : EndFits(k, t)
    /\ proxies \subseteq Keys(fleet)
    /\ stage \in FromDepends => /\ DOMAIN origins = Keys(fleet)
                                /\ \A k \in Keys(fleet) : DOMAIN origins[k] = DOMAIN Service(fleet, k).tunnels
    /\ stage \notin FromDepends => proxies = {} /\ \A k \in DOMAIN origins : DOMAIN origins[k] = {}

\* The stage itself.
LEMMA OriginsResolve ==
    ASSUME Origins, FleetFits(fleet)
    PROVE  OriginsFit'
<1>1. PICK resolved : resolved = [k \in Keys(fleet) |->
            [t \in DOMAIN Service(fleet, k).tunnels |->
                LET r == Service(fleet, k).tunnels[t]
                IN  IF r.origin.form = "absent" THEN Nothing ELSE ResolveOrigin(k, r.origin)]]
      OBVIOUS
<1>2. /\ origins' = resolved
      /\ proxies' = (UNION {{resolved[k][t].hop : t \in DOMAIN resolved[k]} : k \in Keys(fleet)}) \ {0}
      /\ fleet' = fleet /\ stage' = "depends"
      BY <1>1 DEF Origins
<1>3. DOMAIN resolved = Keys(fleet)
      BY <1>1
<1>4. \A k \in Keys(fleet) : DOMAIN resolved[k] = DOMAIN Service(fleet, k).tunnels
      BY <1>1
<1>5. ASSUME NEW k \in Keys(fleet), NEW t \in DOMAIN resolved[k]
      PROVE  LET end == resolved[k][t]
                 a == Service(fleet, k).tunnels[t].origin
             IN  /\ end.hop # 0 => Hop(fleet, k, end.hop, Meant(fleet, a)) /\ end.hop \in proxies'
                 /\ (end.hop # 0) = (end.kind = "fleet-service")
  <2>1. PICK end : end = resolved[k][t]
        OBVIOUS
  <2>2. PICK a : a = Service(fleet, k).tunnels[t].origin
        OBVIOUS
  <2>3. end = IF a.form = "absent" THEN Nothing ELSE ResolveOrigin(k, a)
        BY <1>1, <1>4, <2>1, <2>2
  <2>4. end.hop # 0 => end.hop \in proxies'
    <3>1. end.hop \in {resolved[k][x].hop : x \in DOMAIN resolved[k]}
          BY <2>1
    <3>2. end.hop \in UNION {{resolved[z][x].hop : x \in DOMAIN resolved[z]} : z \in Keys(fleet)}
          BY <3>1
    <3> QED BY <1>2, <3>2
  <2>5. CASE a.form = "absent"
    <3>1. end.hop = 0 /\ end.kind # "fleet-service"
          BY <2>3, <2>5 DEF Nothing
    <3> QED BY <3>1, <2>1, <2>2
  <2>6. CASE a.form # "absent"
    <3>1. end = ResolveOrigin(k, a)
          BY <2>3, <2>6
    <3>2. /\ end.hop # 0 => Hop(fleet, k, end.hop, Meant(fleet, a))
          /\ (end.hop # 0) = (end.kind = "fleet-service")
          BY <3>1, ResolvedIsAHop
    <3> QED BY <3>2, <2>1, <2>2, <2>4
  <2> QED BY <2>5, <2>6
<1>6. proxies' \subseteq Keys(fleet)
  <2> SUFFICES ASSUME NEW p \in proxies' PROVE p \in Keys(fleet)
      OBVIOUS
  <2>1. p # 0 /\ p \in UNION {{resolved[k][t].hop : t \in DOMAIN resolved[k]} : k \in Keys(fleet)}
        BY <1>2
  <2>2. PICK k \in Keys(fleet) : p \in {resolved[k][t].hop : t \in DOMAIN resolved[k]}
        BY <2>1
  <2>3. PICK t \in DOMAIN resolved[k] : p = resolved[k][t].hop
        BY <2>2
  <2>4. p \in Meant(fleet, Service(fleet, k).tunnels[t].origin)
        BY <2>1, <2>3, <1>5 DEF Hop
  <2> QED BY <2>4 DEF Meant, ByName, ByHostPort
<1>7. \A k \in DOMAIN origins' : \A t \in DOMAIN origins'[k] : EndFits(k, t)'
  <2> SUFFICES ASSUME NEW k \in DOMAIN resolved, NEW t \in DOMAIN resolved[k] PROVE EndFits(k, t)'
      BY <1>2
  <2>1. k \in Keys(fleet)
        BY <1>3
  <2>2. PICK end : end = resolved[k][t]
        OBVIOUS
  <2>3. /\ end.hop # 0 => /\ Hop(fleet, k, end.hop, Meant(fleet, Service(fleet, k).tunnels[t].origin))
                          /\ end.hop \in proxies'
        /\ (end.hop # 0) = (end.kind = "fleet-service")
        BY <1>5, <2>1, <2>2
  <2> QED BY <1>2, <2>2, <2>3 DEF EndFits
<1>8. stage' \in FromDepends
      BY <1>2 DEF FromDepends
<1>9. stage' # "scan"
      BY <1>2
<1> QED BY <1>2, <1>3, <1>4, <1>6, <1>7, <1>8, <1>9 DEF OriginsFit

LEMMA OriginsInit == Init => OriginsFit
BY DEF Init, OriginsFit, FromDepends

LEMMA OriginsStep == FleetFits(fleet) /\ OriginsFit /\ [Next]_vars => OriginsFit'
<1> SUFFICES ASSUME FleetFits(fleet), OriginsFit, [Next]_vars PROVE OriginsFit'
    OBVIOUS
<1>1. CASE Origins
      BY <1>1, OriginsResolve
<1>2. CASE Match
  <2>1. SameButLive(fleet, fleet')
        BY <1>2, MatchKeeps
  <2>2. /\ Keys(fleet') = Keys(fleet)
        /\ \A k \in Keys(fleet) : Service(fleet', k).tunnels = Service(fleet, k).tunnels
        BY <2>1 DEF SameButLive
  <2>3. origins' = origins /\ proxies' = proxies /\ stage \in FromDepends /\ stage' \in FromDepends
        BY <1>2 DEF Match, ownVars, FromDepends
  <2>4. /\ \A a, b \in Keys(fleet) : Shared(fleet', a, b) = Shared(fleet, a, b)
        /\ \A a : Meant(fleet', a) = Meant(fleet, a)
        BY <2>1, SameLookups DEF Meant
  <2>5. \A a : Meant(fleet, a) \subseteq Keys(fleet)
        BY DEF Meant, ByName, ByHostPort
  <2>6. ASSUME NEW k \in Keys(fleet), NEW hop, NEW a, Hop(fleet, k, hop, Meant(fleet, a))
        PROVE  Hop(fleet', k, hop, Meant(fleet', a))
    <3>1. hop \in Keys(fleet)
          BY <2>5, <2>6 DEF Hop
    <3> QED BY <2>4, <2>5, <2>6, <3>1 DEF Hop
  <2>7. ASSUME NEW k \in DOMAIN origins, NEW t \in DOMAIN origins[k] PROVE EndFits(k, t)'
    <3>1. k \in Keys(fleet) /\ EndFits(k, t)
          BY DEF OriginsFit
    <3>2. Service(fleet', k).tunnels = Service(fleet, k).tunnels
          BY <2>2, <3>1
    <3> QED BY <2>3, <2>6, <3>1, <3>2 DEF EndFits
  <2>8. stage' # "scan"
        BY <1>2 DEF Match
  <2> QED BY <2>2, <2>3, <2>7, <2>8 DEF OriginsFit
<1>3. CASE ReadFleet \/ Routes
  <2>1. stage \notin FromDepends /\ stage' \notin FromDepends /\ proxies' = proxies /\ stage' # "scan"
        BY <1>3 DEF ReadFleet, Routes, FromDepends, ownVars
  <2>2. (\A k \in DOMAIN origins' : k \in Keys(fleet') /\ DOMAIN origins'[k] = {})
    <3>1. CASE ReadFleet
          BY <3>1 DEF ReadFleet, ownVars, OriginsFit
    <3>2. CASE Routes
      <4>1. origins' = [k \in Keys(fleet) |-> <<>>] /\ Keys(fleet') = Keys(fleet)
            BY <3>2, RoutesKeeps DEF Routes
      <4> QED BY <4>1
    <3> QED BY <1>3, <3>1, <3>2
  <2> QED BY <2>1, <2>2 DEF OriginsFit
<1>4. CASE Rescan
  <2>1. origins' = <<>> /\ proxies' = {} /\ stage' = "scan"
        BY <1>4 DEF Rescan
  <2> QED BY <2>1 DEF OriginsFit, FromDepends
<1>5. CASE Classify \/ Dependencies \/ Probe \/ Declare \/ Draw \/ Tell \/ Finished \/ UNCHANGED vars
  <2>1. origins' = origins /\ proxies' = proxies /\ fleet' = fleet
        BY <1>5 DEF Classify, Dependencies, Probe, Declare, Draw, Tell, Finished, vars, ownVars
  <2>2. (stage' \in FromDepends <=> stage \in FromDepends) /\ (stage' = "scan" => stage = "scan")
        BY <1>5 DEF Classify, Dependencies, Probe, Declare, Draw, Tell, Finished, vars, FromDepends
  <2>3. \A k \in DOMAIN origins : \A t \in DOMAIN origins[k] : EndFits(k, t)' = EndFits(k, t)
        BY <2>1 DEF EndFits
  <2> QED BY <2>1, <2>2, <2>3 DEF OriginsFit
<1> QED BY <1>1, <1>2, <1>3, <1>4, <1>5 DEF Next

LEMMA OriginsFitIsUnambiguous == OriginsFit => OriginIsUnambiguous
BY DEF OriginsFit, EndFits, OriginIsUnambiguous, Hop, Meant

-----------------------------------------------------------------------------
(* The kinds of ingress. *)

\* What a service's own tunnels and routers make of it.
Public(svc) == \E r \in ToSet(svc.tunnels) : r.hostname # ""
Routed(svc) == \E r \in ToSet(svc.routers) : r.hosts # {} \/ r.rule

FromOrigins == FromDepends \cup {"origins"}
IngressFits ==
    /\ stage = "scan" => fleet = NoFleet
    /\ stage # "routes" => ingress \in [Keys(fleet) -> SUBSET ToSet(IngressKinds)]
    /\ stage \in FromOrigins =>
         \A k \in Keys(fleet) : /\ "public" \in ingress[k] <=> Public(Service(fleet, k))
                                /\ "traefik" \in ingress[k] <=> Routed(Service(fleet, k))

\* An external kind is hidden by nothing.
LEMMA ExternalKindsStay ==
    ASSUME NEW kinds, kinds \subseteq ToSet(IngressKinds)
    PROVE  /\ IngressSet(kinds) \subseteq ToSet(IngressKinds)
           /\ \A e \in ExternalKinds : e \in IngressSet(kinds) <=> e \in kinds
<1>1. ToSet(IngressKinds) = {"public", "traefik", "lan", "internal", "none"}
      BY DEF ToSet, IngressKinds
<1>2. PICK external : external = kinds \cap ExternalKinds
      OBVIOUS
<1>3. PICK a, b, c : a = <<external # {}, external>> /\ b = <<kinds = {}, {"none"}>> /\ c = <<TRUE, kinds>>
      OBVIOUS
<1>4. IngressSet(kinds) = FirstHolding(<<a, b, c>>)
      BY <1>2, <1>3 DEF IngressSet
<1>5. /\ a[1] <=> external # {}
      /\ b[1] <=> kinds = {}
      /\ c[1] = TRUE
      /\ a[2] = external /\ b[2] = {"none"} /\ c[2] = kinds
      BY <1>3
<1>6. IngressSet(kinds) = IF external # {} THEN external ELSE IF kinds = {} THEN {"none"} ELSE kinds
      BY <1>4, <1>5, FirstOf3
<1>7. "none" \notin ExternalKinds
      BY DEF ExternalKinds
<1> QED BY <1>1, <1>2, <1>6, <1>7

LEMMA ServiceIngressFits ==
    ASSUME NEW k \in Keys(fleet)
    PROVE  /\ ServiceIngress(k) \subseteq ToSet(IngressKinds)
           /\ "public" \in ServiceIngress(k) <=> Public(Service(fleet, k))
           /\ "traefik" \in ServiceIngress(k) <=> Routed(Service(fleet, k))
<1>1. PICK svc : svc = Service(fleet, k)
      OBVIOUS
<1>2. PICK kinds : kinds = (IF Public(svc) THEN {"public"} ELSE {})
                           \cup (IF Routed(svc) THEN {"traefik"} ELSE {})
                           \cup (IF svc.ports # <<>> THEN {"lan"} ELSE {})
                           \cup (IF svc.expose # <<>> \/ HasNeighbour(fleet, k) THEN {"internal"} ELSE {})
      OBVIOUS
<1>3. ServiceIngress(k) = IngressSet(kinds)
      BY <1>1, <1>2 DEF ServiceIngress, Public, Routed
<1>4. kinds \subseteq {"public", "traefik", "lan", "internal"}
      BY <1>2
<1>5. ToSet(IngressKinds) = {"public", "traefik", "lan", "internal", "none"}
      BY DEF ToSet, IngressKinds
<1>6. "public" \in kinds <=> Public(svc)
      BY <1>2
<1>7. "traefik" \in kinds <=> Routed(svc)
      BY <1>2
<1>8. "public" \in ExternalKinds /\ "traefik" \in ExternalKinds
      BY DEF ExternalKinds
<1>9. /\ IngressSet(kinds) \subseteq ToSet(IngressKinds)
      /\ \A e \in ExternalKinds : e \in IngressSet(kinds) <=> e \in kinds
      BY <1>4, <1>5, ExternalKindsStay
<1> QED BY <1>1, <1>3, <1>6, <1>7, <1>8, <1>9

LEMMA IngressInit == Init => IngressFits
<1> SUFFICES ASSUME Init PROVE IngressFits
    OBVIOUS
<1>1. fleet = NoFleet /\ ingress = <<>> /\ stage = "scan"
      BY DEF Init
<1>2. Keys(fleet) = {}
      BY <1>1 DEF NoFleet, Keys
<1> QED BY <1>1, <1>2 DEF IngressFits, FromOrigins, FromDepends

LEMMA IngressStep == FleetFits(fleet) /\ IngressFits /\ [Next]_vars => IngressFits'
<1> SUFFICES ASSUME FleetFits(fleet), IngressFits, [Next]_vars PROVE IngressFits'
    OBVIOUS
<1>1. CASE ReadFleet
      BY <1>1 DEF ReadFleet, IngressFits, FromOrigins, FromDepends
<1>2. CASE Routes
  <2>1. /\ ingress' = [k \in Keys(fleet) |-> {}] /\ Keys(fleet') = Keys(fleet)
        /\ stage' = "classify"
        BY <1>2, RoutesKeeps DEF Routes
  <2> QED BY <2>1 DEF IngressFits, FromOrigins, FromDepends
<1>3. CASE Classify
  <2>1. ingress' = [k \in Keys(fleet) |-> ServiceIngress(k)] /\ fleet' = fleet /\ stage' = "origins"
        BY <1>3 DEF Classify
  <2>2. \A k \in Keys(fleet) : ingress'[k] = ServiceIngress(k)
        BY <2>1
  <2>3. ingress' \in [Keys(fleet) -> SUBSET ToSet(IngressKinds)]
        BY <2>1, ServiceIngressFits
  <2>4. \A k \in Keys(fleet) : /\ "public" \in ingress'[k] <=> Public(Service(fleet, k))
                               /\ "traefik" \in ingress'[k] <=> Routed(Service(fleet, k))
        BY <2>2, ServiceIngressFits
  <2> QED BY <2>1, <2>3, <2>4 DEF IngressFits
<1>4. CASE Match
  <2>1. SameButLive(fleet, fleet')
        BY <1>4, MatchKeeps
  <2>2. /\ Keys(fleet') = Keys(fleet)
        /\ \A k \in Keys(fleet) : /\ Service(fleet', k).tunnels = Service(fleet, k).tunnels
                                  /\ Service(fleet', k).routers = Service(fleet, k).routers
        BY <2>1 DEF SameButLive
  <2>3. \A k \in Keys(fleet) : /\ Public(Service(fleet', k)) <=> Public(Service(fleet, k))
                               /\ Routed(Service(fleet', k)) <=> Routed(Service(fleet, k))
        BY <2>2 DEF Public, Routed
  <2>4. ingress' = ingress /\ stage = "match" /\ stage' = "probe"
        BY <1>4 DEF Match, ownVars
  <2> QED BY <2>2, <2>3, <2>4 DEF IngressFits, FromOrigins, FromDepends
<1>5. CASE Rescan
  <2>1. fleet' = NoFleet /\ ingress' = <<>> /\ stage' = "scan"
        BY <1>5 DEF Rescan
  <2>2. Keys(fleet') = {}
        BY <2>1 DEF NoFleet, Keys
  <2> QED BY <2>1, <2>2 DEF IngressFits, FromOrigins, FromDepends
<1>6. CASE Origins \/ Dependencies \/ Probe \/ Declare \/ Draw \/ Tell \/ Finished \/ UNCHANGED vars
  <2>1. ingress' = ingress /\ fleet' = fleet
        BY <1>6 DEF Origins, Dependencies, Probe, Declare, Draw, Tell, Finished, vars, ownVars
  <2>2. /\ stage' = "scan" => stage = "scan"
        /\ stage' = "routes" <=> stage = "routes"
        /\ stage' \in FromOrigins => stage \in FromOrigins
        BY <1>6 DEF Origins, Dependencies, Probe, Declare, Draw, Tell, Finished, vars, FromOrigins, FromDepends
  <2> QED BY <2>1, <2>2 DEF IngressFits
<1> QED BY <1>1, <1>2, <1>3, <1>4, <1>5, <1>6 DEF Next

-----------------------------------------------------------------------------
(* Who depends on whom, and who gates whom. *)

FromMatch == FromDepends \ {"depends"}
FromProbe == FromMatch \ {"match"}
LinksFit ==
    /\ \A d \in deps : d.from \in Keys(fleet) /\ d.to \in Keys(fleet) /\ d.from # d.to /\ (d.observed \/ d.declared)
    /\ stage \notin FromMatch => deps = {}
    /\ stage \in FromProbe => \A k \in Keys(fleet) : fleet.gates[k] \in Keys(fleet) \cup {0}

\* A name leads to a service there is.
LEMMA InStackIsAKey ==
    ASSUME FleetFits(fleet), NEW s, NEW name, InStack(fleet, s, name) # 0
    PROVE  InStack(fleet, s, name) \in Keys(fleet)
<1>1. PICK S : S = {k \in Keys(fleet) : Service(fleet, k).stack = s /\ Service(fleet, k).name = name}
      OBVIOUS
<1>2. S \in SUBSET Keys(fleet)
      BY <1>1
<1>3. IsFiniteSet(S)
      BY <1>2, KeysAreFinite, FS_Subset DEF FleetFits
<1>4. InStack(fleet, s, name) = TheOnly(S)
      BY <1>1 DEF InStack
<1>5. S = {TheOnly(S)}
      BY <1>3, <1>4, OnlyIsAll
<1> QED BY <1>2, <1>4, <1>5

\* And a reference to one that is not who refers.
LEMMA RefIsAnotherKey ==
    ASSUME FleetFits(fleet), NEW k \in Keys(fleet), NEW ref, ResolveRef(k, ref) # 0
    PROVE  ResolveRef(k, ref) \in Keys(fleet) /\ ResolveRef(k, ref) # k
<1>1. PICK to : to = ResolveRef(k, ref)
      OBVIOUS
<1>2. PICK named : named = {c \in Keys(fleet) : Service(fleet, c).name = ref /\ c # k}
      OBVIOUS
<1>3. PICK full : full = {c \in Keys(fleet) : <<Stack(fleet, c).id, Service(fleet, c).name>> = CutRef(ref)}
      OBVIOUS
<1>4. PICK qualified : qualified = TheOnly(full)
      OBVIOUS
<1>5. PICK here : here = InStack(fleet, Service(fleet, k).stack, ref)
      OBVIOUS
<1>6. PICK a, b, c, d, e :
            /\ a = <<Len(CutRef(ref)) = 2 /\ qualified = k,  0>>
            /\ b = <<Len(CutRef(ref)) = 2,                   qualified>>
            /\ c = <<here = k,                                   0>>
            /\ d = <<here # 0,                                   here>>
            /\ e = <<TRUE,                                       TheOnly(named)>>
      OBVIOUS
<1>7. to = FirstHolding(<<a, b, c, d, e>>)
      BY <1>1, <1>2, <1>3, <1>4, <1>5, <1>6 DEF ResolveRef
<1>8. /\ a[1] <=> Len(CutRef(ref)) = 2 /\ qualified = k
      /\ b[1] <=> Len(CutRef(ref)) = 2
      /\ c[1] <=> here = k
      /\ e[1] = TRUE
      /\ a[2] = 0 /\ b[2] = qualified /\ c[2] = 0 /\ d[2] = here /\ e[2] = TheOnly(named)
      BY <1>6
<1>9. to = IF a[1] THEN a[2] ELSE IF b[1] THEN b[2] ELSE IF c[1] THEN c[2] ELSE IF d[1] THEN d[2] ELSE e[2]
      BY <1>7, <1>8, FirstOf5
<1>10. \/ to = 0
       \/ to = qualified /\ qualified # k
       \/ to = here /\ here # k
       \/ to = TheOnly(named)
      BY <1>8, <1>9
<1>11. ASSUME NEW S, S \in SUBSET Keys(fleet), to = TheOnly(S)
       PROVE  to \in S
  <2>1. IsFiniteSet(S)
        BY <1>11, KeysAreFinite, FS_Subset DEF FleetFits
  <2>2. S = {TheOnly(S)}
        BY <1>1, <1>11, <2>1, OnlyIsAll
  <2> QED BY <1>11, <2>2
<1>12. CASE to = qualified /\ qualified # k
  <2>1. to \in full
        BY <1>3, <1>4, <1>11, <1>12
  <2> QED BY <1>1, <1>3, <1>12, <2>1
<1>13. CASE to = here /\ here # k
  <2>1. here \in Keys(fleet)
        BY <1>1, <1>5, <1>13, InStackIsAKey
  <2> QED BY <1>1, <1>13, <2>1
<1>14. CASE to = TheOnly(named)
  <2>1. to \in named
        BY <1>2, <1>11, <1>14
  <2> QED BY <1>1, <1>2, <2>1
<1> QED BY <1>1, <1>10, <1>12, <1>13, <1>14

LEMMA DependenciesFit ==
    ASSUME Dependencies, FleetFits(fleet)
    PROVE  \A d \in deps' : d.from \in Keys(fleet) /\ d.to \in Keys(fleet) /\ d.from # d.to /\ (d.observed \/ d.declared)
<1>1. SUFFICES ASSUME NEW d \in deps'
               PROVE  d.from \in Keys(fleet) /\ d.to \in Keys(fleet) /\ d.from # d.to /\ (d.observed \/ d.declared)
      OBVIOUS
<1>2. deps' = UNION {{Dependency(k, to) : to \in NeedsByCompose(k) \cup NeedsBySidecar(k)} : k \in Keys(fleet)}
      BY DEF Dependencies
<1>3. PICK k \in Keys(fleet) : d \in {Dependency(k, to) : to \in NeedsByCompose(k) \cup NeedsBySidecar(k)}
      BY <1>1, <1>2
<1>4. PICK to \in NeedsByCompose(k) \cup NeedsBySidecar(k) : d = Dependency(k, to)
      BY <1>3
<1>5. to \in Keys(fleet) /\ to # k
  <2>1. CASE to \in NeedsByCompose(k)
    <3>1. PICK n : to = InStack(fleet, Service(fleet, k).stack, n) /\ to # 0 /\ to # k
          BY <2>1 DEF NeedsByCompose
    <3> QED BY <3>1, InStackIsAKey
  <2>2. CASE to \in NeedsBySidecar(k)
    <3>1. PICK ref : to = ResolveRef(k, ref) /\ to # 0
          BY <2>2 DEF NeedsBySidecar
    <3> QED BY <3>1, RefIsAnotherKey
  <2> QED BY <1>4, <2>1, <2>2
<1>6. d.from = k /\ d.to = to
      BY <1>4 DEF Dependency
<1>7. d.observed \/ d.declared
  <2>1. (d.observed <=> to \in NeedsByCompose(k)) /\ (d.declared <=> to \in NeedsBySidecar(k))
        BY <1>4 DEF Dependency
  <2> QED BY <1>4, <2>1
<1> QED BY <1>5, <1>6, <1>7

LEMMA LinksInit == Init => LinksFit
BY DEF Init, LinksFit, FromMatch, FromProbe, FromDepends

LEMMA LinksStep == FleetFits(fleet) /\ LinksFit /\ [Next]_vars => LinksFit'
<1> SUFFICES ASSUME FleetFits(fleet), LinksFit, [Next]_vars PROVE LinksFit'
    OBVIOUS
<1>1. CASE Dependencies
  <2>1. fleet' = fleet /\ stage' = "match"
        BY <1>1 DEF Dependencies
  <2>2. \A d \in deps' : d.from \in Keys(fleet) /\ d.to \in Keys(fleet) /\ d.from # d.to /\ (d.observed \/ d.declared)
        BY <1>1, DependenciesFit
  <2> QED BY <2>1, <2>2 DEF LinksFit, FromMatch, FromProbe, FromDepends
<1>2. CASE Match
  <2>1. /\ Keys(fleet') = Keys(fleet)
        /\ \A k \in Keys(fleet) : fleet'.gates[k] \in Keys(fleet) \cup {0}
        BY <1>2, MatchKeeps DEF SameButLive
  <2>2. deps' = deps /\ stage' = "probe"
        BY <1>2 DEF Match, ownVars
  <2> QED BY <2>1, <2>2 DEF LinksFit, FromMatch, FromDepends
<1>3. CASE ReadFleet \/ Routes \/ Rescan
  <2>1. deps' = {}
        BY <1>3 DEF ReadFleet, Routes, Rescan, LinksFit, FromMatch, FromDepends, ownVars
  <2>2. stage' \notin FromProbe
        BY <1>3 DEF ReadFleet, Routes, Rescan, FromProbe, FromMatch, FromDepends
  <2> QED BY <2>1, <2>2 DEF LinksFit
<1>4. CASE Classify \/ Origins \/ Probe \/ Declare \/ Draw \/ Tell \/ Finished \/ UNCHANGED vars
  <2>1. deps' = deps /\ fleet' = fleet
        BY <1>4 DEF Classify, Origins, Probe, Declare, Draw, Tell, Finished, vars, ownVars
  <2>2. /\ stage' \notin FromMatch => stage \notin FromMatch
        /\ stage' \in FromProbe => stage \in FromProbe
        BY <1>4 DEF Classify, Origins, Probe, Declare, Draw, Tell, Finished, vars, FromProbe, FromMatch, FromDepends
  <2> QED BY <2>1, <2>2 DEF LinksFit
<1> QED BY <1>1, <1>2, <1>3, <1>4 DEF Next

-----------------------------------------------------------------------------
(* What is drawn. *)

LEMMA NodesAreThere ==
    /\ \A k \in Keys(fleet) : ServiceNode(k) \in BuildGraph.nodes
    /\ \A n \in NetworkNames(fleet) : Drawn(fleet, n) => NetworkNode(n) \in BuildGraph.nodes
    /\ \A s \in DOMAIN fleet.stacks : \A v \in ToSet(fleet.stacks[s].volumes) : VolumeNode(v.name) \in BuildGraph.nodes
    /\ \A k \in Keys(fleet) : \A h \in HostsOf(k) : Outside \in BuildGraph.nodes /\ HostNode(h) \in BuildGraph.nodes
    /\ AppNodes \subseteq BuildGraph.nodes
<1>1. PICK services : services = {ServiceNode(k) : k \in Keys(fleet)}
      OBVIOUS
<1>2. PICK networks : networks = {NetworkNode(n) : n \in {n \in NetworkNames(fleet) : DrawnNetwork(n)}}
      OBVIOUS
<1>3. PICK volumes : volumes = {VolumeNode(v.name) : v \in UNION {ToSet(fleet.stacks[s].volumes) : s \in DOMAIN fleet.stacks}}
      OBVIOUS
<1>4. PICK hosts : hosts = UNION {{Outside, HostNode(h)} : h \in UNION {HostsOf(k) : k \in Keys(fleet)}}
      OBVIOUS
<1>5. BuildGraph.nodes = services \cup networks \cup volumes \cup hosts \cup AppNodes \cup RouterNodes
      BY <1>1, <1>2, <1>3, <1>4 DEF BuildGraph
<1>6. \A n \in NetworkNames(fleet) : Drawn(fleet, n) => NetworkNode(n) \in networks
      BY <1>2 DEF DrawnNetwork
<1>7. \A s \in DOMAIN fleet.stacks : \A v \in ToSet(fleet.stacks[s].volumes) : VolumeNode(v.name) \in volumes
  <2> SUFFICES ASSUME NEW s \in DOMAIN fleet.stacks, NEW v \in ToSet(fleet.stacks[s].volumes)
               PROVE  VolumeNode(v.name) \in volumes
      OBVIOUS
  <2>1. v \in UNION {ToSet(fleet.stacks[z].volumes) : z \in DOMAIN fleet.stacks}
        OBVIOUS
  <2> QED BY <2>1, <1>3
<1>8. \A k \in Keys(fleet) : \A h \in HostsOf(k) : Outside \in hosts /\ HostNode(h) \in hosts
  <2> SUFFICES ASSUME NEW k \in Keys(fleet), NEW h \in HostsOf(k) PROVE Outside \in hosts /\ HostNode(h) \in hosts
      OBVIOUS
  <2>1. h \in UNION {HostsOf(z) : z \in Keys(fleet)}
        OBVIOUS
  <2> QED BY <2>1, <1>4
<1> QED BY <1>1, <1>5, <1>6, <1>7, <1>8

\* Both ends of an edge.
Ends(e) == e.source \in BuildGraph.nodes /\ e.target \in BuildGraph.nodes

\* A way in goes from outside by a host, and by the hop of the tunnel if it has one.
LEMMA IngressEdgesHaveEnds ==
    ASSUME OriginsFit, stage = "draw", NEW e \in IngressEdges
    PROVE  Ends(e)
<1>1. CASE e \in HostEdges
  <2>1. PICK k \in Keys(fleet) : \E h \in HostsOf(k) : e = Edge("ingress", Outside, HostNode(h))
        BY <1>1 DEF HostEdges
  <2>2. PICK h \in HostsOf(k) : e = Edge("ingress", Outside, HostNode(h))
        BY <2>1
  <2>3. e.source = Outside /\ e.target = HostNode(h)
        BY <2>2 DEF Edge
  <2> QED BY <2>3, NodesAreThere DEF Ends
<1>2. CASE e \in TunnelEdges
  <2>1. PICK k \in Keys(fleet) : \E t \in Tunnels(k) : e \in TunnelPath(k, t)
        BY <1>2 DEF TunnelEdges
  <2>2. PICK t \in Tunnels(k) : e \in TunnelPath(k, t)
        BY <2>1
  <2>3. PICK host : host = Service(fleet, k).tunnels[t].hostname
        OBVIOUS
  <2>4. PICK hop : hop = origins[k][t].hop
        OBVIOUS
  <2>5. host \in HostsOf(k)
        BY <2>2, <2>3 DEF HostsOf
  <2>6. hop # 0 => hop \in Keys(fleet)
    <3>1. k \in DOMAIN origins /\ t \in DOMAIN origins[k]
          BY <2>2 DEF OriginsFit, FromDepends, Tunnels
    <3>2. EndFits(k, t) /\ proxies \subseteq Keys(fleet)
          BY <3>1 DEF OriginsFit
    <3> QED BY <3>2, <2>4 DEF EndFits
  <2>7. \/ e = Edge("ingress", HostNode(host), ServiceNode(k))
        \/ hop # 0 /\ e = Edge("ingress", HostNode(host), ServiceNode(hop))
        \/ hop # 0 /\ e = Edge("ingress", ServiceNode(hop), ServiceNode(k))
        BY <2>2, <2>3, <2>4 DEF TunnelPath
  <2>8. /\ HostNode(host) \in BuildGraph.nodes /\ ServiceNode(k) \in BuildGraph.nodes
        /\ hop # 0 => ServiceNode(hop) \in BuildGraph.nodes
        BY <2>5, <2>6, NodesAreThere
  <2> QED BY <2>7, <2>8 DEF Edge, Ends
<1>3. CASE e \in RouterEdges
  <2>1. PICK k \in Keys(fleet) : \E h \in RouterHosts(k) : e = Edge("ingress", HostNode(h), ServiceNode(k))
        BY <1>3 DEF RouterEdges
  <2>2. PICK h \in RouterHosts(k) : e = Edge("ingress", HostNode(h), ServiceNode(k))
        BY <2>1
  <2>3. e.source = HostNode(h) /\ e.target = ServiceNode(k)
        BY <2>2 DEF Edge
  <2>4. h \in HostsOf(k)
        BY <2>2 DEF HostsOf
  <2> QED BY <2>3, <2>4, NodesAreThere DEF Ends
<1> QED BY <1>1, <1>2, <1>3 DEF IngressEdges

\* A network is drawn for who is on it, a volume where the stack declares it.
LEMMA UseEdgesHaveEnds ==
    ASSUME FleetFits(fleet), NEW e \in NetworkEdges \cup VolumeEdges
    PROVE  Ends(e)
<1>1. CASE e \in NetworkEdges
  <2>1. PICK k \in Keys(fleet) :
            e \in {[kind |-> "network", source |-> ServiceNode(k), target |-> NetworkNode(net), flow |-> Flow(k, net)] :
                     net \in {net \in Service(fleet, k).networks : Drawn(fleet, net)}}
        BY <1>1 DEF NetworkEdges
  <2>2. PICK net \in Service(fleet, k).networks :
            /\ Drawn(fleet, net)
            /\ e = [kind |-> "network", source |-> ServiceNode(k), target |-> NetworkNode(net), flow |-> Flow(k, net)]
        BY <2>1
  <2>3. net \in NetworkNames(fleet)
        BY <2>2 DEF NetworkNames
  <2>4. e.source = ServiceNode(k) /\ e.target = NetworkNode(net)
        BY <2>2
  <2> QED BY <2>2, <2>3, <2>4, NodesAreThere DEF Ends
<1>2. CASE e \in VolumeEdges
  <2>1. PICK k \in Keys(fleet) :
            e \in UNION {{Edge("volume", ServiceNode(k), VolumeNode(v)) : v \in VolumeOf(k, m)} :
                            m \in ToSet(Service(fleet, k).mounts)}
        BY <1>2 DEF VolumeEdges
  <2>2. PICK m \in ToSet(Service(fleet, k).mounts) : \E v \in VolumeOf(k, m) : e = Edge("volume", ServiceNode(k), VolumeNode(v))
        BY <2>1
  <2>3. PICK v \in VolumeOf(k, m) : e = Edge("volume", ServiceNode(k), VolumeNode(v))
        BY <2>2
  <2>4. PICK vols : vols = Stack(fleet, k).volumes
        OBVIOUS
  <2>5. PICK I : I = {i \in 1..Len(vols) : vols[i].name \in {m.source, Stack(fleet, k).project \o "_" \o m.source}}
        OBVIOUS
  <2>6. PICK at : at = IF I # {} THEN Min(I) ELSE 0
        OBVIOUS
  <2>7. at # 0 /\ v = vols[at].name /\ at \in I
    <3>1. SelectInSeq(vols, LAMBDA w : w.name \in {m.source, Stack(fleet, k).project \o "_" \o m.source}) = at
          BY <2>5, <2>6 DEF SelectInSeq
    <3>2. VolumeOf(k, m) = IF m.type # "volume" \/ m.source = "" \/ at = 0 THEN {} ELSE {vols[at].name}
          BY <2>4, <3>1 DEF VolumeOf
    <3>3. at # 0 /\ v = vols[at].name
          BY <2>3, <3>2
    <3>4. I \subseteq 1..Len(vols)
          BY <2>5
    <3>5. I \subseteq Nat
          BY <3>4
    <3> QED BY <2>6, <3>3, <3>5, LeastIsThere
  <2>8. Service(fleet, k).stack \in DOMAIN fleet.stacks /\ IsList(vols)
        BY <2>4 DEF FleetFits, ServiceFits, Stack, Service
  <2>9. at \in DOMAIN vols
    <3>1. at \in 1..Len(vols)
          BY <2>5, <2>7
    <3>2. DOMAIN vols = 1..Len(vols)
          BY <2>8 DEF IsList
    <3> QED BY <3>1, <3>2
  <2>10. vols[at] \in ToSet(vols)
        BY <2>9 DEF ToSet
  <2>11. VolumeNode(v) \in BuildGraph.nodes
        BY <2>4, <2>7, <2>8, <2>10, NodesAreThere DEF Stack, Service
  <2>12. e.source = ServiceNode(k) /\ e.target = VolumeNode(v)
        BY <2>3 DEF Edge
  <2> QED BY <2>11, <2>12, NodesAreThere DEF Ends
<1> QED BY <1>1, <1>2

\* An application stands with its providers and their outposts, and with the service it is matched to.
LEMMA AuthEdgesHaveEnds ==
    ASSUME LinksFit, stage = "draw", NEW e \in Gating \cup AppEdges
    PROVE  Ends(e)
<1>1. CASE e \in Gating
  <2>1. PICK k \in Keys(fleet) : fleet.gates[k] # 0 /\ e = Edge("auth", ServiceNode(fleet.gates[k]), ServiceNode(k))
        BY <1>1 DEF Gating
  <2>2. fleet.gates[k] \in Keys(fleet)
        BY <2>1 DEF LinksFit, FromProbe, FromMatch, FromDepends
  <2>3. e.source = ServiceNode(fleet.gates[k]) /\ e.target = ServiceNode(k)
        BY <2>1 DEF Edge
  <2> QED BY <2>2, <2>3, NodesAreThere DEF Ends
<1>2. ASSUME NEW a \in DrawnApps
      PROVE  /\ <<"app", a.slug>> \in BuildGraph.nodes
             /\ \A p \in a.providers : /\ <<"provider", p.name>> \in BuildGraph.nodes
                                       /\ \A o \in p.outposts : <<"outpost", o>> \in BuildGraph.nodes
  <2>1. PICK mine : mine = {<<"app", a.slug>>} \cup UNION {{<<"provider", p.name>>} \cup {<<"outpost", o>> : o \in p.outposts} :
                                                           p \in a.providers}
        OBVIOUS
  <2>2. mine \subseteq AppNodes
        BY <2>1 DEF AppNodes
  <2>3. <<"app", a.slug>> \in mine
        BY <2>1
  <2>4. ASSUME NEW p \in a.providers
        PROVE  {<<"provider", p.name>>} \cup {<<"outpost", o>> : o \in p.outposts} \subseteq mine
        BY <2>1
  <2> QED BY <2>2, <2>3, <2>4, NodesAreThere
<1>3. CASE e \in MatchEdges
  <2>1. PICK k \in Keys(fleet) : e \in {Edge("auth", <<"app", a.slug>>, ServiceNode(k)) : a \in fleet.matched[k]}
        BY <1>3 DEF MatchEdges
  <2>2. PICK a \in fleet.matched[k] : e = Edge("auth", <<"app", a.slug>>, ServiceNode(k))
        BY <2>1
  <2>3. a \in DrawnApps
        BY <2>2 DEF DrawnApps
  <2>4. e.source = <<"app", a.slug>> /\ e.target = ServiceNode(k)
        BY <2>2 DEF Edge
  <2> QED BY <1>2, <2>3, <2>4, NodesAreThere DEF Ends
<1>4. CASE e \in BehindApps
  <2>1. PICK a \in DrawnApps : e \in UNION {ProviderEdges(a, p) : p \in a.providers}
        BY <1>4 DEF BehindApps
  <2>2. PICK p \in a.providers : e \in ProviderEdges(a, p)
        BY <2>1
  <2>3. CASE e = Edge("auth", <<"provider", p.name>>, <<"app", a.slug>>)
        BY <1>2, <2>2, <2>3 DEF Edge, Ends
  <2>4. CASE e \in {Edge("auth", <<"outpost", o>>, <<"provider", p.name>>) : o \in p.outposts}
    <3>1. PICK o \in p.outposts : e = Edge("auth", <<"outpost", o>>, <<"provider", p.name>>)
          BY <2>4
    <3> QED BY <1>2, <2>2, <3>1 DEF Edge, Ends
  <2> QED BY <2>2, <2>3, <2>4 DEF ProviderEdges
<1> QED BY <1>1, <1>3, <1>4 DEF AppEdges

LEMMA DrawnHasBothEnds ==
    ASSUME FleetFits(fleet), OriginsFit, LinksFit, stage = "draw", NEW e \in BuildGraph.edges
    PROVE  Ends(e)
<1>1. BuildGraph.edges = NetworkEdges \cup VolumeEdges \cup IngressEdges \cup Gating \cup AppEdges
            \cup {Edge("depends-on", ServiceNode(d.from), ServiceNode(d.to)) : d \in deps}
      BY DEF BuildGraph
<1>2. CASE e \in {Edge("depends-on", ServiceNode(d.from), ServiceNode(d.to)) : d \in deps}
  <2>1. PICK d \in deps : e = Edge("depends-on", ServiceNode(d.from), ServiceNode(d.to))
        BY <1>2
  <2>2. d.from \in Keys(fleet) /\ d.to \in Keys(fleet)
        BY DEF LinksFit
  <2>3. e.source = ServiceNode(d.from) /\ e.target = ServiceNode(d.to)
        BY <2>1 DEF Edge
  <2> QED BY <2>2, <2>3, NodesAreThere DEF Ends
<1> QED BY <1>1, <1>2, IngressEdgesHaveEnds, UseEdgesHaveEnds, AuthEdgesHaveEnds

\* A leg points away from who depends over the network, and to who is depended on.
OutOf(k, net) == \E d \in {d \in deps : net \in Shared(fleet, d.from, d.to)} : d.from = k
Into(k, net) == \E d \in {d \in deps : net \in Shared(fleet, d.from, d.to)} : d.to = k

LEMMA FlowPoints ==
    ASSUME NEW k, NEW net
    PROVE  /\ OutOf(k, net) => Flow(k, net) \in {"to-network", "both"}
           /\ Into(k, net) => Flow(k, net) \in {"to-service", "both"}
<1>1. PICK a, b, c, d : /\ a = <<OutOf(k, net) /\ Into(k, net), "both">> /\ b = <<OutOf(k, net), "to-network">>
                        /\ c = <<Into(k, net), "to-service">> /\ d = <<TRUE, "">>
      OBVIOUS
<1>2. Flow(k, net) = FirstHolding(<<a, b, c, d>>)
      BY <1>1 DEF Flow, OutOf, Into
<1>3. /\ a[1] <=> OutOf(k, net) /\ Into(k, net)
      /\ b[1] <=> OutOf(k, net)
      /\ c[1] <=> Into(k, net)
      /\ d[1] = TRUE
      /\ a[2] = "both" /\ b[2] = "to-network" /\ c[2] = "to-service"
      BY <1>1
<1> QED BY <1>2, <1>3, FirstOf4

\* A network that two services share is drawn.
LEMMA SharedIsDrawn ==
    ASSUME FleetFits(fleet), NEW a \in Keys(fleet), NEW b \in Keys(fleet), NEW net \in Shared(fleet, a, b)
    PROVE  /\ Drawn(fleet, net)
           /\ net \in Service(fleet, a).networks /\ net \in Service(fleet, b).networks
<1>1. a # b /\ net \in Service(fleet, a).networks /\ net \in Service(fleet, b).networks
      BY DEF Shared
<1>2. PICK S : S = Members(fleet, net)
      OBVIOUS
<1>3. a \in S /\ b \in S /\ S \in SUBSET Keys(fleet)
      BY <1>1, <1>2 DEF Members
<1>4. IsFiniteSet(S)
      BY <1>3, KeysAreFinite, FS_Subset DEF FleetFits
<1>5. Cardinality(S) # 1
  <2> SUFFICES ASSUME Cardinality(S) = 1 PROVE FALSE
      OBVIOUS
  <2>1. PICK x : S = {x}
        BY <1>4, FS_Singleton
  <2> QED BY <2>1, <1>1, <1>3
<1> QED BY <1>1, <1>2, <1>5 DEF Drawn, SoloLocal

Leg(k, net, ways) ==
    \E e \in BuildGraph.edges :
        /\ e.kind = "network" /\ e.source = ServiceNode(k) /\ e.target = NetworkNode(net)
        /\ e.flow \in ways

LEMMA LegIsDrawn ==
    ASSUME NEW k \in Keys(fleet), NEW net \in Service(fleet, k).networks, Drawn(fleet, net),
           NEW ways, Flow(k, net) \in ways
    PROVE  Leg(k, net, ways)
<1>1. PICK e : e = [kind |-> "network", source |-> ServiceNode(k), target |-> NetworkNode(net), flow |-> Flow(k, net)]
      OBVIOUS
<1>2. e \in NetworkEdges
      BY <1>1 DEF NetworkEdges
<1>3. NetworkEdges \subseteq BuildGraph.edges
      BY DEF BuildGraph
<1>4. e.kind = "network" /\ e.source = ServiceNode(k) /\ e.target = NetworkNode(net) /\ e.flow = Flow(k, net)
      BY <1>1
<1> QED BY <1>2, <1>3, <1>4 DEF Leg

LEMMA LegsAreDrawn ==
    ASSUME FleetFits(fleet), LinksFit, NEW d \in deps, NEW net \in Shared(fleet, d.from, d.to)
    PROVE  Leg(d.from, net, {"to-network", "both"}) /\ Leg(d.to, net, {"to-service", "both"})
<1>1. d.from \in Keys(fleet) /\ d.to \in Keys(fleet)
      BY DEF LinksFit
<1>2. /\ Drawn(fleet, net)
      /\ net \in Service(fleet, d.from).networks /\ net \in Service(fleet, d.to).networks
      BY <1>1, SharedIsDrawn
<1>3. OutOf(d.from, net) /\ Into(d.to, net)
      BY DEF OutOf, Into
<1>4. Flow(d.from, net) \in {"to-network", "both"} /\ Flow(d.to, net) \in {"to-service", "both"}
      BY <1>3, FlowPoints
<1> QED BY <1>1, <1>2, <1>4, LegIsDrawn

-----------------------------------------------------------------------------
(* The ways in. *)

\* A step along the drawing, from where one has come.
Onward(edges, nodes) == nodes \cup {e.target : e \in {e \in edges : e.kind = "ingress" /\ e.source \in nodes}}
Within4(edges) == Onward(edges, Onward(edges, Onward(edges, Onward(edges, {Outside}))))

LEMMA OnwardGoesOn ==
    ASSUME NEW edges, NEW nodes, NEW e \in edges, e.kind = "ingress", e.source \in nodes
    PROVE  e.target \in Onward(edges, nodes)
BY DEF Onward

LEMMA OnwardKeeps ==
    ASSUME NEW edges, NEW nodes
    PROVE  nodes \subseteq Onward(edges, nodes)
BY DEF Onward

LEMMA IngressEdgesAreDrawn ==
    /\ IngressEdges \subseteq BuildGraph.edges
    /\ \A e \in BuildGraph.edges : e.kind = "ingress" => e \in IngressEdges
<1>1. BuildGraph.edges = NetworkEdges \cup VolumeEdges \cup IngressEdges \cup Gating \cup AppEdges
            \cup {Edge("depends-on", ServiceNode(d.from), ServiceNode(d.to)) : d \in deps}
      BY DEF BuildGraph
<1>2. \A e \in NetworkEdges : e.kind = "network"
      BY DEF NetworkEdges
<1>3. \A e \in VolumeEdges : e.kind = "volume"
      BY DEF VolumeEdges, Edge
<1>4. \A e \in Gating : e.kind = "auth"
      BY DEF Gating, Edge
<1>5. \A e \in AppEdges : e.kind = "auth"
  <2>1. \A e \in MatchEdges : e.kind = "auth"
        BY DEF MatchEdges, Edge
  <2>2. \A a, p : \A e \in ProviderEdges(a, p) : e.kind = "auth"
        BY DEF ProviderEdges, Edge
  <2>3. \A e \in BehindApps : e.kind = "auth"
        BY <2>2 DEF BehindApps
  <2> QED BY <2>1, <2>3 DEF AppEdges
<1>6. \A e \in {Edge("depends-on", ServiceNode(d.from), ServiceNode(d.to)) : d \in deps} : e.kind = "depends-on"
      BY DEF Edge
<1> QED BY <1>1, <1>2, <1>3, <1>4, <1>5, <1>6

\* Who can be come to: a service that its labels open, or a hop.
Open(k) == Public(Service(fleet, k)) \/ Routed(Service(fleet, k)) \/ k \in proxies
LeadsToOpen(node) == node[1] = "svc" /\ node[2] \in Keys(fleet) => Open(node[2])

LEMMA WaysLeadToOpen ==
    ASSUME OriginsFit, stage = "draw", NEW e \in IngressEdges
    PROVE  LeadsToOpen(e.target)
<1>1. CASE e \in HostEdges
  <2>1. PICK h : e.target = HostNode(h)
        BY <1>1 DEF HostEdges, Edge
  <2> QED BY <2>1 DEF HostNode, LeadsToOpen
<1>2. CASE e \in TunnelEdges
  <2>1. PICK k \in Keys(fleet) : \E t \in Tunnels(k) : e \in TunnelPath(k, t)
        BY <1>2 DEF TunnelEdges
  <2>2. PICK t \in Tunnels(k) : e \in TunnelPath(k, t)
        BY <2>1
  <2>3. PICK hop : hop = origins[k][t].hop
        OBVIOUS
  <2>4. e.target = ServiceNode(k) \/ (hop # 0 /\ e.target = ServiceNode(hop))
    <3>1. PICK host : host = HostNode(Service(fleet, k).tunnels[t].hostname)
          OBVIOUS
    <3>2. \/ e = Edge("ingress", host, ServiceNode(k))
          \/ hop # 0 /\ e = Edge("ingress", host, ServiceNode(hop))
          \/ hop # 0 /\ e = Edge("ingress", ServiceNode(hop), ServiceNode(k))
          BY <2>2, <2>3, <3>1 DEF TunnelPath
    <3> QED BY <3>2 DEF Edge
  <2>5. Public(Service(fleet, k))
        BY <2>2 DEF Tunnels, Public, ToSet
  <2>6. hop # 0 => hop \in proxies
    <3>1. k \in DOMAIN origins /\ t \in DOMAIN origins[k]
          BY <2>2 DEF OriginsFit, FromDepends, Tunnels
    <3> QED BY <3>1, <2>3 DEF OriginsFit, EndFits
  <2> QED BY <2>4, <2>5, <2>6 DEF ServiceNode, LeadsToOpen, Open
<1>3. CASE e \in RouterEdges
  <2>1. PICK k \in Keys(fleet) : e \in {Edge("ingress", HostNode(h), ServiceNode(k)) : h \in RouterHosts(k)}
        BY <1>3 DEF RouterEdges
  <2>2. PICK h \in RouterHosts(k) : e = Edge("ingress", HostNode(h), ServiceNode(k))
        BY <2>1
  <2>3. Routed(Service(fleet, k))
        BY <2>2 DEF RouterHosts, Routed
  <2> QED BY <2>2, <2>3 DEF Edge, ServiceNode, LeadsToOpen, Open
<1> QED BY <1>1, <1>2, <1>3 DEF IngressEdges

LEMMA OnwardLeadsToOpen ==
    ASSUME OriginsFit, stage = "draw", NEW nodes, \A n \in nodes : LeadsToOpen(n)
    PROVE  \A n \in Onward(BuildGraph.edges, nodes) : LeadsToOpen(n)
BY WaysLeadToOpen, IngressEdgesAreDrawn DEF Onward

LEMMA OnlyOpenIsReached ==
    ASSUME OriginsFit, stage = "draw", NEW k \in Keys(fleet), ServiceNode(k) \in Within4(BuildGraph.edges)
    PROVE  Open(k)
<1>1. \A n \in {Outside} : LeadsToOpen(n)
  <2>1. Outside[1] = "outside"
        BY DEF Outside
  <2>2. LeadsToOpen(Outside)
        BY <2>1 DEF LeadsToOpen
  <2> QED BY <2>2
<1>2. \A n \in Within4(BuildGraph.edges) : LeadsToOpen(n)
      BY <1>1, OnwardLeadsToOpen DEF Within4
<1> QED BY <1>2 DEF ServiceNode, LeadsToOpen

\* From outside to a host is a step; to the service another, or two by a hop.
LEMMA HostIsReached ==
    ASSUME NEW k \in Keys(fleet), NEW h \in HostsOf(k)
    PROVE  HostNode(h) \in Onward(BuildGraph.edges, {Outside})
<1>1. Edge("ingress", Outside, HostNode(h)) \in BuildGraph.edges
      BY IngressEdgesAreDrawn DEF IngressEdges, HostEdges
<1>2. PICK e : e = Edge("ingress", Outside, HostNode(h))
      OBVIOUS
<1>3. e.kind = "ingress" /\ e.source = Outside /\ e.target = HostNode(h)
      BY <1>2 DEF Edge
<1> QED BY <1>1, <1>2, <1>3, OnwardGoesOn

LEMMA StepIsWithin ==
    ASSUME NEW edges, NEW node
    PROVE  /\ node \in Onward(edges, Onward(edges, {Outside})) => node \in Within4(edges)
           /\ node \in Onward(edges, Onward(edges, Onward(edges, {Outside}))) => node \in Within4(edges)
BY OnwardKeeps DEF Within4

LEMMA PublicIsReached ==
    ASSUME NEW k \in Keys(fleet), Public(Service(fleet, k))
    PROVE  ServiceNode(k) \in Within4(BuildGraph.edges)
<1>1. PICK t \in Tunnels(k) : TRUE
      BY DEF Public, Tunnels, ToSet
<1>2. PICK host : host = Service(fleet, k).tunnels[t].hostname
      OBVIOUS
<1>3. PICK hop : hop = origins[k][t].hop
      OBVIOUS
<1>4. PICK edges : edges = BuildGraph.edges
      OBVIOUS
<1>5. TunnelPath(k, t) \subseteq edges
      BY <1>4, IngressEdgesAreDrawn DEF IngressEdges, TunnelEdges
<1>6. host \in HostsOf(k)
      BY <1>1, <1>2 DEF HostsOf
<1>7. HostNode(host) \in Onward(edges, {Outside})
      BY <1>4, <1>6, HostIsReached
<1>8. CASE hop = 0
  <2>1. PICK e : e = Edge("ingress", HostNode(host), ServiceNode(k))
        OBVIOUS
  <2>2. e \in edges
        BY <1>2, <1>3, <1>5, <1>8, <2>1 DEF TunnelPath
  <2>3. e.kind = "ingress" /\ e.source = HostNode(host) /\ e.target = ServiceNode(k)
        BY <2>1 DEF Edge
  <2>4. ServiceNode(k) \in Onward(edges, Onward(edges, {Outside}))
        BY <1>7, <2>2, <2>3, OnwardGoesOn
  <2> QED BY <1>4, <2>4, StepIsWithin
<1>9. CASE hop # 0
  <2>1. PICK e : e = Edge("ingress", HostNode(host), ServiceNode(hop))
        OBVIOUS
  <2>2. PICK f : f = Edge("ingress", ServiceNode(hop), ServiceNode(k))
        OBVIOUS
  <2>3. e \in edges /\ f \in edges
        BY <1>2, <1>3, <1>5, <1>9, <2>1, <2>2 DEF TunnelPath
  <2>4. /\ e.kind = "ingress" /\ e.source = HostNode(host) /\ e.target = ServiceNode(hop)
        /\ f.kind = "ingress" /\ f.source = ServiceNode(hop) /\ f.target = ServiceNode(k)
        BY <2>1, <2>2 DEF Edge
  <2>5. ServiceNode(hop) \in Onward(edges, Onward(edges, {Outside}))
        BY <1>7, <2>3, <2>4, OnwardGoesOn
  <2>6. ServiceNode(k) \in Onward(edges, Onward(edges, Onward(edges, {Outside})))
        BY <2>3, <2>4, <2>5, OnwardGoesOn
  <2> QED BY <1>4, <2>6, StepIsWithin
<1> QED BY <1>8, <1>9

LEMMA RoutedIsReached ==
    ASSUME NEW k \in Keys(fleet), RouterHosts(k) # {}
    PROVE  ServiceNode(k) \in Within4(BuildGraph.edges)
<1>1. PICK h \in RouterHosts(k) : TRUE
      OBVIOUS
<1>2. h \in HostsOf(k)
      BY DEF HostsOf
<1>3. PICK edges : edges = BuildGraph.edges
      OBVIOUS
<1>4. PICK e : e = Edge("ingress", HostNode(h), ServiceNode(k))
      OBVIOUS
<1>5. e \in edges
      BY <1>1, <1>3, <1>4, IngressEdgesAreDrawn DEF IngressEdges, RouterEdges
<1>6. e.kind = "ingress" /\ e.source = HostNode(h) /\ e.target = ServiceNode(k)
      BY <1>4 DEF Edge
<1>7. HostNode(h) \in Onward(edges, {Outside})
      BY <1>2, <1>3, HostIsReached
<1>8. ServiceNode(k) \in Onward(edges, Onward(edges, {Outside}))
      BY <1>5, <1>6, <1>7, OnwardGoesOn
<1> QED BY <1>3, <1>8, StepIsWithin

-----------------------------------------------------------------------------
(* What the probe and the sidecars come to. *)

\* VerdictOf, row by row.
LEMMA Verdicts ==
    ASSUME NEW p
    PROVE  VerdictOf(p) = IF ~OK(p.phase) THEN "no-answer" ELSE IF p.gate # "" THEN "gated" ELSE "open"
<1>1. PICK a, b, c : a = <<~OK(p.phase), "no-answer">> /\ b = <<p.gate # "", "gated">> /\ c = <<TRUE, "open">>
      OBVIOUS
<1>2. VerdictOf(p) = FirstHolding(<<a, b, c>>)
      BY <1>1 DEF VerdictOf
<1>3. /\ a[1] <=> ~OK(p.phase)
      /\ b[1] <=> p.gate # ""
      /\ c[1] = TRUE
      /\ a[2] = "no-answer" /\ b[2] = "gated" /\ c[2] = "open"
      BY <1>1
<1> QED BY <1>2, <1>3, FirstOf3

\* Who was not asked has no gate and answered nothing; who was asked and has a status, answered,
\* and only who answered has a gate.
ProbeFits(p) ==
    /\ p.gate # "" => p.asked /\ OK(p.phase)
    /\ OK(p.phase) <=> p.asked /\ p.status # 0

LEMMA NoProbeFits == ProbeFits(NoProbe) /\ ~NoProbe.asked
BY DEF ProbeFits, NoProbe, OK

LEMMA AskFits ==
    ASSUME NEW targets, NEW far, \A url \in DOMAIN far.answers : far.answers[url].status # 0
    PROVE  ProbeFits(Ask(targets, far)) /\ Ask(targets, far).asked
<1>1. PICK I : I = {i \in 1..Len(targets) : targets[i].url \in DOMAIN far.answers}
      OBVIOUS
<1>2. PICK at : at = SelectInSeq(targets, LAMBDA t : t.url \in DOMAIN far.answers)
      OBVIOUS
<1>3. at = IF I # {} THEN Min(I) ELSE 0
      BY <1>1, <1>2 DEF SelectInSeq
<1>4. PICK p : p = Ask(targets, far)
      OBVIOUS
<1>5. CASE at # 0
  <2>1. at \in I
    <3>1. I \subseteq Nat
          BY <1>1
    <3> QED BY <3>1, <1>3, <1>5, LeastIsThere
  <2>2. PICK a : a = far.answers[targets[at].url]
        OBVIOUS
  <2>3. a.status # 0
        BY <1>1, <2>1, <2>2
  <2>4. PICK n : p = ReadAnswer(targets[at], a, n, far.states)
        BY <1>2, <1>4, <1>5, <2>2 DEF Ask
  <2>5. p.asked = TRUE /\ p.phase = "connected" /\ p.status = a.status
        BY <2>4 DEF ReadAnswer, NoProbe
  <2> QED BY <1>4, <2>3, <2>5 DEF ProbeFits, OK
<1>6. CASE at = 0
  <2>1. p.asked = TRUE /\ p.phase = "connect" /\ p.status = 0 /\ p.gate = ""
        BY <1>2, <1>4, <1>6 DEF Ask, NoProbe
  <2> QED BY <1>4, <2>1 DEF ProbeFits, OK
<1> QED BY <1>5, <1>6

FromDeclare == FromProbe \ {"probe"}
With(verdict) == {k \in Keys(fleet) : VerdictOf(probes[k]) = verdict}
ProbesFit ==
    stage \in FromDeclare => /\ \A k \in Keys(fleet) : ProbeFits(probes[k])
                             /\ run.gated = Cardinality(With("gated"))
                             /\ run.open = Cardinality(With("open"))

LEMMA ProbeCounts ==
    ASSUME Probe, SoundWorld(world)
    PROVE  ProbesFit'
<1>1. PICK decision : decision = ProbeDecision(world.probe, world.override)
      OBVIOUS
<1>2. PICK e : e = [k \in Keys(fleet) |-> Eligible(Service(fleet, k), ConfiguredEdgeAuth(fleet.auth[k]), world.lanHost)]
      OBVIOUS
<1>3. PICK results : results = [k \in Keys(fleet) |->
                IF decision.enabled /\ e[k].targets # <<>> THEN Ask(e[k].targets, world.far) ELSE NoProbe]
      OBVIOUS
<1>4. probes' = results /\ run' = RunReport(decision, e, results) /\ fleet' = fleet
      BY <1>1, <1>2, <1>3 DEF Probe
<1>5. ASSUME NEW k \in Keys(fleet)
      PROVE  ProbeFits(results[k]) /\ (results[k].asked => e[k].targets # <<>>)
  <2>1. CASE decision.enabled /\ e[k].targets # <<>>
    <3>1. results[k] = Ask(e[k].targets, world.far)
          BY <1>3, <2>1
    <3>2. \A url \in DOMAIN world.far.answers : world.far.answers[url].status # 0
          BY DEF SoundWorld
    <3> QED BY <2>1, <3>1, <3>2, AskFits
  <2>2. CASE ~(decision.enabled /\ e[k].targets # <<>>)
    <3>1. results[k] = NoProbe
          BY <1>3, <2>2
    <3> QED BY <3>1, NoProbeFits
  <2> QED BY <2>1, <2>2
<1>6. PICK asking : asking = {k \in DOMAIN e : e[k].targets # <<>>}
      OBVIOUS
<1>7. /\ run'.gated = Cardinality({k \in asking : VerdictOf(results[k]) = "gated"})
      /\ run'.open = Cardinality({k \in asking : VerdictOf(results[k]) = "open"})
      BY <1>4, <1>6 DEF RunReport
<1>8. ASSUME NEW verdict \in {"gated", "open"}
      PROVE  {k \in asking : VerdictOf(results[k]) = verdict} = {k \in Keys(fleet) : VerdictOf(results[k]) = verdict}
  <2>1. DOMAIN e = Keys(fleet)
        BY <1>2
  <2>2. ASSUME NEW k \in Keys(fleet), VerdictOf(results[k]) = verdict PROVE k \in asking
    <3>1. OK(results[k].phase)
          BY <2>2, Verdicts
    <3>2. e[k].targets # <<>>
          BY <3>1, <1>5 DEF ProbeFits
    <3> QED BY <3>2, <1>6, <2>1
  <2> QED BY <2>1, <2>2, <1>6
<1>9. /\ With("gated")' = {k \in Keys(fleet) : VerdictOf(results[k]) = "gated"}
      /\ With("open")' = {k \in Keys(fleet) : VerdictOf(results[k]) = "open"}
      BY <1>4 DEF With
<1>10. /\ run'.gated = Cardinality(With("gated")')
       /\ run'.open = Cardinality(With("open")')
      BY <1>7, <1>8, <1>9
<1>11. \A k \in Keys(fleet') : ProbeFits(probes'[k])
      BY <1>4, <1>5
<1> QED BY <1>10, <1>11 DEF ProbesFit

LEMMA ProbesStep == SoundWorld(world) /\ ProbesFit /\ [Next]_vars => ProbesFit'
<1> SUFFICES ASSUME SoundWorld(world), ProbesFit, [Next]_vars PROVE ProbesFit'
    OBVIOUS
<1>1. CASE Probe
      BY <1>1, ProbeCounts
<1>2. CASE ReadFleet \/ Routes \/ Classify \/ Origins \/ Dependencies \/ Match \/ Rescan
  <2>1. stage' \notin FromDeclare
        BY <1>2 DEF ReadFleet, Routes, Classify, Origins, Dependencies, Match, Rescan,
                    FromDeclare, FromProbe, FromMatch, FromDepends
  <2> QED BY <2>1 DEF ProbesFit
<1>3. CASE Declare \/ Draw \/ Tell \/ Finished \/ UNCHANGED vars
  <2>1. fleet' = fleet /\ probes' = probes /\ run' = run
        BY <1>3 DEF Declare, Draw, Tell, Finished, vars, lateVars
  <2>2. stage' \in FromDeclare => stage \in FromDeclare
        BY <1>3 DEF Declare, Draw, Tell, Finished, vars, FromDeclare, FromProbe, FromMatch, FromDepends
  <2>3. With("gated")' = With("gated") /\ With("open")' = With("open")
        BY <2>1 DEF With
  <2> QED BY <2>1, <2>2, <2>3 DEF ProbesFit
<1> QED BY <1>1, <1>2, <1>3 DEF Next

\* The families, and the layers they are in.
LEMMA DeclaredFamilies ==
    ASSUME NEW m
    PROVE  DeclaredFamily(m) \in {"oidc", "ldap", "proxy", ""}
<1>1. PICK a, b, c, d : /\ a = <<m = "app-oidc", "oidc">> /\ b = <<m = "app-ldap", "ldap">>
                        /\ c = <<m = "external-proxy", "proxy">> /\ d = <<TRUE, "">>
      OBVIOUS
<1>2. DeclaredFamily(m) = FirstHolding(<<a, b, c, d>>)
      BY <1>1 DEF DeclaredFamily
<1>3. a[2] = "oidc" /\ b[2] = "ldap" /\ c[2] = "proxy" /\ d[2] = "" /\ d[1] = TRUE
      BY <1>1
<1> QED BY <1>2, <1>3, FirstOf4

LEMMA Layers ==
    ASSUME NEW family
    PROVE  LayerOf(family) = IF family \in {"oidc", "ldap"} THEN "app" ELSE IF family = "proxy" THEN "gate" ELSE ""
<1>1. PICK a, b, c : a = <<family \in {"oidc", "ldap"}, "app">> /\ b = <<family = "proxy", "gate">> /\ c = <<TRUE, "">>
      OBVIOUS
<1>2. LayerOf(family) = FirstHolding(<<a, b, c>>)
      BY <1>1 DEF LayerOf
<1>3. /\ a[1] <=> family \in {"oidc", "ldap"}
      /\ b[1] <=> family = "proxy"
      /\ c[1] = TRUE
      /\ a[2] = "app" /\ b[2] = "gate" /\ c[2] = ""
      BY <1>1
<1> QED BY <1>2, <1>3, FirstOf3

\* Nothing detected is of no family.
LEMMA UndetectedHasNoFamily ==
    ASSUME NEW method, ~Detected(method)
    PROVE  DetectedFamily(method) = ""
<1>1. method \in {"none", ""}
      BY DEF Detected
<1>2. PICK a, b, c, d : /\ a = <<method \in {"authentik-oauth", "other-oauth"}, "oidc">>
                        /\ b = <<method \in {"authentik-ldap", "ldap"}, "ldap">>
                        /\ c = <<method \in {"authentik-forward-auth", "forward-auth"}, "proxy">>
                        /\ d = <<TRUE, "">>
      OBVIOUS
<1>3. DetectedFamily(method) = FirstHolding(<<a, b, c, d>>)
      BY <1>2 DEF DetectedFamily
<1>4. ~a[1] /\ ~b[1] /\ ~c[1] /\ d[1] = TRUE /\ d[2] = ""
      BY <1>1, <1>2
<1> QED BY <1>3, <1>4, FirstOf4

\* A service would be exposed that can be come to and shows no gate.
WouldBe(kinds, auth, probe) == kinds \cap ExternalKinds # {} /\ ~HasEdgeAuth(auth, probe)

\* What is said to agree or conflict was detected in its layer, what supplies or adds was not.
Coherent(agreement, mechanism, declared, method) ==
    /\ agreement \in {"redundant", "conflicts"} => mechanism \notin UnconfirmedMechanisms(declared, method)
    /\ agreement \in {"supplies", "supplements"} /\ DeclaredFamily(mechanism) # "" =>
            mechanism \in UnconfirmedMechanisms(declared, method)

LEMMA CompareIsCoherent ==
    ASSUME NEW declared, IsList(declared), NEW method, NEW exposed \in BOOLEAN, exposed => ~Detected(method)
    PROVE  LET cmp == Compare(declared, method, exposed)
           IN  /\ Coherent(cmp.agreement, cmp.mechanism, declared, method)
               /\ cmp.agreement = "supplies" <=> exposed /\ declared # <<>>
               /\ declared = <<>> => cmp.agreement = ""
<1>1. PICK cmp : cmp = Compare(declared, method, exposed)
      OBVIOUS
<1>2. PICK family : family = DetectedFamily(method)
      OBVIOUS
<1>3. PICK S : S = {i \in 1..Len(declared) : DeclaredFamily(declared[i]) = family}
      OBVIOUS
<1>4. PICK C : C = {i \in 1..Len(declared) : /\ DeclaredFamily(declared[i]) \notin {"", family}
                                             /\ LayerOf(DeclaredFamily(declared[i])) = LayerOf(family)}
      OBVIOUS
<1>5. PICK B : B = {i \in 1..Len(declared) : LayerOf(DeclaredFamily(declared[i])) \notin {"", LayerOf(family)}}
      OBVIOUS
<1>6. PICK same : same = IF S # {} THEN Min(S) ELSE 0
      OBVIOUS
<1>7. PICK clashing : clashing = IF C # {} THEN Min(C) ELSE 0
      OBVIOUS
<1>8. PICK beside : beside = IF B # {} THEN Min(B) ELSE 0
      OBVIOUS
<1>9. PICK r1, r2, r3, r4, r5, r6, r7 :
            /\ r1 = <<declared = <<>>,              Agrees("", declared, 0)>>
            /\ r2 = <<exposed,                 Agrees("supplies", declared, IF declared = <<>> THEN 0 ELSE 1)>>
            /\ r3 = <<family = "",                  Agrees("", declared, 0)>>
            /\ r4 = <<same # 0,                     Agrees("redundant", declared, same)>>
            /\ r5 = <<clashing # 0,                 Agrees("conflicts", declared, clashing)>>
            /\ r6 = <<beside # 0,                   Agrees("supplements", declared, beside)>>
            /\ r7 = <<TRUE,                         Agrees("", declared, 0)>>
      OBVIOUS
<1>10. cmp = FirstHolding(<<r1, r2, r3, r4, r5, r6, r7>>)
  <2>1. SelectInSeq(declared, LAMBDA m : DeclaredFamily(m) = DetectedFamily(method)) = same
        BY <1>2, <1>3, <1>6 DEF SelectInSeq
  <2>2. SelectInSeq(declared, LAMBDA m : DeclaredFamily(m) \notin {"", DetectedFamily(method)}
                                         /\ LayerOf(DeclaredFamily(m)) = LayerOf(DetectedFamily(method))) = clashing
        BY <1>2, <1>4, <1>7 DEF SelectInSeq
  <2>3. SelectInSeq(declared, LAMBDA m : LayerOf(DeclaredFamily(m)) \notin {"", LayerOf(DetectedFamily(method))}) = beside
        BY <1>2, <1>5, <1>8 DEF SelectInSeq
  <2> QED BY <1>1, <1>2, <1>9, <2>1, <2>2, <2>3 DEF Compare
<1>11. /\ r1[1] <=> declared = <<>>
       /\ r2[1] <=> exposed
       /\ r4[1] <=> same # 0
       /\ r5[1] <=> clashing # 0
       /\ r6[1] <=> beside # 0
       /\ r7[1] = TRUE
       BY <1>9
<1>12. /\ r1[2] = Agrees("", declared, 0) /\ r3[2] = Agrees("", declared, 0) /\ r7[2] = Agrees("", declared, 0)
       /\ r2[2] = Agrees("supplies", declared, IF declared = <<>> THEN 0 ELSE 1)
       /\ r4[2] = Agrees("redundant", declared, same)
       /\ r5[2] = Agrees("conflicts", declared, clashing)
       /\ r6[2] = Agrees("supplements", declared, beside)
       BY <1>9
<1>13. cmp = IF declared = <<>> THEN r1[2] ELSE IF exposed THEN r2[2] ELSE IF r3[1] THEN r3[2] ELSE
             IF same # 0 THEN r4[2] ELSE IF clashing # 0 THEN r5[2] ELSE IF beside # 0 THEN r6[2] ELSE r7[2]
  <2>1. cmp = IF r1[1] THEN r1[2] ELSE IF r2[1] THEN r2[2] ELSE IF r3[1] THEN r3[2] ELSE IF r4[1] THEN r4[2] ELSE
              IF r5[1] THEN r5[2] ELSE IF r6[1] THEN r6[2] ELSE r7[2]
        BY <1>10, <1>11, FirstOf7
  <2> QED BY <2>1, <1>11
<1>14. \A at : at # 0 => \A said : /\ Agrees(said, declared, at).agreement = said
                                   /\ Agrees(said, declared, at).mechanism = declared[at]
       BY DEF Agrees
<1>15. Agrees("", declared, 0).agreement = ""
       BY DEF Agrees
<1>16. ASSUME cmp.agreement = ""
       PROVE  Coherent(cmp.agreement, cmp.mechanism, declared, method)
       BY <1>16 DEF Coherent
<1>17. CASE declared = <<>>
  <2>1. cmp.agreement = ""
        BY <1>12, <1>13, <1>15, <1>17
  <2> QED BY <1>1, <1>16, <1>17, <2>1
<1>18. CASE declared # <<>> /\ exposed
  <2>1. Len(declared) \in Nat /\ DOMAIN declared = 1..Len(declared) /\ Len(declared) # 0
        BY <1>18, EmptySeq DEF IsList
  <2>2. cmp = Agrees("supplies", declared, 1)
        BY <1>12, <1>13, <1>18
  <2>3. cmp.agreement = "supplies" /\ cmp.mechanism = declared[1]
        BY <2>2 DEF Agrees
  <2>4. ~Detected(method)
        BY <1>18
  <2>5. LayerOf(DetectedFamily(method)) = ""
        BY <2>4, UndetectedHasNoFamily, Layers
  <2>6. DeclaredFamily(declared[1]) # "" => LayerOf(DeclaredFamily(declared[1])) # ""
        BY DeclaredFamilies, Layers
  <2>7. declared[1] \in ToSet(declared)
        BY <2>1 DEF ToSet
  <2>8. DeclaredFamily(declared[1]) # "" => declared[1] \in UnconfirmedMechanisms(declared, method)
        BY <2>5, <2>6, <2>7 DEF UnconfirmedMechanisms
  <2> QED BY <1>1, <1>18, <2>3, <2>8 DEF Coherent
<1>19. CASE declared # <<>> /\ ~exposed
  <2>1. CASE cmp = Agrees("", declared, 0)
    <3>1. cmp.agreement = ""
          BY <1>15, <2>1
    <3> QED BY <1>1, <1>16, <1>19, <3>1
  <2>2. CASE same # 0 /\ cmp = Agrees("redundant", declared, same)
    <3>1. S \subseteq Nat
          BY <1>3
    <3>2. same \in S
          BY <3>1, <2>2, <1>6, LeastIsThere
    <3>3. declared[same] \notin UnconfirmedMechanisms(declared, method)
          BY <1>2, <1>3, <3>2 DEF UnconfirmedMechanisms
    <3>4. cmp.agreement = "redundant" /\ cmp.mechanism = declared[same]
          BY <1>14, <2>2
    <3> QED BY <1>1, <1>19, <3>3, <3>4 DEF Coherent
  <2>3. CASE clashing # 0 /\ cmp = Agrees("conflicts", declared, clashing)
    <3>1. C \subseteq Nat
      <4>1. C \subseteq 1..Len(declared)
            BY <1>4
      <4> QED BY <4>1
    <3>2. clashing \in C
          BY <3>1, <2>3, <1>7, LeastIsThere
    <3>3. declared[clashing] \notin UnconfirmedMechanisms(declared, method)
          BY <1>2, <1>4, <3>2 DEF UnconfirmedMechanisms
    <3>4. cmp.agreement = "conflicts" /\ cmp.mechanism = declared[clashing]
          BY <1>14, <2>3
    <3> QED BY <1>1, <1>19, <3>3, <3>4 DEF Coherent
  <2>4. CASE beside # 0 /\ cmp = Agrees("supplements", declared, beside)
    <3>1. B \subseteq Nat
      <4>1. B \subseteq 1..Len(declared)
            BY <1>5
      <4> QED BY <4>1
    <3>2. beside \in B
          BY <3>1, <2>4, <1>8, LeastIsThere
    <3>3. LayerOf(DeclaredFamily(declared[beside])) # LayerOf(DetectedFamily(method))
          BY <1>2, <1>5, <3>2
    <3>4. declared[beside] \in ToSet(declared)
      <4>1. beside \in 1..Len(declared)
            BY <1>5, <3>2
      <4>2. DOMAIN declared = 1..Len(declared)
            BY DEF IsList
      <4> QED BY <4>1, <4>2 DEF ToSet
    <3>5. DeclaredFamily(declared[beside]) # "" => declared[beside] \in UnconfirmedMechanisms(declared, method)
          BY <3>3, <3>4 DEF UnconfirmedMechanisms
    <3>6. cmp.agreement = "supplements" /\ cmp.mechanism = declared[beside]
          BY <1>14, <2>4
    <3> QED BY <1>1, <1>19, <3>5, <3>6 DEF Coherent
  <2> QED BY <1>12, <1>13, <1>19, <2>1, <2>2, <2>3, <2>4
<1> QED BY <1>17, <1>18, <1>19

FromDraw == {"draw", "describe", "done"}
VerdictFits(k) ==
    LET v == verdicts[k]
        declared == Service(fleet, k).sidecar.auth
    IN  /\ Coherent(v.agreement, v.mechanism, declared, fleet.auth[k].method)
        /\ v.exposed <=> WouldBe(ingress[k], fleet.auth[k], probes[k]) /\ declared = <<>>
        /\ v.agreement = "supplies" <=> WouldBe(ingress[k], fleet.auth[k], probes[k]) /\ declared # <<>>
VerdictsFit ==
    /\ stage \notin FromDraw => \A k \in DOMAIN verdicts : verdicts[k].agreement = ""
    /\ stage \in FromDraw => /\ DOMAIN verdicts = Keys(fleet)
                             /\ \A k \in Keys(fleet) : VerdictFits(k)

LEMMA ApplyFits ==
    ASSUME NEW side, IsList(side.auth), NEW kinds, NEW auth, NEW probe, NEW refs
    PROVE  LET v == Apply(side, kinds, auth, probe, refs)
           IN  /\ Coherent(v.agreement, v.mechanism, side.auth, auth.method)
               /\ v.exposed <=> WouldBe(kinds, auth, probe) /\ side.auth = <<>>
               /\ v.agreement = "supplies" <=> WouldBe(kinds, auth, probe) /\ side.auth # <<>>
               /\ side.auth = <<>> => v.agreement = ""
<1>1. PICK exposed \in BOOLEAN : exposed = WouldBe(kinds, auth, probe)
      BY DEF WouldBe
<1>2. PICK cmp : cmp = Compare(side.auth, auth.method, exposed)
      OBVIOUS
<1>3. PICK v : v = Apply(side, kinds, auth, probe, refs)
      OBVIOUS
<1>4. /\ v.agreement = cmp.agreement /\ v.mechanism = cmp.mechanism
      /\ v.exposed = (exposed /\ side.auth = <<>>)
      BY <1>1, <1>2, <1>3 DEF Apply, WouldBe
<1>5. exposed => ~Detected(auth.method)
      BY <1>1 DEF WouldBe, HasEdgeAuth, ConfiguredEdgeAuth
<1>6. /\ Coherent(cmp.agreement, cmp.mechanism, side.auth, auth.method)
      /\ cmp.agreement = "supplies" <=> exposed /\ side.auth # <<>>
      /\ side.auth = <<>> => cmp.agreement = ""
      BY <1>2, <1>5, CompareIsCoherent
<1> QED BY <1>1, <1>3, <1>4, <1>6

LEMMA UndeclaredAgreesWithNothing ==
    Apply(NoDeclaration, {}, NoAuth, NoProbe, {}).agreement = ""
<1>1. NoDeclaration.auth = <<>>
      BY DEF NoDeclaration
<1>2. IsList(NoDeclaration.auth)
      BY <1>1 DEF IsList
<1> QED BY <1>1, <1>2, ApplyFits

LEMMA DeclareFits ==
    ASSUME Declare, FleetFits(fleet)
    PROVE  VerdictsFit'
<1>1. PICK result : result = [k \in Keys(fleet) |->
            Apply(Service(fleet, k).sidecar, ingress[k], fleet.auth[k], probes[k],
                  {r[2] : r \in {r \in refused : r[1] = k}})]
      OBVIOUS
<1>2. /\ verdicts' = result /\ fleet' = fleet /\ ingress' = ingress /\ probes' = probes
      /\ stage' = "draw"
      BY <1>1 DEF Declare
<1>3. ASSUME NEW k \in Keys(fleet) PROVE VerdictFits(k)'
  <2>1. IsList(Service(fleet, k).sidecar.auth)
        BY DEF FleetFits, ServiceFits
  <2>2. PICK side, kinds, auth, probe, refs :
            /\ side = Service(fleet, k).sidecar /\ kinds = ingress[k] /\ auth = fleet.auth[k] /\ probe = probes[k]
            /\ refs = {r[2] : r \in {r \in refused : r[1] = k}}
        OBVIOUS
  <2>3. PICK v : v = Apply(side, kinds, auth, probe, refs)
        OBVIOUS
  <2>4. result[k] = v
        BY <1>1, <2>2, <2>3
  <2>5. IsList(side.auth)
        BY <2>1, <2>2
  <2>6. /\ Coherent(v.agreement, v.mechanism, side.auth, auth.method)
        /\ v.exposed <=> WouldBe(kinds, auth, probe) /\ side.auth = <<>>
        /\ v.agreement = "supplies" <=> WouldBe(kinds, auth, probe) /\ side.auth # <<>>
        BY <2>3, <2>5, ApplyFits
  <2> QED BY <1>2, <2>2, <2>4, <2>6 DEF VerdictFits
<1>4. DOMAIN result = Keys(fleet)
      BY <1>1
<1> QED BY <1>2, <1>3, <1>4 DEF VerdictsFit, FromDraw

LEMMA VerdictsInit == Init => VerdictsFit
BY DEF Init, VerdictsFit, FromDraw

LEMMA VerdictsStep == FleetFits(fleet) /\ VerdictsFit /\ [Next]_vars => VerdictsFit'
<1> SUFFICES ASSUME FleetFits(fleet), VerdictsFit, [Next]_vars PROVE VerdictsFit'
    OBVIOUS
<1>1. CASE Declare
      BY <1>1, DeclareFits
<1>2. CASE Routes
  <2>1. /\ verdicts' = [k \in Keys(fleet) |-> Apply(NoDeclaration, {}, NoAuth, NoProbe, {})]
        /\ stage' = "classify"
        BY <1>2 DEF Routes
  <2>2. PICK none : none = Apply(NoDeclaration, {}, NoAuth, NoProbe, {})
        OBVIOUS
  <2>3. \A k \in DOMAIN verdicts' : verdicts'[k].agreement = ""
        BY <2>1, <2>2, UndeclaredAgreesWithNothing
  <2>4. stage' \notin FromDraw
        BY <2>1 DEF FromDraw
  <2> QED BY <2>3, <2>4 DEF VerdictsFit
<1>3. CASE ReadFleet \/ Classify \/ Origins \/ Dependencies \/ Match \/ Probe \/ Rescan
  <2>1. stage' \notin FromDraw
        BY <1>3 DEF ReadFleet, Classify, Origins, Dependencies, Match, Probe, Rescan, FromDraw
  <2>2. verdicts' = <<>> \/ (verdicts' = verdicts /\ stage \notin FromDraw)
        BY <1>3 DEF ReadFleet, Classify, Origins, Dependencies, Match, Probe, Rescan, FromDraw, lateVars
  <2>3. CASE verdicts' = <<>>
    <3>1. DOMAIN verdicts' = {}
          BY <2>3
    <3> QED BY <2>1, <3>1 DEF VerdictsFit
  <2>4. CASE verdicts' = verdicts /\ stage \notin FromDraw
        BY <2>1, <2>4 DEF VerdictsFit
  <2> QED BY <2>2, <2>3, <2>4
<1>4. CASE Draw \/ Tell \/ Finished \/ UNCHANGED vars
  <2>1. fleet' = fleet /\ verdicts' = verdicts /\ ingress' = ingress /\ probes' = probes
        BY <1>4 DEF Draw, Tell, Finished, vars, ownVars, lateVars
  <2>2. stage' \in FromDraw <=> stage \in FromDraw
        BY <1>4 DEF Draw, Tell, Finished, vars, FromDraw
  <2>3. \A k \in Keys(fleet) : VerdictFits(k)' <=> VerdictFits(k)
        BY <2>1 DEF VerdictFits
  <2> QED BY <2>1, <2>2, <2>3 DEF VerdictsFit
<1> QED BY <1>1, <1>2, <1>3, <1>4 DEF Next

LEMMA VerdictsAreCoherent == VerdictsFit => CorroborationIsCoherent
<1> SUFFICES ASSUME VerdictsFit, NEW k \in DOMAIN verdicts
             PROVE  Coherent(verdicts[k].agreement, verdicts[k].mechanism, Service(fleet, k).sidecar.auth, fleet.auth[k].method)
    BY DEF CorroborationIsCoherent, Coherent
<1>1. CASE stage \in FromDraw
      BY <1>1 DEF VerdictsFit, VerdictFits
<1>2. CASE stage \notin FromDraw
  <2>1. verdicts[k].agreement = ""
        BY <1>2 DEF VerdictsFit
  <2> QED BY <2>1 DEF Coherent
<1> QED BY <1>1, <1>2

LEMMA ProbesInit == Init => ProbesFit
BY DEF Init, ProbesFit, FromDeclare, FromProbe, FromMatch, FromDepends

-----------------------------------------------------------------------------
(* What is drawn stays as it was concluded. *)

Drawing == {"describe", "done"}
GraphFits ==
    /\ EveryEdgeHasBothEnds /\ IngressIsDrawn /\ DependencyIsOnItsLegs
    /\ stage \notin Drawing => graph = NoGraph

LEMMA DrawFits ==
    ASSUME Draw, FleetFits(fleet), OriginsFit, IngressFits, LinksFit
    PROVE  GraphFits'
<1>1. /\ stage = "draw" /\ stage' = "describe"
      /\ graph' = BuildGraph
      /\ fleet' = fleet /\ ingress' = ingress /\ proxies' = proxies /\ deps' = deps
      BY DEF Draw, ownVars
<1>2. EveryEdgeHasBothEnds'
  <2>1. \A e \in BuildGraph.edges : Ends(e)
        BY <1>1, DrawnHasBothEnds
  <2> QED BY <1>1, <2>1 DEF EveryEdgeHasBothEnds, Ends
<1>3. IngressIsDrawn'
  <2>1. ReachedFrom({Outside})' = Within4(BuildGraph.edges)
        BY <1>1 DEF ReachedFrom, Within4, Onward
  <2>2. ASSUME NEW k \in Keys(fleet)
        PROVE  LET reached == ServiceNode(k) \in Within4(BuildGraph.edges)
               IN  /\ "public" \in ingress[k] => reached
                   /\ "traefik" \in ingress[k] => reached \/ RouterHosts(k) = {}
                   /\ reached => ingress[k] \cap {"public", "traefik"} # {} \/ k \in proxies
    <3>1. /\ "public" \in ingress[k] <=> Public(Service(fleet, k))
          /\ "traefik" \in ingress[k] <=> Routed(Service(fleet, k))
          BY <1>1 DEF IngressFits, FromOrigins, FromDepends
    <3>2. ServiceNode(k) \in Within4(BuildGraph.edges) => Open(k)
          BY <1>1, OnlyOpenIsReached
    <3> QED BY <3>1, <3>2, PublicIsReached, RoutedIsReached DEF Open
  <2>3. \A k \in Keys(fleet) : RouterHosts(k)' = RouterHosts(k)
        BY <1>1 DEF RouterHosts
  <2> QED BY <1>1, <2>1, <2>2, <2>3 DEF IngressIsDrawn
<1>4. DependencyIsOnItsLegs'
  <2>1. \A d \in deps : \A net \in Shared(fleet, d.from, d.to) :
            Leg(d.from, net, {"to-network", "both"}) /\ Leg(d.to, net, {"to-service", "both"})
        BY LegsAreDrawn
  <2> QED BY <1>1, <2>1 DEF DependencyIsOnItsLegs, Leg
<1> QED BY <1>1, <1>2, <1>3, <1>4 DEF GraphFits, Drawing

LEMMA GraphInit == Init => GraphFits
BY DEF Init, GraphFits, Drawing, EveryEdgeHasBothEnds, IngressIsDrawn, DependencyIsOnItsLegs, NoGraph

LEMMA GraphStep ==
    FleetFits(fleet) /\ OriginsFit /\ IngressFits /\ LinksFit /\ GraphFits /\ [Next]_vars => GraphFits'
<1> SUFFICES ASSUME FleetFits(fleet), OriginsFit, IngressFits, LinksFit, GraphFits, [Next]_vars PROVE GraphFits'
    OBVIOUS
<1>1. CASE Draw
      BY <1>1, DrawFits
<1>2. CASE Rescan \/ ReadFleet \/ Routes \/ Classify \/ Origins \/ Dependencies \/ Match \/ Probe \/ Declare
  <2>1. graph' = NoGraph /\ stage' \notin Drawing
        BY <1>2 DEF Rescan, ReadFleet, Routes, Classify, Origins, Dependencies, Match, Probe, Declare,
                    GraphFits, Drawing, lateVars
  <2> QED BY <2>1 DEF GraphFits, Drawing, EveryEdgeHasBothEnds, IngressIsDrawn, DependencyIsOnItsLegs, NoGraph
<1>3. CASE Tell \/ Finished \/ UNCHANGED vars
  <2>1. graph' = graph /\ fleet' = fleet /\ ingress' = ingress /\ proxies' = proxies /\ deps' = deps
        BY <1>3 DEF Tell, Finished, vars, ownVars, lateVars
  <2>2. stage' \in Drawing <=> stage \in Drawing
        BY <1>3 DEF Tell, Finished, vars, Drawing
  <2>3. EveryEdgeHasBothEnds'
        BY <2>1 DEF EveryEdgeHasBothEnds, GraphFits
  <2>4. IngressIsDrawn'
    <3>1. ReachedFrom({Outside})' = ReachedFrom({Outside})
          BY <2>1 DEF ReachedFrom
    <3>2. \A k \in Keys(fleet) : RouterHosts(k)' = RouterHosts(k)
          BY <2>1 DEF RouterHosts
    <3> QED BY <2>1, <2>2, <3>1, <3>2 DEF IngressIsDrawn, GraphFits, Drawing
  <2>5. DependencyIsOnItsLegs'
        BY <2>1, <2>2 DEF DependencyIsOnItsLegs, GraphFits, Drawing
  <2> QED BY <2>1, <2>2, <2>3, <2>4, <2>5 DEF GraphFits
<1> QED BY <1>1, <1>2, <1>3 DEF Next

-----------------------------------------------------------------------------
(* What is counted. *)

OverviewFits ==
    /\ ExposureIsAccounted
    /\ stage \notin Drawing => overview = <<>>

\* The services that the counts of exposure are about: what is open, and each part it falls into.
OpenSet == {k \in Keys(fleet) : /\ ingress[k] \cap ExternalKinds # {}
                                /\ ~ConfiguredEdgeAuth(fleet.auth[k])
                                /\ VerdictOf(probes[k]) # "gated"}
ExposedSet == {k \in Keys(fleet) : verdicts[k].exposed}
SuppliedSet == {k \in Keys(fleet) : verdicts[k].agreement = "supplies"}

LEMMA OpenIsExposedOrSupplied ==
    ASSUME stage = "draw", ProbesFit, VerdictsFit
    PROVE  OpenSet = ExposedSet \cup SuppliedSet /\ ExposedSet \cap SuppliedSet = {}
<1>1. ASSUME NEW k \in Keys(fleet)
      PROVE  /\ k \in OpenSet <=> WouldBe(ingress[k], fleet.auth[k], probes[k])
             /\ verdicts[k].exposed <=> WouldBe(ingress[k], fleet.auth[k], probes[k])
                                        /\ Service(fleet, k).sidecar.auth = <<>>
             /\ verdicts[k].agreement = "supplies" <=> WouldBe(ingress[k], fleet.auth[k], probes[k])
                                                       /\ Service(fleet, k).sidecar.auth # <<>>
  <2>1. ProbeFits(probes[k])
        BY DEF ProbesFit, FromDeclare, FromProbe, FromMatch, FromDepends
  <2>2. VerdictOf(probes[k]) = "gated" <=> probes[k].gate # ""
        BY <2>1, Verdicts DEF ProbeFits
  <2>3. VerdictFits(k)
        BY DEF VerdictsFit, FromDraw
  <2>4. k \in OpenSet <=> WouldBe(ingress[k], fleet.auth[k], probes[k])
        BY <2>2 DEF OpenSet, WouldBe, HasEdgeAuth
  <2> QED BY <2>3, <2>4 DEF VerdictFits
<1> QED BY <1>1 DEF OpenSet, ExposedSet, SuppliedSet

LEMMA ProbedSets ==
    ASSUME stage = "draw", ProbesFit
    PROVE  /\ {k \in Keys(fleet) : probes[k].asked /\ probes[k].gate # ""} = With("gated")
           /\ {k \in Keys(fleet) : probes[k].asked /\ probes[k].gate = "" /\ probes[k].status # 0} = With("open")
<1>1. ASSUME NEW k \in Keys(fleet)
      PROVE  /\ probes[k].asked /\ probes[k].gate # "" <=> VerdictOf(probes[k]) = "gated"
             /\ probes[k].asked /\ probes[k].gate = "" /\ probes[k].status # 0 <=> VerdictOf(probes[k]) = "open"
  <2>1. ProbeFits(probes[k])
        BY DEF ProbesFit, FromDeclare, FromProbe, FromMatch, FromDepends
  <2> QED BY <2>1, Verdicts DEF ProbeFits
<1> QED BY <1>1 DEF With

\* What is counted is how many there are.
LEMMA StatsCount ==
    LET counts == Stats(fleet, ingress, probes, verdicts, deps)
    IN  /\ counts.exposed = Cardinality(ExposedSet)
        /\ counts.declaredProtected = Cardinality(SuppliedSet)
        /\ counts.probeGated = Cardinality({k \in Keys(fleet) : probes[k].asked /\ probes[k].gate # ""})
        /\ counts.probeOpen =
             Cardinality({k \in Keys(fleet) : probes[k].asked /\ probes[k].gate = "" /\ probes[k].status # 0})
BY DEF Stats, ExposedSet, SuppliedSet

LEMMA DrawAccounts ==
    ASSUME Draw, FleetFits(fleet), ProbesFit, VerdictsFit
    PROVE  OverviewFits'
<1>1. /\ stage = "draw" /\ stage' = "describe"
      /\ overview' = Overview
      /\ fleet' = fleet /\ ingress' = ingress /\ probes' = probes /\ run' = run
      BY DEF Draw, ownVars
<1>2. PICK counts : counts = Stats(fleet, ingress, probes, verdicts, deps)
      OBVIOUS
<1>3. overview'.stats = counts
      BY <1>1, <1>2 DEF Overview
<1>4. counts.exposed + counts.declaredProtected = Cardinality(OpenSet)
  <2>1. IsFiniteSet(Keys(fleet))
        BY KeysAreFinite DEF FleetFits
  <2>2. ExposedSet \subseteq Keys(fleet) /\ SuppliedSet \subseteq Keys(fleet)
        BY DEF ExposedSet, SuppliedSet
  <2>3. IsFiniteSet(ExposedSet) /\ IsFiniteSet(SuppliedSet)
        BY <2>1, <2>2, FS_Subset
  <2>4. Cardinality(ExposedSet \cup SuppliedSet) =
            Cardinality(ExposedSet) + Cardinality(SuppliedSet) - Cardinality(ExposedSet \cap SuppliedSet)
        BY <2>3, FS_Union
  <2>5. Cardinality(ExposedSet \cap SuppliedSet) = 0
        BY <1>1, OpenIsExposedOrSupplied, FS_EmptySet
  <2>6. Cardinality(ExposedSet) \in Nat /\ Cardinality(SuppliedSet) \in Nat
        BY <2>3, FS_CardinalityType
  <2>7. Cardinality(OpenSet) = Cardinality(ExposedSet \cup SuppliedSet)
        BY <1>1, OpenIsExposedOrSupplied
  <2>8. counts.exposed = Cardinality(ExposedSet) /\ counts.declaredProtected = Cardinality(SuppliedSet)
        BY <1>2, StatsCount
  <2> QED BY <2>4, <2>5, <2>6, <2>7, <2>8
<1>5. counts.probeGated = run.gated /\ counts.probeOpen = run.open
  <2>1. run.gated = Cardinality(With("gated")) /\ run.open = Cardinality(With("open"))
        BY <1>1 DEF ProbesFit, FromDeclare, FromProbe, FromMatch, FromDepends
  <2> QED BY <1>1, <1>2, <2>1, StatsCount, ProbedSets
<1>6. OpenSet' = OpenSet
      BY <1>1 DEF OpenSet
<1>7. ExposureIsAccounted'
  <2>1. overview'.stats.exposed + overview'.stats.declaredProtected = Cardinality(OpenSet')
        BY <1>3, <1>4, <1>6
  <2>2. <<overview'.stats.probeGated, overview'.stats.probeOpen>> = <<run'.gated, run'.open>>
        BY <1>1, <1>3, <1>5
  <2> QED BY <2>1, <2>2 DEF ExposureIsAccounted, OpenSet
<1> QED BY <1>1, <1>7 DEF OverviewFits, Drawing

LEMMA OverviewInit == Init => OverviewFits
BY DEF Init, OverviewFits, ExposureIsAccounted

LEMMA OverviewStep ==
    FleetFits(fleet) /\ ProbesFit /\ VerdictsFit /\ OverviewFits /\ [Next]_vars => OverviewFits'
<1> SUFFICES ASSUME FleetFits(fleet), ProbesFit, VerdictsFit, OverviewFits, [Next]_vars PROVE OverviewFits'
    OBVIOUS
<1>1. CASE Draw
      BY <1>1, DrawAccounts
<1>2. CASE Rescan \/ ReadFleet \/ Routes \/ Classify \/ Origins \/ Dependencies \/ Match \/ Probe \/ Declare
  <2>1. overview' = <<>> /\ stage' \notin Drawing
        BY <1>2 DEF Rescan, ReadFleet, Routes, Classify, Origins, Dependencies, Match, Probe, Declare,
                    OverviewFits, Drawing, lateVars
  <2> QED BY <2>1 DEF OverviewFits, ExposureIsAccounted
<1>3. CASE Tell \/ Finished \/ UNCHANGED vars
  <2>1. /\ overview' = overview /\ fleet' = fleet /\ ingress' = ingress /\ probes' = probes /\ run' = run
        BY <1>3 DEF Tell, Finished, vars, ownVars, lateVars
  <2>2. stage' \in Drawing <=> stage \in Drawing
        BY <1>3 DEF Tell, Finished, vars, Drawing
  <2>3. OpenSet' = OpenSet
        BY <2>1 DEF OpenSet
  <2>4. ExposureIsAccounted'
        BY <2>1, <2>3 DEF ExposureIsAccounted, OverviewFits, OpenSet
  <2> QED BY <2>1, <2>2, <2>4 DEF OverviewFits
<1> QED BY <1>1, <1>2, <1>3 DEF Next

-----------------------------------------------------------------------------
(* The lines of a note. *)

\* A finite set is read out member by member.
LEMMA ReadOut ==
    ASSUME NEW S, IsFiniteSet(S)
    PROVE  IsList(SetToSeq(S)) /\ ToSet(SetToSeq(S)) = S
<1>1. PICK n \in Nat : n = Cardinality(S)
      BY FS_CardinalityType
<1>2. PICK f : f \in Bijection(1..n, S)
      BY <1>1, FS_CardinalityType DEF ExistsBijection
<1>3. f \in [1..n -> S] /\ IsInjective(f)
      BY <1>2 DEF Bijection, Injection, IsInjective
<1>4. PICK list : list = SetToSeq(S)
      OBVIOUS
<1>5. list \in [1..n -> S] /\ IsInjective(list)
      BY <1>1, <1>3, <1>4 DEF SetToSeq
<1>6. list \in Injection(1..n, S)
      BY <1>5 DEF Injection, IsInjective
<1>7. IsFiniteSet(1..n) /\ Cardinality(1..n) = n
      BY FS_Interval
<1>8. list \in Surjection(1..n, S)
      BY <1>1, <1>6, <1>7, FS_Injection
<1>9. ToSet(list) = S
      BY <1>5, <1>8 DEF Surjection, ToSet
<1>10. IsList(list)
      BY <1>5, <1>9 DEF IsList
<1> QED BY <1>4, <1>9, <1>10

\* Two lists, one after the other.
LEMMA JoinLists ==
    ASSUME NEW a, IsList(a), NEW b, IsList(b)
    PROVE  /\ IsList(a \o b) /\ ToSet(a \o b) \subseteq ToSet(a) \cup ToSet(b)
           /\ ToSet(a \o b) = {} => ToSet(a) = {} /\ ToSet(b) = {}
<1>1. PICK T : T = ToSet(a) \cup ToSet(b)
      OBVIOUS
<1>2. a \in Seq(T) /\ b \in Seq(T)
  <2>1. a \in Seq(ToSet(a)) /\ b \in Seq(ToSet(b)) /\ ToSet(a) \subseteq T /\ ToSet(b) \subseteq T
        BY <1>1 DEF IsList
  <2> QED BY <2>1
<1>3. PICK both : both = a \o b
      OBVIOUS
<1>4. both \in Seq(T) /\ Len(both) = Len(a) + Len(b)
      BY <1>2, <1>3, ConcatProperties
<1>5. ToSet(both) \subseteq T
      BY <1>4 DEF ToSet
<1>6. IsList(both)
  <2>1. both \in [1..Len(both) -> T] /\ DOMAIN both = 1..Len(both) /\ Len(both) \in Nat
        BY <1>4, LenProperties
  <2>2. \A i \in 1..Len(both) : both[i] \in ToSet(both)
        BY <2>1 DEF ToSet
  <2> QED BY <2>1, <2>2 DEF IsList
<1>7. ASSUME ToSet(both) = {} PROVE ToSet(a) = {} /\ ToSet(b) = {}
  <2>1. /\ DOMAIN both = 1..Len(both) /\ Len(both) \in Nat
        /\ DOMAIN a = 1..Len(a) /\ Len(a) \in Nat
        /\ DOMAIN b = 1..Len(b) /\ Len(b) \in Nat
        BY <1>2, <1>4, LenProperties
  <2>2. 1 \notin 1..Len(both)
        BY <1>7, <2>1 DEF ToSet
  <2>3. Len(a) = 0 /\ Len(b) = 0
        BY <2>1, <2>2, <1>4
  <2> QED BY <2>1, <2>3 DEF ToSet
<1> QED BY <1>1, <1>3, <1>5, <1>6, <1>7

\* The lines of one kind, as Configuration writes them.
StackLines(prev, next, what, ids) ==
    LET sorted == SetToSeq(ids)
    IN  [i \in DOMAIN sorted |->
            [what |-> what, id |-> sorted[i], by |-> ServiceCount(next, sorted[i]) - ServiceCount(prev, sorted[i])]]

LEMMA LinesOfAKind ==
    ASSUME NEW prev, NEW next, NEW what, NEW ids, IsFiniteSet(ids)
    PROVE  LET all == StackLines(prev, next, what, ids)
           IN  /\ IsList(all)
               /\ \A line \in ToSet(all) : line.what = what /\ line.id \in ids
               /\ ToSet(all) = {} => ids = {}
<1>1. PICK sorted : sorted = SetToSeq(ids)
      OBVIOUS
<1>2. PICK n \in Nat : DOMAIN sorted = 1..n
      BY <1>1, ReadOut DEF IsList
<1>3. ToSet(sorted) = ids
      BY <1>1, ReadOut
<1>4. PICK line : line = [i \in 1..n |->
            [what |-> what, id |-> sorted[i], by |-> ServiceCount(next, sorted[i]) - ServiceCount(prev, sorted[i])]]
      OBVIOUS
<1>5. PICK all : all = StackLines(prev, next, what, ids)
      OBVIOUS
<1>6. all = line
      BY <1>1, <1>2, <1>4, <1>5 DEF StackLines
<1>7. \A i \in 1..n : all[i].what = what /\ all[i].id = sorted[i]
      BY <1>4, <1>6
<1>8. DOMAIN all = 1..n /\ all = [i \in 1..n |-> all[i]]
      BY <1>4, <1>6
<1> HIDE <1>4, <1>6
<1>9. IsList(all)
  <2>1. \A i \in 1..n : all[i] \in ToSet(all)
        BY <1>8 DEF ToSet
  <2> QED BY <1>8, <2>1 DEF IsList
<1>10. \A l \in ToSet(all) : l.what = what /\ l.id \in ids
  <2> SUFFICES ASSUME NEW l \in ToSet(all) PROVE l.what = what /\ l.id \in ids
      OBVIOUS
  <2>1. PICK i \in 1..n : l = all[i]
        BY <1>8 DEF ToSet
  <2>2. sorted[i] \in ids
        BY <1>2, <1>3 DEF ToSet
  <2> QED BY <2>1, <2>2, <1>7
<1>11. ASSUME ToSet(all) = {} PROVE ids = {}
  <2>1. 1..n = {}
        BY <1>8, <1>11 DEF ToSet
  <2> QED BY <2>1, <1>2, <1>3 DEF ToSet
<1> QED BY <1>5, <1>9, <1>10, <1>11

\* What is cut off is replaced by a line about it: nothing else is added, and not all is cut off.
LEMMA CappedLines ==
    ASSUME NEW lines, IsList(lines)
    PROVE  /\ IsList(Capped(lines))
           /\ \A line \in ToSet(Capped(lines)) : line \in ToSet(lines) \/ line.what = "not listed"
           /\ ToSet(Capped(lines)) = {} => ToSet(lines) = {}
<1>1. lines \in Seq(ToSet(lines)) /\ Len(lines) \in Nat /\ DOMAIN lines = 1..Len(lines) /\ MaxStackLines \in Nat
      BY CapAssumption, LenProperties DEF IsList
<1>2. CASE Len(lines) <= MaxStackLines
  <2>1. Capped(lines) = lines
        BY <1>2 DEF Capped
  <2> QED BY <2>1
<1>3. CASE ~(Len(lines) <= MaxStackLines)
  <2>1. PICK last : last = [what |-> "not listed", id |-> "", by |-> Len(lines) - MaxStackLines]
        OBVIOUS
  <2>2. PICK head : head = SubSeq(lines, 1, MaxStackLines)
        OBVIOUS
  <2>3. PICK all : all = Append(head, last)
        OBVIOUS
  <2>4. Capped(lines) = all
        BY <1>3, <2>1, <2>2, <2>3 DEF Capped
  <2>5. PICK T : T = ToSet(lines) \cup {last}
        OBVIOUS
  <2>6. head \in Seq(T)
    <3>1. \A i \in 1..MaxStackLines : lines[i] \in T
          BY <1>1, <1>3, <2>5 DEF ToSet
    <3>2. 1 \in Int /\ MaxStackLines \in Int
          BY <1>1
    <3> QED BY <3>1, <3>2, <2>2, SubSeqProperties
  <2>7. all \in Seq(T) /\ Len(all) = Len(head) + 1 /\ all[Len(head) + 1] = last
        BY <2>3, <2>5, <2>6, AppendProperties
  <2>8. ToSet(all) \subseteq T /\ last \in ToSet(all)
    <3>1. DOMAIN all = 1..Len(all) /\ Len(head) \in Nat
          BY <2>6, <2>7, LenProperties
    <3>2. Len(head) + 1 \in DOMAIN all
          BY <3>1, <2>7
    <3> QED BY <2>7, <3>2 DEF ToSet
  <2>9. IsList(all)
    <3>1. all \in [1..Len(all) -> T] /\ DOMAIN all = 1..Len(all) /\ Len(all) \in Nat
          BY <2>7, LenProperties
    <3>2. \A i \in 1..Len(all) : all[i] \in ToSet(all)
          BY <3>1 DEF ToSet
    <3> QED BY <3>1, <3>2 DEF IsList
  <2>10. last.what = "not listed"
        BY <2>1
  <2> QED BY <2>4, <2>5, <2>7, <2>8, <2>9, <2>10
<1> QED BY <1>2, <1>3

\* The stacks of which there is something to say: those that are new, gone or not what they were.
Moving(prev, next) ==
    LET was == DOMAIN prev.stacks
        now == DOMAIN next.stacks
    IN  (now \ was) \cup (was \ now)
        \cup {id \in was \cap now : Fingerprint(prev.stacks[id]) # Fingerprint(next.stacks[id])}

LEMMA HeadLines ==
    ASSUME NEW deltas
    PROVE  IsList(HeadLine(deltas)) /\ \A line \in ToSet(HeadLine(deltas)) : line.what = "counts"
<1>1. PICK line : line = [what |-> "counts", id |-> "", by |-> deltas]
      OBVIOUS
<1>2. HeadLine(deltas) = <<>> \/ HeadLine(deltas) = <<line>>
      BY <1>1 DEF HeadLine
<1>3. line.what = "counts"
      BY <1>1
<1> HIDE <1>1
<1>4. ToSet(<<>>) = {} /\ ToSet(<<line>>) = {line}
      BY DEF ToSet
<1>5. IsList(<<>>) /\ IsList(<<line>>)
      BY <1>4 DEF IsList
<1> QED BY <1>2, <1>3, <1>4, <1>5

\* Configuration speaks of those and no others, and is silent only when there are none.
LEMMA ConfigurationTells ==
    ASSUME NEW prev, NEW next, IsFiniteSet(DOMAIN prev.stacks), IsFiniteSet(DOMAIN next.stacks)
    PROVE  /\ \A line \in ToSet(Configuration(prev, next)) :
                line.what \in {"added", "removed", "changed"} => line.id \in Moving(prev, next)
           /\ Configuration(prev, next) = <<>> => Moving(prev, next) = {}
<1>1. PICK was, now : was = DOMAIN prev.stacks /\ now = DOMAIN next.stacks
      OBVIOUS
<1>2. PICK changed : changed = {id \in was \cap now : Fingerprint(prev.stacks[id]) # Fingerprint(next.stacks[id])}
      OBVIOUS
<1>3. Moving(prev, next) = (now \ was) \cup (was \ now) \cup changed
      BY <1>1, <1>2 DEF Moving
<1>4. IsFiniteSet(now \ was) /\ IsFiniteSet(was \ now) /\ IsFiniteSet(changed)
  <2>1. IsFiniteSet(was) /\ IsFiniteSet(now)
        BY <1>1
  <2>2. now \ was \in SUBSET now /\ was \ now \in SUBSET was /\ changed \in SUBSET was
        BY <1>2
  <2> QED BY <2>1, <2>2, FS_Subset
<1>5. PICK new, gone, other :
        /\ new = StackLines(prev, next, "added", now \ was)
        /\ gone = StackLines(prev, next, "removed", was \ now)
        /\ other = StackLines(prev, next, "changed", changed)
      OBVIOUS
<1>6. /\ IsList(new) /\ (\A line \in ToSet(new) : line.id \in now \ was) /\ (ToSet(new) = {} => now \ was = {})
      /\ IsList(gone) /\ (\A line \in ToSet(gone) : line.id \in was \ now) /\ (ToSet(gone) = {} => was \ now = {})
      /\ IsList(other) /\ (\A line \in ToSet(other) : line.id \in changed) /\ (ToSet(other) = {} => changed = {})
      BY <1>4, <1>5, LinesOfAKind
<1>7. PICK head : head = HeadLine(Deltas(next.stats, prev.stats, {"stacks", "services"}))
      OBVIOUS
<1>8. Configuration(prev, next) =
        IF was = now /\ changed = {} THEN <<>> ELSE head \o Capped(new \o gone \o other)
      BY <1>1, <1>2, <1>5, <1>7 DEF Configuration, StackLines
<1>9. CASE was = now /\ changed = {}
  <2>1. Configuration(prev, next) = <<>> /\ Moving(prev, next) = {}
        BY <1>3, <1>8, <1>9
  <2>2. ToSet(<<>>) = {}
        BY DEF ToSet
  <2> QED BY <2>1, <2>2
<1>10. CASE ~(was = now /\ changed = {})
  <2>1. PICK two, all, kept, note_ :
            two = new \o gone /\ all = two \o other /\ kept = Capped(all) /\ note_ = head \o kept
        OBVIOUS
  <2>2. IsList(two) /\ ToSet(two) \subseteq ToSet(new) \cup ToSet(gone)
        BY <1>6, <2>1, JoinLists
  <2>3. IsList(all) /\ ToSet(all) \subseteq ToSet(two) \cup ToSet(other)
        BY <1>6, <2>1, <2>2, JoinLists
  <2>4. IsList(kept) /\ \A line \in ToSet(kept) : line \in ToSet(all) \/ line.what = "not listed"
        BY <2>1, <2>3, CappedLines
  <2>5. IsList(head) /\ \A line \in ToSet(head) : line.what = "counts"
        BY <1>7, HeadLines
  <2>6. ToSet(note_) \subseteq ToSet(head) \cup ToSet(kept) /\ (ToSet(note_) = {} => ToSet(kept) = {})
        BY <2>1, <2>4, <2>5, JoinLists
  <2>7. Configuration(prev, next) = note_
        BY <1>8, <1>10, <2>1
  <2>8. ASSUME NEW line \in ToSet(note_), line.what \in {"added", "removed", "changed"}
        PROVE  line.id \in Moving(prev, next)
    <3>1. line \in ToSet(new) \cup ToSet(gone) \cup ToSet(other)
          BY <2>2, <2>3, <2>4, <2>5, <2>6, <2>8
    <3> QED BY <3>1, <1>3, <1>6
  <2>9. note_ # <<>>
    <3> SUFFICES ASSUME note_ = <<>> PROVE FALSE
        OBVIOUS
    <3>1. ToSet(note_) = {}
          BY DEF ToSet
    <3>2. ToSet(kept) = {}
          BY <3>1, <2>6
    <3>3. ToSet(all) = {}
          BY <3>2, <2>1, <2>3, CappedLines
    <3>4. ToSet(two) = {} /\ ToSet(other) = {}
          BY <3>3, <2>1, <2>2, <1>6, JoinLists
    <3>5. ToSet(new) = {} /\ ToSet(gone) = {}
          BY <3>4, <2>1, <1>6, JoinLists
    <3> QED BY <3>4, <3>5, <1>6, <1>10
  <2> QED BY <2>7, <2>8, <2>9
<1> QED BY <1>9, <1>10

-----------------------------------------------------------------------------
(* What is published of a stack, and what is left of it. *)

\* What a later stage adds is apart from what the scan brings, in a service and in its sidecar.
ServiceTidy(svc) ==
    /\ IsRecord(svc) /\ {"stack", "env", "tunnels", "sidecar"} \subseteq DOMAIN svc
    /\ DOMAIN svc \cap {"ingress", "auth", "apps", "probe"} = {}
    /\ IsRecord(svc.sidecar) /\ DOMAIN svc.sidecar \cap VerdictParts = {}
    /\ IsRecord(svc.tunnels)
    /\ \A t \in DOMAIN svc.tunnels : IsRecord(svc.tunnels[t]) /\ "leads" \notin DOMAIN svc.tunnels[t]
Tidy(f) ==
    /\ IsList(f.services) /\ IsFiniteSet(DOMAIN f.stacks)
    /\ \A s, t \in DOMAIN f.stacks : f.stacks[s].id = f.stacks[t].id => s = t
    /\ \A s \in DOMAIN f.stacks : IsRecord(f.stacks[s]) /\ "services" \notin DOMAIN f.stacks[s]
    /\ \A k \in Keys(f) : ServiceTidy(Service(f, k))

\* What is left of a service when what was added to it is stripped, and of its stack.
LeftOf(id, svc) ==
    [p \in DOMAIN svc \ {"docker", "live", "notes"} |->
        IF p = "stack" THEN id ELSE IF p = "env" THEN HiddenEnv(svc) ELSE svc[p]]
LeftOfStack(f, s) ==
    [p \in DOMAIN f.stacks[s] \cup {"services"} |->
        IF p \in DOMAIN f.stacks[s] THEN f.stacks[s][p]
        ELSE [i \in DOMAIN OfStack(f, s) |-> LeftOf(f.stacks[s].id, Service(f, OfStack(f, s)[i]))]]

\* What is laid over a record and left out again leaves the record.
LEMMA LeftOutAgain ==
    ASSUME NEW record, IsRecord(record), NEW top, NEW parts, DOMAIN top = parts, DOMAIN record \cap parts = {}
    PROVE  Without(LaidOver(record, top), parts) = record
<1>1. PICK all : all = LaidOver(record, top)
      OBVIOUS
<1>2. DOMAIN all = DOMAIN record \cup parts /\ \A p \in DOMAIN record : all[p] = record[p]
      BY <1>1 DEF LaidOver
<1>3. Without(all, parts) = [p \in DOMAIN all \ parts |-> all[p]]
      BY DEF Without
<1>4. DOMAIN all \ parts = DOMAIN record
      BY <1>2
<1>5. [p \in DOMAIN all \ parts |-> all[p]] = [p \in DOMAIN record |-> record[p]]
      BY <1>2, <1>4
<1> QED BY <1>1, <1>3, <1>5 DEF IsRecord

\* strip takes away all that was published of a service but what its files say.
LEMMA StripLeaves ==
    ASSUME NEW k \in Keys(fleet), ServiceTidy(Service(fleet, k))
    PROVE  Strip(Published(k)) = LeftOf(Stack(fleet, k).id, Service(fleet, k))
<1>1. PICK svc : svc = Service(fleet, k)
      OBVIOUS
<1>2. PICK tunnels : tunnels = [t \in DOMAIN svc.tunnels |-> LaidOver(svc.tunnels[t], [leads |-> origins[k][t]])]
      OBVIOUS
<1>3. PICK judged : judged = [drift |-> verdicts[k].drift, unconfirmed |-> verdicts[k].unconfirmed,
                              agreement |-> verdicts[k].agreement]
      OBVIOUS
<1>4. PICK sidecar, env, id :
        sidecar = LaidOver(svc.sidecar, judged) /\ env = HiddenEnv(svc) /\ id = Stack(fleet, k).id
      OBVIOUS
<1>5. PICK top : top = [tunnels |-> tunnels, sidecar |-> sidecar, env |-> env,
            ingress |-> ingress[k], auth |-> <<fleet.auth[k], verdicts[k].exposed>>, apps |-> fleet.matched[k],
            probe |-> probes[k], notes |-> notes[k], stack |-> id]
      OBVIOUS
<1>6. PICK all : all = LaidOver(top, svc)
      OBVIOUS
<1>7. Published(k) = all
      BY <1>1, <1>2, <1>3, <1>4, <1>5, <1>6 DEF Published
<1>8. /\ DOMAIN top = {"tunnels", "sidecar", "env", "ingress", "auth", "apps", "probe", "notes", "stack"}
      /\ top.tunnels = tunnels /\ top.sidecar = sidecar /\ top.env = env /\ top.stack = id
      BY <1>5
<1>9. ServiceTidy(svc)
      BY <1>1
<1>10. DOMAIN all \ Concluded = DOMAIN svc \ {"docker", "live", "notes"}
      BY <1>6, <1>8, <1>9 DEF LaidOver, ServiceTidy, Concluded
<1>11. /\ all.tunnels = tunnels /\ all.sidecar = sidecar /\ all.env = env /\ all.stack = id
       /\ \A p \in DOMAIN svc \ {"docker", "live", "notes"} :
            p \notin {"tunnels", "sidecar", "env", "stack"} => all[p] = svc[p]
      BY <1>6, <1>8, <1>9 DEF LaidOver, ServiceTidy
<1>12. WithoutOrigins(tunnels) = svc.tunnels
  <2>1. ASSUME NEW t \in DOMAIN svc.tunnels PROVE Without(tunnels[t], {"leads"}) = svc.tunnels[t]
    <3>1. PICK over : over = [leads |-> origins[k][t]]
          OBVIOUS
    <3>2. DOMAIN over = {"leads"} /\ tunnels[t] = LaidOver(svc.tunnels[t], over)
          BY <3>1, <1>2
    <3>3. IsRecord(svc.tunnels[t]) /\ DOMAIN svc.tunnels[t] \cap {"leads"} = {}
          BY <1>9 DEF ServiceTidy
    <3> QED BY <3>2, <3>3, LeftOutAgain
  <2>2. DOMAIN tunnels = DOMAIN svc.tunnels
        BY <1>2
  <2>3. WithoutOrigins(tunnels) = [t \in DOMAIN svc.tunnels |-> svc.tunnels[t]]
        BY <2>1, <2>2 DEF WithoutOrigins
  <2> QED BY <2>3, <1>9 DEF ServiceTidy, IsRecord
<1>13. WithoutVerdicts(sidecar) = svc.sidecar
  <2>1. DOMAIN judged = VerdictParts
        BY <1>3 DEF VerdictParts
  <2> QED BY <2>1, <1>4, <1>9, LeftOutAgain DEF WithoutVerdicts, ServiceTidy
<1>14. PICK kept : kept = Without(all, Concluded)
      OBVIOUS
<1>15. DOMAIN kept = DOMAIN svc \ {"docker", "live", "notes"} /\ \A p \in DOMAIN kept : kept[p] = all[p]
      BY <1>10, <1>14 DEF Without
<1>16. PICK left : left = Strip(all)
      OBVIOUS
<1>17. left = [kept EXCEPT !.tunnels = WithoutOrigins(@), !.sidecar = WithoutVerdicts(@)]
      BY <1>14, <1>16 DEF Strip
<1>18. "tunnels" \in DOMAIN kept /\ "sidecar" \in DOMAIN kept
      BY <1>9, <1>15 DEF ServiceTidy
<1>19. kept.tunnels = tunnels /\ kept.sidecar = sidecar
      BY <1>11, <1>15, <1>18
<1>20. /\ DOMAIN left = DOMAIN kept /\ IsRecord(left)
       /\ left.tunnels = svc.tunnels /\ left.sidecar = svc.sidecar
       /\ \A p \in DOMAIN kept : p \notin {"tunnels", "sidecar"} => left[p] = kept[p]
      BY <1>12, <1>13, <1>17, <1>18, <1>19 DEF IsRecord
<1>21. PICK goal : goal = LeftOf(id, svc)
      OBVIOUS
<1>22. /\ DOMAIN goal = DOMAIN kept /\ IsRecord(goal)
       /\ \A p \in DOMAIN kept : goal[p] = IF p = "stack" THEN id ELSE IF p = "env" THEN env ELSE svc[p]
      BY <1>4, <1>15, <1>21 DEF LeftOf, IsRecord
<1>23. \A p \in DOMAIN kept : left[p] = goal[p]
      BY <1>11, <1>15, <1>20, <1>22
<1>24. left = goal
      BY <1>20, <1>22, <1>23 DEF IsRecord
<1> QED BY <1>1, <1>4, <1>7, <1>16, <1>21, <1>24

\* The services of a stack are services of the fleet, and of that stack.
LEMMA OfTheStack ==
    ASSUME NEW f, IsList(f.services), NEW s, NEW i \in DOMAIN OfStack(f, s)
    PROVE  OfStack(f, s)[i] \in Keys(f) /\ Service(f, OfStack(f, s)[i]).stack = s
<1>1. PICK n \in Nat : Keys(f) = 1..n
      BY DEF IsList, Keys
<1>2. PICK T : T = {k \in Keys(f) : Service(f, k).stack = s}
      OBVIOUS
<1>3. PICK one : one = [j \in 1..n |-> IF j \in T THEN <<j>> ELSE <<>>]
      OBVIOUS
<1>4. PICK list : list = [j \in 1..n |-> j]
      OBVIOUS
<1>5. one = [j \in DOMAIN list |-> IF j \in T THEN <<list[j]>> ELSE <<>>]
      BY <1>3, <1>4
<1>6. OfStack(f, s) = FlattenSeq(one)
      BY <1>1, <1>2, <1>4, <1>5 DEF OfStack, Picked
<1>7. one \in Seq(Seq(T))
  <2>1. \A j \in 1..n : one[j] \in Seq(T)
    <3> SUFFICES ASSUME NEW j \in 1..n PROVE one[j] \in Seq(T)
        OBVIOUS
    <3>1. <<>> \in Seq(T) /\ (j \in T => <<j>> \in Seq(T))
          OBVIOUS
    <3> QED BY <3>1, <1>3
  <2>2. one = [j \in 1..n |-> one[j]]
        BY <1>3
  <2> QED BY <2>1, <2>2
<1>8. FlattenSeq(one) \in Seq(T)
      BY <1>7, FlattenIsAList
<1>9. FlattenSeq(one)[i] \in T
      BY <1>6, <1>8
<1> QED BY <1>2, <1>6, <1>9

\* The overview shows a fleet: of each stack, all that is left of it is what its files say.
Shows(stacks, f) ==
    /\ DOMAIN stacks = Ids(f)
    /\ \A s \in DOMAIN f.stacks : Fingerprint(stacks[f.stacks[s].id]) = LeftOfStack(f, s)

LEMMA PublishedShows ==
    ASSUME Tidy(fleet)
    PROVE  Shows(PublishedStacks, fleet)
<1>1. PICK stacks : stacks = PublishedStacks
      OBVIOUS
<1>2. DOMAIN stacks = Ids(fleet)
      BY <1>1 DEF PublishedStacks
<1>3. ASSUME NEW s \in DOMAIN fleet.stacks
      PROVE  Fingerprint(stacks[fleet.stacks[s].id]) = LeftOfStack(fleet, s)
  <2>1. PICK id, own, of : id = fleet.stacks[s].id /\ own = fleet.stacks[s] /\ of = OfStack(fleet, s)
        OBVIOUS
  <2>2. id \in Ids(fleet)
        BY <2>1 DEF Ids
  <2>3. (CHOOSE t \in DOMAIN fleet.stacks : fleet.stacks[t].id = id) = s
        BY <2>1 DEF Tidy
  <2>4. PICK services : services = [i \in DOMAIN of |-> Published(of[i])]
        OBVIOUS
  <2>5. PICK below : below = [services |-> services]
        OBVIOUS
  <2>6. stacks[id] = LaidOver(own, below)
        BY <1>1, <2>1, <2>2, <2>3, <2>4, <2>5 DEF PublishedStacks
  <2>7. PICK shown : shown = stacks[id]
        OBVIOUS
  <2>8. DOMAIN below = {"services"} /\ below.services = services
        BY <2>5
  <2>9. IsRecord(own) /\ "services" \notin DOMAIN own
        BY <2>1 DEF Tidy
  <2>10. /\ DOMAIN shown = DOMAIN own \cup {"services"} /\ IsRecord(shown)
         /\ shown.services = services
         /\ \A p \in DOMAIN own : shown[p] = own[p]
        BY <2>6, <2>7, <2>8, <2>9 DEF LaidOver, IsRecord
  <2>11. PICK left : left = [i \in DOMAIN of |-> LeftOf(id, Service(fleet, of[i]))]
        OBVIOUS
  <2>12. [i \in DOMAIN services |-> Strip(services[i])] = left
    <3>1. ASSUME NEW i \in DOMAIN of PROVE Strip(services[i]) = LeftOf(id, Service(fleet, of[i]))
      <4>1. of[i] \in Keys(fleet) /\ Service(fleet, of[i]).stack = s
            BY <2>1, OfTheStack DEF Tidy
      <4>2. Stack(fleet, of[i]).id = id
            BY <4>1, <2>1 DEF Stack, Service
      <4>3. ServiceTidy(Service(fleet, of[i]))
            BY <4>1 DEF Tidy
      <4>4. Strip(Published(of[i])) = LeftOf(id, Service(fleet, of[i]))
            BY <4>1, <4>2, <4>3, StripLeaves
      <4> QED BY <2>4, <4>4
    <3>2. DOMAIN services = DOMAIN of
          BY <2>4
    <3> QED BY <3>1, <3>2, <2>11
  <2>13. PICK print : print = Fingerprint(shown)
        OBVIOUS
  <2>14. print = [shown EXCEPT !.services = left]
        BY <2>10, <2>12, <2>13 DEF Fingerprint
  <2>15. /\ DOMAIN print = DOMAIN own \cup {"services"} /\ IsRecord(print)
         /\ print.services = left
         /\ \A p \in DOMAIN own : print[p] = own[p]
        BY <2>9, <2>10, <2>14 DEF IsRecord
  <2>16. PICK goal : goal = LeftOfStack(fleet, s)
        OBVIOUS
  <2>17. goal = [p \in DOMAIN own \cup {"services"} |-> IF p \in DOMAIN own THEN own[p] ELSE left]
        BY <2>1, <2>11, <2>16 DEF LeftOfStack
  <2>18. print = goal
        BY <2>9, <2>15, <2>17 DEF IsRecord
  <2> QED BY <2>1, <2>7, <2>13, <2>16, <2>18
<1> QED BY <1>1, <1>2, <1>3 DEF Shows

-----------------------------------------------------------------------------
(* What the note says of the files. *)

\* Two services leave the same exactly if their files say the same.
LEMMA ServicesLeaveTheSame ==
    ASSUME NEW id, NEW a, ServiceTidy(a), NEW b, ServiceTidy(b)
    PROVE  LeftOf(id, a) = LeftOf(id, b) <=> FileSays(a) = FileSays(b)
<1>1. PICK l, m : l = LeftOf(id, a) /\ m = LeftOf(id, b)
      OBVIOUS
<1>2. PICK v, w : v = FileSays(a) /\ w = FileSays(b)
      OBVIOUS
<1> DEFINE volatile == {"docker", "live", "notes"}
<1>3. /\ IsRecord(l) /\ DOMAIN l = DOMAIN a \ volatile
      /\ \A p \in DOMAIN l : l[p] = IF p = "stack" THEN id ELSE IF p = "env" THEN HiddenEnv(a) ELSE a[p]
      BY <1>1 DEF LeftOf, IsRecord
<1>4. /\ IsRecord(m) /\ DOMAIN m = DOMAIN b \ volatile
      /\ \A p \in DOMAIN m : m[p] = IF p = "stack" THEN id ELSE IF p = "env" THEN HiddenEnv(b) ELSE b[p]
      BY <1>1 DEF LeftOf, IsRecord
<1>5. /\ IsRecord(v) /\ DOMAIN v = DOMAIN a \ (volatile \cup {"stack"})
      /\ \A p \in DOMAIN v : v[p] = IF p = "env" THEN HiddenEnv(a) ELSE a[p]
      BY <1>2 DEF FileSays, Without, IsRecord, ServiceTidy
<1>6. /\ IsRecord(w) /\ DOMAIN w = DOMAIN b \ (volatile \cup {"stack"})
      /\ \A p \in DOMAIN w : w[p] = IF p = "env" THEN HiddenEnv(b) ELSE b[p]
      BY <1>2 DEF FileSays, Without, IsRecord, ServiceTidy
<1>7. "stack" \in DOMAIN l /\ "stack" \in DOMAIN m
      BY <1>3, <1>4 DEF ServiceTidy
<1>8. ASSUME l = m PROVE v = w
  <2>1. DOMAIN v = DOMAIN w
        BY <1>3, <1>4, <1>5, <1>6, <1>8
  <2>2. \A p \in DOMAIN v : v[p] = l[p] /\ w[p] = m[p]
        BY <1>3, <1>4, <1>5, <1>6, <2>1
  <2> QED BY <2>1, <2>2, <1>5, <1>6, <1>8 DEF IsRecord
<1>9. ASSUME v = w PROVE l = m
  <2>1. DOMAIN l = DOMAIN v \cup {"stack"} /\ DOMAIN m = DOMAIN w \cup {"stack"}
        BY <1>3, <1>4, <1>5, <1>6, <1>7
  <2>2. DOMAIN l = DOMAIN m
        BY <2>1, <1>9
  <2>3. \A p \in DOMAIN l : p # "stack" => l[p] = v[p] /\ m[p] = w[p]
        BY <1>3, <1>4, <1>5, <1>6, <2>2
  <2>4. l["stack"] = id /\ m["stack"] = id
        BY <1>3, <1>4, <1>7
  <2> QED BY <2>2, <2>3, <2>4, <1>3, <1>4, <1>9 DEF IsRecord
<1> QED BY <1>1, <1>2, <1>8, <1>9

\* A stack's files, as FilesOf gives them for its id.
WrittenOf(f, s) == [i \in DOMAIN OfStack(f, s) |-> FileSays(Service(f, OfStack(f, s)[i]))]

LEMMA StacksLeaveTheSame ==
    ASSUME NEW f, Tidy(f), NEW s \in DOMAIN f.stacks, NEW g, Tidy(g), NEW t \in DOMAIN g.stacks,
           f.stacks[s].id = g.stacks[t].id
    PROVE  LeftOfStack(f, s) = LeftOfStack(g, t)
             <=> <<f.stacks[s], WrittenOf(f, s)>> = <<g.stacks[t], WrittenOf(g, t)>>
<1>1. PICK a, b, as, bs, id :
        a = f.stacks[s] /\ b = g.stacks[t] /\ as = OfStack(f, s) /\ bs = OfStack(g, t) /\ id = a.id
      OBVIOUS
<1>2. PICK l, m : /\ l = [i \in DOMAIN as |-> LeftOf(id, Service(f, as[i]))]
                  /\ m = [i \in DOMAIN bs |-> LeftOf(id, Service(g, bs[i]))]
      OBVIOUS
<1>3. PICK v, w : v = [i \in DOMAIN as |-> FileSays(Service(f, as[i]))]
                  /\ w = [i \in DOMAIN bs |-> FileSays(Service(g, bs[i]))]
      OBVIOUS
<1>4. v = WrittenOf(f, s) /\ w = WrittenOf(g, t)
      BY <1>1, <1>3 DEF WrittenOf
<1>5. l = m <=> v = w
  <2>1. ASSUME NEW i \in DOMAIN as, i \in DOMAIN bs
        PROVE  LeftOf(id, Service(f, as[i])) = LeftOf(id, Service(g, bs[i]))
                 <=> FileSays(Service(f, as[i])) = FileSays(Service(g, bs[i]))
    <3>1. ServiceTidy(Service(f, as[i])) /\ ServiceTidy(Service(g, bs[i]))
          BY <1>1, <2>1, OfTheStack DEF Tidy
    <3> QED BY <3>1, ServicesLeaveTheSame
  <2>2. DOMAIN l = DOMAIN as /\ DOMAIN m = DOMAIN bs /\ DOMAIN v = DOMAIN as /\ DOMAIN w = DOMAIN bs
        BY <1>2, <1>3
  <2>3. ASSUME NEW i \in DOMAIN as, i \in DOMAIN bs PROVE l[i] = m[i] <=> v[i] = w[i]
        BY <2>1, <2>3, <1>2, <1>3
  <2>4. IsRecord(l) /\ IsRecord(m) /\ IsRecord(v) /\ IsRecord(w)
        BY <1>2, <1>3 DEF IsRecord
  <2>5. ASSUME l = m PROVE v = w
    <3>1. DOMAIN as = DOMAIN bs /\ \A i \in DOMAIN as : v[i] = w[i]
          BY <2>2, <2>3, <2>5
    <3> QED BY <3>1, <2>2, <2>4 DEF IsRecord
  <2>6. ASSUME v = w PROVE l = m
    <3>1. DOMAIN as = DOMAIN bs /\ \A i \in DOMAIN as : l[i] = m[i]
          BY <2>2, <2>3, <2>6
    <3> QED BY <3>1, <2>2, <2>4 DEF IsRecord
  <2> QED BY <2>5, <2>6
<1>6. PICK x, y : x = LeftOfStack(f, s) /\ y = LeftOfStack(g, t)
      OBVIOUS
<1>7. /\ IsRecord(a) /\ "services" \notin DOMAIN a
      /\ IsRecord(b) /\ "services" \notin DOMAIN b
      BY <1>1 DEF Tidy
<1>8. /\ IsRecord(x) /\ DOMAIN x = DOMAIN a \cup {"services"}
      /\ x["services"] = l /\ \A p \in DOMAIN a : x[p] = a[p]
      BY <1>1, <1>2, <1>6, <1>7 DEF LeftOfStack, IsRecord
<1>9. /\ IsRecord(y) /\ DOMAIN y = DOMAIN b \cup {"services"}
      /\ y["services"] = m /\ \A p \in DOMAIN b : y[p] = b[p]
      BY <1>1, <1>2, <1>6, <1>7 DEF LeftOfStack, IsRecord
<1>10. ASSUME x = y PROVE a = b /\ v = w
  <2>1. DOMAIN a = DOMAIN b
        BY <1>7, <1>8, <1>9, <1>10
  <2>2. a = b
        BY <2>1, <1>7, <1>8, <1>9, <1>10 DEF IsRecord
  <2> QED BY <2>2, <1>5, <1>8, <1>9, <1>10
<1>11. ASSUME a = b, v = w PROVE x = y
  <2>1. DOMAIN x = DOMAIN y /\ \A p \in DOMAIN x : x[p] = y[p]
        BY <1>5, <1>8, <1>9, <1>11
  <2> QED BY <2>1, <1>8, <1>9 DEF IsRecord
<1> QED BY <1>1, <1>4, <1>6, <1>10, <1>11

\* The stacks that move between two overviews are those whose files differ between the two fleets.
LEMMA MovingFilesDiffer ==
    ASSUME NEW f, Tidy(f), NEW g, Tidy(g), NEW prev, Shows(prev.stacks, f), NEW next, Shows(next.stacks, g)
    PROVE  \A id : id \in Moving(prev, next) <=> FilesOf(f, id) # FilesOf(g, id)
<1> SUFFICES ASSUME NEW id PROVE id \in Moving(prev, next) <=> FilesOf(f, id) # FilesOf(g, id)
    OBVIOUS
<1>1. DOMAIN prev.stacks = Ids(f) /\ DOMAIN next.stacks = Ids(g)
      BY DEF Shows
<1>2. ASSUME id \notin Ids(f) PROVE FilesOf(f, id) = {}
      BY <1>2 DEF Ids, FilesOf
<1>3. ASSUME id \notin Ids(g) PROVE FilesOf(g, id) = {}
      BY <1>3 DEF Ids, FilesOf
<1>4. ASSUME NEW s \in DOMAIN f.stacks, f.stacks[s].id = id
      PROVE  FilesOf(f, id) = {<<f.stacks[s], WrittenOf(f, s)>>}
  <2>1. {t \in DOMAIN f.stacks : f.stacks[t].id = id} = {s}
        BY <1>4 DEF Tidy
  <2> QED BY <2>1 DEF FilesOf, WrittenOf
<1>5. ASSUME NEW t \in DOMAIN g.stacks, g.stacks[t].id = id
      PROVE  FilesOf(g, id) = {<<g.stacks[t], WrittenOf(g, t)>>}
  <2>1. {u \in DOMAIN g.stacks : g.stacks[u].id = id} = {t}
        BY <1>5 DEF Tidy
  <2> QED BY <2>1 DEF FilesOf, WrittenOf
<1>6. CASE id \notin Ids(f) /\ id \notin Ids(g)
      BY <1>1, <1>2, <1>3, <1>6 DEF Moving
<1>7. CASE id \in Ids(f) /\ id \notin Ids(g)
  <2>1. PICK s \in DOMAIN f.stacks : f.stacks[s].id = id
        BY <1>7 DEF Ids
  <2> QED BY <1>1, <1>3, <1>4, <1>7, <2>1 DEF Moving
<1>8. CASE id \notin Ids(f) /\ id \in Ids(g)
  <2>1. PICK t \in DOMAIN g.stacks : g.stacks[t].id = id
        BY <1>8 DEF Ids
  <2> QED BY <1>1, <1>2, <1>5, <1>8, <2>1 DEF Moving
<1>9. CASE id \in Ids(f) /\ id \in Ids(g)
  <2>1. PICK s \in DOMAIN f.stacks : f.stacks[s].id = id
        BY <1>9 DEF Ids
  <2>2. PICK t \in DOMAIN g.stacks : g.stacks[t].id = id
        BY <1>9 DEF Ids
  <2>3. id \in Moving(prev, next) <=> Fingerprint(prev.stacks[id]) # Fingerprint(next.stacks[id])
        BY <1>1, <1>9 DEF Moving
  <2>4. Fingerprint(prev.stacks[id]) = LeftOfStack(f, s) /\ Fingerprint(next.stacks[id]) = LeftOfStack(g, t)
        BY <2>1, <2>2 DEF Shows
  <2>5. LeftOfStack(f, s) = LeftOfStack(g, t)
          <=> <<f.stacks[s], WrittenOf(f, s)>> = <<g.stacks[t], WrittenOf(g, t)>>
        BY <2>1, <2>2, StacksLeaveTheSame
  <2>6. PICK x, y : x = <<f.stacks[s], WrittenOf(f, s)>> /\ y = <<g.stacks[t], WrittenOf(g, t)>>
        OBVIOUS
  <2>7. FilesOf(f, id) = {x} /\ FilesOf(g, id) = {y}
        BY <2>1, <2>2, <2>6, <1>4, <1>5
  <2> QED BY <2>3, <2>4, <2>5, <2>6, <2>7
<1> QED BY <1>6, <1>7, <1>8, <1>9

\* What the lines about the files say of two fleets is so.
TrueOf(config, f, g) ==
    /\ \A line \in ToSet(config) :
            line.what \in {"added", "removed", "changed"} => FilesOf(f, line.id) # FilesOf(g, line.id)
    /\ config = <<>> => \A id \in Ids(f) \cup Ids(g) : FilesOf(f, id) = FilesOf(g, id)

LEMMA ConfigurationIsTrue ==
    ASSUME NEW f, Tidy(f), NEW g, Tidy(g), NEW prev, Shows(prev.stacks, f), NEW next, Shows(next.stacks, g)
    PROVE  TrueOf(Configuration(prev, next), f, g)
<1>1. IsFiniteSet(DOMAIN prev.stacks) /\ IsFiniteSet(DOMAIN next.stacks)
  <2>1. ASSUME NEW h, Tidy(h) PROVE IsFiniteSet(Ids(h))
    <3>1. PICK S : S = DOMAIN h.stacks
          OBVIOUS
    <3>2. IsFiniteSet(S)
          BY <2>1, <3>1 DEF Tidy
    <3>3. PICK id : id = [s \in S |-> h.stacks[s].id]
          OBVIOUS
    <3>4. Ids(h) = {id[s] : s \in S}
          BY <3>1, <3>3 DEF Ids
    <3>5. id \in Surjection(S, Ids(h))
          BY <3>3, <3>4 DEF Surjection
    <3> QED BY <3>2, <3>5, FS_Surjection
  <2> QED BY <2>1 DEF Shows
<1>2. \A id : id \in Moving(prev, next) <=> FilesOf(f, id) # FilesOf(g, id)
      BY MovingFilesDiffer
<1>3. PICK config : config = Configuration(prev, next)
      OBVIOUS
<1>4. /\ \A line \in ToSet(config) : line.what \in {"added", "removed", "changed"} => line.id \in Moving(prev, next)
      /\ config = <<>> => Moving(prev, next) = {}
      BY <1>1, <1>3, ConfigurationTells
<1> QED BY <1>2, <1>3, <1>4 DEF TrueOf

\* What is scanned is tidy, and no stage makes it otherwise.
LEMMA ScannedIsTidy ==
    ASSUME NEW w, SoundWorld(w)
    PROVE  Tidy(Fleet(Scanned(w.disk)))
<1>1. PICK found, f : found = Scanned(w.disk).stacks /\ f = Fleet(Scanned(w.disk))
      OBVIOUS
<1>2. /\ IsList(found) /\ \A s \in DOMAIN found : SoundStack(found[s])
      /\ \A s, t \in DOMAIN found : found[s].id = found[t].id => s = t
      BY <1>1 DEF SoundWorld, SoundStacks
<1>3. /\ IsList(f.services)
      /\ f.stacks = [s \in DOMAIN found |-> [p \in DOMAIN found[s] \ {"services"} |-> found[s][p]]]
      /\ \A k \in Keys(f) : \E s \in DOMAIN found : \E i \in DOMAIN found[s].services :
            Service(f, k) = Placed(s, found[s].services[i])
  <2>1. MadeOf(f, found)
        BY <1>1, ScannedFleet
  <2> QED BY <2>1 DEF MadeOf
<1>4. DOMAIN f.stacks = DOMAIN found /\ IsFiniteSet(DOMAIN f.stacks)
  <2>1. PICK n \in Nat : DOMAIN found = 1..n
        BY <1>2 DEF IsList
  <2> QED BY <2>1, <1>3, FS_Interval
<1>5. ASSUME NEW s \in DOMAIN f.stacks
      PROVE  IsRecord(f.stacks[s]) /\ "services" \notin DOMAIN f.stacks[s] /\ f.stacks[s].id = found[s].id
  <2>1. s \in DOMAIN found /\ "id" \in DOMAIN found[s]
        BY <1>2, <1>4 DEF SoundStack, StackParts
  <2>2. f.stacks[s] = [p \in DOMAIN found[s] \ {"services"} |-> found[s][p]]
        BY <1>3, <2>1
  <2> QED BY <2>1, <2>2 DEF IsRecord
<1>6. \A s, t \in DOMAIN f.stacks : f.stacks[s].id = f.stacks[t].id => s = t
      BY <1>2, <1>4, <1>5
<1>7. ASSUME NEW k \in Keys(f) PROVE ServiceTidy(Service(f, k))
  <2>1. PICK s \in DOMAIN found : \E i \in DOMAIN found[s].services :
                Service(f, k) = Placed(s, found[s].services[i])
        BY <1>3
  <2>2. PICK i \in DOMAIN found[s].services : Service(f, k) = Placed(s, found[s].services[i])
        BY <2>1
  <2>3. PICK own, new, all : own = found[s].services[i] /\ new = New(s) /\ all = Service(f, k)
        OBVIOUS
  <2>4. /\ ServiceParts \subseteq DOMAIN own /\ DOMAIN own \cap {"ingress", "auth", "apps", "probe"} = {}
        /\ IsRecord(own.sidecar) /\ DOMAIN own.sidecar \cap VerdictParts = {}
        BY <1>2, <2>3 DEF SoundStack
  <2>5. DOMAIN new = {"stack", "tunnels", "routers", "live", "docker"} /\ new.tunnels = <<>>
        BY <2>3 DEF New
  <2>6. all = [p \in DOMAIN new \cup DOMAIN own |-> IF p \in DOMAIN new THEN new[p] ELSE own[p]]
        BY <2>2, <2>3 DEF Placed
  <2>7. IsRecord(all) /\ {"stack", "env", "tunnels", "sidecar"} \subseteq DOMAIN all
        BY <2>4, <2>5, <2>6 DEF IsRecord, ServiceParts
  <2>8. DOMAIN all \cap {"ingress", "auth", "apps", "probe"} = {}
        BY <2>4, <2>5, <2>6
  <2>9. all.sidecar = own.sidecar /\ all.tunnels = <<>>
        BY <2>4, <2>5, <2>6 DEF ServiceParts
  <2>10. IsRecord(<<>>) /\ DOMAIN <<>> = {}
        BY DEF IsRecord
  <2>11. /\ IsRecord(all.sidecar) /\ DOMAIN all.sidecar \cap VerdictParts = {}
         /\ IsRecord(all.tunnels) /\ DOMAIN all.tunnels = {}
        BY <2>4, <2>9, <2>10
  <2> QED BY <2>3, <2>7, <2>8, <2>11 DEF ServiceTidy
<1> QED BY <1>1, <1>3, <1>4, <1>5, <1>6, <1>7 DEF Tidy

\* The routes of a service's labels have no end yet.
LEMMA RoutesAreRecords ==
    ASSUME NEW lbls
    PROVE  /\ IsRecord(Cloudflare(lbls))
           /\ \A t \in DOMAIN Cloudflare(lbls) :
                IsRecord(Cloudflare(lbls)[t]) /\ "leads" \notin DOMAIN Cloudflare(lbls)[t]
<1>1. PICK open : open = {i \in NamedAt(lbls, "tunnels") : TunnelOn(lbls, i)}
      OBVIOUS
<1>2. PICK on : on = [n \in 1..Cardinality(open) |-> CHOOSE i \in open : Cardinality({j \in open : j < i}) = n - 1]
      OBVIOUS
<1> DEFINE Field(i, name) == At(lbls, <<"tunnels", i, name>>)
           End(i) == IF <<"tunnels", i, "service">> \in DOMAIN lbls THEN lbls[<<"tunnels", i, "service">>] ELSE NoOrigin
           Made(i) == [hostname |-> Field(i, "hostname"), origin |-> End(i), access |-> Field(i, "access") # Absent]
<1>3. Cloudflare(lbls) = [n \in DOMAIN on |-> Made(on[n])]
      BY <1>1, <1>2 DEF Cloudflare
<1>4. ASSUME NEW i PROVE IsRecord(Made(i)) /\ "leads" \notin DOMAIN Made(i)
      BY DEF IsRecord
<1> HIDE DEF Made
<1>5. PICK routes : routes = Cloudflare(lbls)
      OBVIOUS
<1>6. IsRecord(routes) /\ DOMAIN routes = DOMAIN on /\ \A t \in DOMAIN routes : routes[t] = Made(on[t])
      BY <1>3, <1>5 DEF IsRecord
<1> QED BY <1>4, <1>5, <1>6

LEMMA RoutesAreTidy ==
    ASSUME Routes, FleetFits(fleet), Tidy(fleet)
    PROVE  Tidy(fleet')
<1>1. PICK lbls : lbls = [k \in Keys(fleet) |-> ParsedLabels(Service(fleet, k).labels)]
      OBVIOUS
<1>2. PICK old, new : old = fleet /\ new = fleet'
      OBVIOUS
<1>3. PICK services : services = [k \in Keys(fleet) |-> Discovered(k, lbls[k])]
      OBVIOUS
<1>4. new = [old EXCEPT !.services = services]
      BY <1>1, <1>2, <1>3 DEF Routes
<1>5. FleetFits(old) /\ Tidy(old)
      BY <1>2
<1>6. new.services = services /\ new.stacks = old.stacks
      BY <1>4, <1>5 DEF FleetFits
<1>7. FleetFits(new) /\ Keys(new) = Keys(old)
      BY <1>2, RoutesKeeps
<1>8. ASSUME NEW k \in Keys(new) PROVE ServiceTidy(Service(new, k))
  <2>1. PICK svc, now, routes, routers, docker :
            /\ svc = Service(old, k) /\ now = Service(new, k)
            /\ routes = Cloudflare(lbls[k]) /\ routers = Traefik(lbls[k]) /\ docker = Container(k)
        OBVIOUS
  <2>2. ServiceTidy(svc)
        BY <1>5, <1>7, <2>1 DEF Tidy
  <2>3. now = [svc EXCEPT !.tunnels = routes, !.routers = routers, !.docker = docker]
    <3>1. now = services[k]
          BY <1>6, <2>1 DEF Service
    <3>2. services[k] = Discovered(k, lbls[k])
          BY <1>2, <1>3, <1>7
    <3> QED BY <1>2, <2>1, <3>1, <3>2 DEF Discovered
  <2>4. /\ DOMAIN now = DOMAIN svc /\ IsRecord(now)
        /\ now.tunnels = routes /\ now.sidecar = svc.sidecar
        BY <2>2, <2>3 DEF ServiceTidy, IsRecord
  <2>5. IsRecord(routes) /\ \A t \in DOMAIN routes : IsRecord(routes[t]) /\ "leads" \notin DOMAIN routes[t]
        BY <2>1, RoutesAreRecords
  <2> QED BY <2>1, <2>2, <2>4, <2>5 DEF ServiceTidy
<1> QED BY <1>2, <1>5, <1>6, <1>7, <1>8 DEF Tidy, FleetFits

LEMMA MatchIsTidy ==
    ASSUME Match, FleetFits(fleet), Tidy(fleet)
    PROVE  Tidy(fleet')
<1>1. PICK old, new : old = fleet /\ new = fleet'
      OBVIOUS
<1>2. FleetFits(old) /\ Tidy(old) /\ SameButLive(old, new)
      BY <1>1, MatchKeeps
<1>3. ASSUME NEW k \in Keys(new) PROVE ServiceTidy(Service(new, k))
  <2>1. PICK svc, now : svc = Service(old, k) /\ now = Service(new, k)
        OBVIOUS
  <2>2. k \in Keys(old) /\ ServiceTidy(svc)
        BY <1>2, <1>3, <2>1 DEF Tidy, SameButLive
  <2>3. DOMAIN now = DOMAIN svc /\ now.tunnels = svc.tunnels /\ now.sidecar = svc.sidecar
        BY <1>2, <2>1, <2>2 DEF SameButLive
  <2>4. PICK live : now = [svc EXCEPT !.live = live]
    <3>1. PICK says : says = [c \in Keys(fleet) |->
                IF NameOf(c) \in DOMAIN world.says THEN world.says[NameOf(c)] ELSE Unsaid]
          OBVIOUS
    <3>2. new.services = [c \in Keys(fleet) |-> [Service(fleet, c) EXCEPT !.live = says[c].live]]
          BY <1>1, <3>1 DEF Match
    <3>3. now = [svc EXCEPT !.live = says[k].live]
          BY <1>1, <2>1, <2>2, <3>2 DEF Service
    <3> QED BY <3>3
  <2>5. IsRecord(now)
        BY <2>4 DEF IsRecord
  <2> QED BY <2>1, <2>2, <2>3, <2>5 DEF ServiceTidy
<1> QED BY <1>1, <1>2, <1>3 DEF Tidy, SameButLive

NoteFits ==
    /\ Tidy(fleet)
    /\ stage \in Drawing => Shows(overview.stacks, fleet)
    /\ before # <<>> => Tidy(before[1].fleet) /\ Shows(before[1].overview.stacks, before[1].fleet)
    /\ before # <<>> /\ stage = "done" => TrueOf(note.config, before[1].fleet, fleet)

LEMMA NothingIsTidy == Tidy(NoFleet)
<1>1. NoFleet.services = <<>> /\ NoFleet.stacks = <<>>
      BY DEF NoFleet
<1>2. PICK none : none = NoFleet
      OBVIOUS
<1>3. none.services = <<>> /\ none.stacks = <<>>
      BY <1>1, <1>2
<1>4. IsList(none.services) /\ Keys(none) = {} /\ DOMAIN none.stacks = {} /\ IsFiniteSet({})
      BY <1>3, FS_EmptySet DEF IsList, Keys
<1> QED BY <1>2, <1>4 DEF Tidy

LEMMA NoteInit == Init => NoteFits
BY NothingIsTidy DEF Init, NoteFits, Drawing

LEMMA NoteStep ==
    WorldFits /\ FleetFits(fleet) /\ NoteFits /\ [Next]_vars => NoteFits'
<1> SUFFICES ASSUME WorldFits, FleetFits(fleet), NoteFits, [Next]_vars PROVE NoteFits'
    OBVIOUS
<1>1. CASE ReadFleet \/ Routes \/ Match
  <2>1. stage' \notin Drawing /\ stage' # "done" /\ before' = before
        BY <1>1 DEF ReadFleet, Routes, Match, Drawing, logVars
  <2>2. Tidy(fleet')
    <3>1. CASE ReadFleet
          BY <3>1, ScannedIsTidy DEF ReadFleet, WorldFits
    <3>2. CASE Routes \/ Match
          BY <3>2, RoutesAreTidy, MatchIsTidy DEF NoteFits
    <3> QED BY <1>1, <3>1, <3>2
  <2> QED BY <2>1, <2>2 DEF NoteFits
<1>2. CASE Draw
  <2>1. /\ stage' = "describe" /\ fleet' = fleet /\ before' = before
        /\ overview' = Overview
        BY <1>2 DEF Draw, logVars
  <2>2. overview'.stacks = PublishedStacks
        BY <2>1 DEF Overview
  <2>3. Shows(PublishedStacks, fleet)
        BY PublishedShows DEF NoteFits
  <2> QED BY <2>1, <2>2, <2>3 DEF NoteFits
<1>3. CASE Tell
  <2>1. /\ stage = "describe" /\ stage' = "done" /\ fleet' = fleet /\ before' = before /\ overview' = overview
        /\ note' = Describe(IF before = <<>> THEN <<>> ELSE <<before[1].overview>>, overview)
        BY <1>3 DEF Tell, lateVars
  <2>2. ASSUME before # <<>> PROVE TrueOf(note'.config, before[1].fleet, fleet)
    <3>1. PICK was, prev, next, told : was = before[1].fleet /\ prev = before[1].overview
                                       /\ next = overview /\ told = note'
          OBVIOUS
    <3>2. told = Describe(<<prev>>, next)
          BY <2>1, <2>2, <3>1
    <3>3. told.config = Configuration(prev, next)
          BY <3>2 DEF Describe, Quietly
    <3>4. Tidy(was) /\ Shows(prev.stacks, was) /\ Tidy(fleet) /\ Shows(next.stacks, fleet)
          BY <2>1, <2>2, <3>1 DEF NoteFits, Drawing
    <3>5. TrueOf(Configuration(prev, next), was, fleet)
          BY <3>4, ConfigurationIsTrue
    <3> QED BY <3>1, <3>3, <3>5
  <2> QED BY <2>1, <2>2 DEF NoteFits, Drawing
<1>4. CASE Rescan
  <2>1. /\ stage = "done" /\ stage' = "scan" /\ fleet' = NoFleet
        /\ before' = <<[world |-> world, fleet |-> fleet, overview |-> overview]>>
        BY <1>4 DEF Rescan
  <2>2. before'[1].fleet = fleet /\ before'[1].overview = overview
        BY <2>1
  <2>3. Shows(overview.stacks, fleet) /\ Tidy(fleet)
        BY <2>1 DEF NoteFits, Drawing
  <2> QED BY <2>1, <2>2, <2>3, NothingIsTidy DEF NoteFits, Drawing
<1>5. CASE Classify \/ Origins \/ Dependencies \/ Probe \/ Declare
  <2>1. stage' \notin Drawing /\ stage' # "done" /\ fleet' = fleet /\ before' = before
        BY <1>5 DEF Classify, Origins, Dependencies, Probe, Declare, Drawing, logVars
  <2> QED BY <2>1 DEF NoteFits
<1>6. CASE Finished \/ UNCHANGED vars
  <2>1. stage' = stage /\ fleet' = fleet /\ before' = before /\ overview' = overview /\ note' = note
        BY <1>6 DEF Finished, vars, lateVars, logVars
  <2> QED BY <2>1 DEF NoteFits
<1> QED BY <1>1, <1>2, <1>3, <1>4, <1>5, <1>6 DEF Next

LEMMA NoteIsTrue == NoteFits => ChangedMeansItsOwnFiles
BY DEF NoteFits, TrueOf, ChangedMeansItsOwnFiles

-----------------------------------------------------------------------------
(* The inductive invariant: what each stage leaves for the ones after it. *)

IInv ==
    /\ stage \in ToSet(Stages)
    /\ WorldFits /\ FleetFits(fleet)
    /\ IngressFits /\ OriginsFit /\ LinksFit
    /\ ProbesFit /\ VerdictsFit
    /\ GraphFits /\ OverviewFits /\ NoteFits

LEMMA StagesAre ==
    ToSet(Stages) = {"scan", "routes", "classify", "origins", "depends", "match", "probe", "declare",
                     "draw", "describe", "done"}
BY DEF ToSet, Stages

LEMMA Initially == Init => IInv
<1>1. Init => stage \in ToSet(Stages)
      BY StagesAre DEF Init
<1> QED BY <1>1, FleetInit, IngressInit, OriginsInit, LinksInit, ProbesInit, VerdictsInit, GraphInit,
           OverviewInit, NoteInit DEF IInv

LEMMA Inductive == IInv /\ [Next]_vars => IInv'
<1> SUFFICES ASSUME IInv, [Next]_vars PROVE IInv'
    OBVIOUS
<1>1. (stage \in ToSet(Stages))'
  <2>1. stage' = stage \/ stage' \in {"scan", "routes", "classify", "origins", "depends", "match", "probe",
                                      "declare", "draw", "describe", "done"}
        BY DEF Next, ReadFleet, Routes, Classify, Origins, Dependencies, Match, Probe, Declare, Draw, Tell,
               Rescan, Finished, vars
  <2> QED BY <2>1, StagesAre DEF IInv
<1>2. WorldFits' /\ FleetFits(fleet')
      BY FleetStep DEF IInv
<1>3. IngressFits' /\ OriginsFit' /\ LinksFit'
      BY IngressStep, OriginsStep, LinksStep DEF IInv
<1>4. ProbesFit' /\ VerdictsFit'
      BY ProbesStep, VerdictsStep DEF IInv, WorldFits
<1>5. GraphFits' /\ OverviewFits'
      BY GraphStep, OverviewStep DEF IInv
<1>6. NoteFits'
      BY NoteStep DEF IInv
<1> QED BY <1>1, <1>2, <1>3, <1>4, <1>5, <1>6 DEF IInv

\* Every stage keeps what the stages before it left, whatever world is scanned and whatever is
\* edited before the next scan (pipeline.Run, stage by stage).
THEOREM AssemblyInvariant == Spec => []IInv
BY Initially, Inductive, PTL DEF Spec

\* Whatever the worlds, a stage finds what the ones before it leave as it takes it to be: of every
\* service its kinds of ingress, of every tunnel an end that is a hop or says why it is none, and
\* dependencies between two services (pipeline.Run and the packages it calls, in its order).
THEOREM TypeCorrect == Spec => []TypeOK
<1>1. IInv => TypeOK
      BY DEF IInv, TypeOK, IngressFits, OriginsFit, LinksFit, EndFits
<1> QED BY <1>1, AssemblyInvariant, PTL

\* A hop is only ever the one service that could have been meant: it goes by the origin's name or
\* publishes its port, shares a network with who declares it, is not that one itself, and no other
\* such service shares one (origins.go: resolveOrigin, resolveHostPort, onlyReachable).
THEOREM HopsAreMeant == Spec => []OriginIsUnambiguous
<1>1. IInv => OriginIsUnambiguous
      BY OriginsFitIsUnambiguous DEF IInv
<1> QED BY <1>1, AssemblyInvariant, PTL

\* No mechanism is both corroborated and left unconfirmed, whatever a sidecar declares and whatever
\* was detected (compare.go: Compare and the two lists of what is unconfirmed decide apart).
THEOREM Corroboration == Spec => []CorroborationIsCoherent
<1>1. IInv => CorroborationIsCoherent
      BY VerdictsAreCoherent DEF IInv
<1> QED BY <1>1, AssemblyInvariant, PTL

\* The graph has no edge into nowhere: of all that the passes of BuildGraph draw, both ends are
\* nodes that some pass added (graph.go).
THEOREM NoLooseEdge == Spec => []EveryEdgeHasBothEnds
<1>1. IInv => EveryEdgeHasBothEnds
      BY DEF IInv, GraphFits
<1> QED BY <1>1, AssemblyInvariant, PTL

\* Every dependency over a network is drawn on the edges of both its ends, pointing the right way,
\* and the network is drawn (graph.go: legs; networks.go: solo local ones are left out).
THEOREM LegsPoint == Spec => []DependencyIsOnItsLegs
<1>1. IInv => DependencyIsOnItsLegs
      BY DEF IInv, GraphFits
<1> QED BY <1>1, AssemblyInvariant, PTL

\* What the labels open is what the drawing leads to from outside, and it leads nowhere else but to
\* a hop on the way (ingress.go and origins.go conclude, graph.go draws).
THEOREM WaysInAreDrawn == Spec => []IngressIsDrawn
<1>1. IInv => IngressIsDrawn
      BY DEF IInv, GraphFits
<1> QED BY <1>1, AssemblyInvariant, PTL

\* Each service that is open and shows no gate is counted once, as exposed or as protected by what
\* it declares, and the counts of the probe are those of its report (drift.go, stats.go, probe.go).
THEOREM Accounted == Spec => []ExposureIsAccounted
<1>1. IInv => ExposureIsAccounted
      BY DEF IInv, OverviewFits
<1> QED BY <1>1, AssemblyInvariant, PTL

\* The log says of a stack that it changed if its own files did and not otherwise: whatever a
\* container, a far end or another stack's files have moved in what is published of it is stripped
\* before the two scans are compared, and nothing of its files is (changes.go: configuration, strip).
THEOREM ToldOfItsOwnFiles == Spec => []ChangedMeansItsOwnFiles
<1>1. IInv => ChangedMeansItsOwnFiles
      BY NoteIsTrue DEF IInv
<1> QED BY <1>1, AssemblyInvariant, PTL
=============================================================================
