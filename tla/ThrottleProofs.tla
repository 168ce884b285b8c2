--------------------------- MODULE ThrottleProofs ---------------------------
(***************************************************************************)
(* Theorems about the throttle: any number of handlers, any limit, window  *)
(* and table, any interleaving of the three locked sections with clocks    *)
(* read before them.  A handler's clock is behind the real one, so whoever *)
(* finds a window closed is right; and every handler past Allow is counted *)
(* against the limit before it fails.                                      *)
(***************************************************************************)
EXTENDS Throttle, FiniteSetTheorems, SequenceTheorems, TLAPS

-----------------------------------------------------------------------------
(* The inductive invariant. *)

\* What is tracked: by keys, the number of failures and the first of them.
EntriesInv ==
    /\ now \in Nat
    /\ DOMAIN entries \subseteq Keys
    /\ \A k \in DOMAIN entries : entries[k].count \in Nat \ {0} /\ entries[k].first \in Nat
    /\ order \in Seq(Keys)
    /\ MaxFailed <= 0 => DOMAIN entries = {}

\* An attempt is about some name and was made before now.
Made ==
    [pc : {"idle", "arrived", "verifying", "refused"}, key : Keys \cup {None},
     at : Nat, since : Nat \cup {None}, notBefore : Int, before : Nat \cup {None}]

HandlerInv ==
    /\ handler \in [Handlers -> Made]
    /\ \A h \in Handlers :
          /\ handler[h].at <= now
          /\ handler[h].pc # "idle" => handler[h].key \in Keys

ThrottleInv == EntriesInv /\ HandlerInv /\ TableIsItsOrder /\ GuessesBounded

LEMMA InitThrottle == Init => ThrottleInv
<1> SUFFICES ASSUME Init PROVE ThrottleInv
    OBVIOUS
<1>1. DOMAIN entries = {} /\ order = <<>>
      BY DEF Init
<1>2. EntriesInv
      BY <1>1 DEF EntriesInv, Init
<1>3. HandlerInv
      BY DEF HandlerInv, Init, Idle, Made
<1>4. TableIsItsOrder
  <2>1. DOMAIN order = {} /\ Len(order) = 0
        BY <1>1
  <2> QED BY <1>1, <2>1, ThrottleAssumption DEF TableIsItsOrder, Range, IsInjective
<1>5. GuessesBounded
      BY <1>1 DEF GuessesBounded
<1> QED BY <1>2, <1>3, <1>4, <1>5 DEF ThrottleInv

-----------------------------------------------------------------------------
(* The passwords being judged. *)

LEMMA VerifyingIsFinite ==
    ASSUME NEW k
    PROVE  /\ IsFiniteSet(Verifying(k))
           /\ Cardinality(Verifying(k)) \in Nat /\ Cardinality(Handlers) \in Nat
           /\ Cardinality(Verifying(k)) <= Cardinality(Handlers)
<1>1. IsFiniteSet(Handlers) /\ Verifying(k) \in SUBSET Handlers
      BY ThrottleAssumption DEF Verifying
<1>2. IsFiniteSet(Verifying(k)) /\ Cardinality(Verifying(k)) <= Cardinality(Handlers)
      BY <1>1, FS_Subset
<1> QED BY <1>1, <1>2, FS_CardinalityType

\* No more are judged after a step than before it.
LEMMA FewerVerify ==
    ASSUME NEW k, Verifying(k)' \subseteq Verifying(k)
    PROVE  /\ Cardinality(Verifying(k)') <= Cardinality(Verifying(k))
           /\ Cardinality(Verifying(k)') \in Nat
BY VerifyingIsFinite, FS_Subset, FS_CardinalityType

\* Whoever is answered is judged no more.
LEMMA OneLessVerifies ==
    ASSUME NEW k, NEW h \in Verifying(k), Verifying(k)' \subseteq Verifying(k) \ {h}
    PROVE  /\ Cardinality(Verifying(k)') + 1 <= Cardinality(Verifying(k))
           /\ Cardinality(Verifying(k)') \in Nat
<1>1. /\ IsFiniteSet(Verifying(k) \ {h})
      /\ Cardinality(Verifying(k) \ {h}) = Cardinality(Verifying(k)) - 1
      BY VerifyingIsFinite, FS_RemoveElement
<1>2. /\ IsFiniteSet(Verifying(k)')
      /\ Cardinality(Verifying(k)') <= Cardinality(Verifying(k) \ {h})
      BY <1>1, FS_Subset
<1> QED BY <1>1, <1>2, VerifyingIsFinite, FS_CardinalityType

-----------------------------------------------------------------------------
(* Steps that count nothing. *)

\* Time passes, and no more passwords are judged than before.
LEMMA QuietGuesses ==
    ASSUME ThrottleInv, now' \in Nat, now <= now', entries' = entries,
           \A k \in Keys : Verifying(k)' \subseteq Verifying(k)
    PROVE  GuessesBounded'
<1> SUFFICES ASSUME NEW k \in DOMAIN entries, ~Expired(entries[k], now')
             PROVE  entries[k].count + Cardinality(Verifying(k)')
                        <= MaxFailed - 1 + Cardinality(Handlers)
    BY DEF GuessesBounded, Expired
<1>1. /\ k \in Keys /\ now \in Nat
      /\ entries[k].count \in Nat /\ entries[k].first \in Nat
      BY DEF ThrottleInv, EntriesInv
<1>2. ~Expired(entries[k], now)
      BY <1>1, ThrottleAssumption DEF Expired
<1>3. entries[k].count + Cardinality(Verifying(k)) <= MaxFailed - 1 + Cardinality(Handlers)
      BY <1>2 DEF ThrottleInv, GuessesBounded
<1>4. /\ Cardinality(Verifying(k)') <= Cardinality(Verifying(k))
      /\ Cardinality(Verifying(k)') \in Nat
      BY <1>1, FewerVerify
<1> QED BY <1>1, <1>3, <1>4, VerifyingIsFinite, ThrottleAssumption

LEMMA QuietTable ==
    ASSUME ThrottleInv, entries' = entries, order' = order, now' \in Nat
    PROVE  EntriesInv' /\ TableIsItsOrder'
<1>1. EntriesInv'
      BY DEF ThrottleInv, EntriesInv
<1>2. TableIsItsOrder'
      BY DEF ThrottleInv, TableIsItsOrder
<1> QED BY <1>1, <1>2

LEMMA TickKeeps ==
    ASSUME ThrottleInv, Tick
    PROVE  ThrottleInv'
<1>1. now' = now + 1 /\ now \in Nat
      BY DEF Tick, ThrottleInv, EntriesInv
<1>2. entries' = entries /\ order' = order /\ handler' = handler
      BY DEF Tick
<1>3. HandlerInv'
      BY <1>1, <1>2 DEF ThrottleInv, HandlerInv, Made
<1>4. \A k \in Keys : Verifying(k)' \subseteq Verifying(k)
      BY <1>2 DEF Verifying
<1> QED BY <1>1, <1>2, <1>3, <1>4, QuietGuesses, QuietTable DEF ThrottleInv

\* A handler that is not judging a password goes on to something else.
LEMMA AnswerKeeps ==
    ASSUME ThrottleInv, UNCHANGED <<now, entries, order>>, NEW h \in Handlers,
           handler' \in [Handlers -> Made],
           \A x \in Handlers \ {h} : handler'[x] = handler[x],
           handler'[h].pc # "verifying", handler'[h].at <= now,
           handler'[h].pc # "idle" => handler'[h].key \in Keys
    PROVE  ThrottleInv'
<1>1. now' \in Nat /\ now <= now'
      BY DEF ThrottleInv, EntriesInv
<1>2. HandlerInv'
      BY <1>1 DEF ThrottleInv, HandlerInv
<1>3. \A k \in Keys : Verifying(k)' \subseteq Verifying(k)
      BY DEF Verifying
<1> QED BY <1>1, <1>2, <1>3, QuietGuesses, QuietTable DEF ThrottleInv

LEMMA ArrivalKeeps ==
    ASSUME ThrottleInv, UNCHANGED <<now, entries, order>>, NEW h \in Handlers,
           NEW k \in Keys, NEW waited \in Nat \cup {None},
           handler' = [handler EXCEPT ![h] = Arriving(k, waited)]
    PROVE  ThrottleInv'
<1>1. now \in Nat /\ handler \in [Handlers -> Made]
      BY DEF ThrottleInv, EntriesInv, HandlerInv
<1> DEFINE r == Arriving(k, waited)
<1>2. r \in Made /\ r.pc = "arrived" /\ r.at = now /\ r.key \in Keys
      BY <1>1 DEF Arriving, Made
<1> HIDE DEF r
<1>3. /\ handler' \in [Handlers -> Made] /\ handler'[h] = r
      /\ \A x \in Handlers \ {h} : handler'[x] = handler[x]
      BY <1>1, <1>2 DEF r
<1> QED BY <1>1, <1>2, <1>3, AnswerKeeps

LEMMA SubmitKeeps ==
    ASSUME ThrottleInv, NEW h \in Handlers, NEW u \in Users, Submit(h, u)
    PROVE  ThrottleInv'
BY ArrivalKeeps DEF Submit, Keys

LEMMA ReturnKeeps ==
    ASSUME ThrottleInv, NEW h \in Handlers, Return(h)
    PROVE  ThrottleInv'
BY ArrivalKeeps DEF Return, ThrottleInv, HandlerInv, Made

LEMMA MintFailsKeeps ==
    ASSUME ThrottleInv, NEW h \in Handlers, MintFails(h)
    PROVE  ThrottleInv'
<1>1. Idle \in Made /\ Idle.pc = "idle" /\ Idle.at = 0
      BY DEF Idle, Made
<1>2. 0 <= now /\ handler \in [Handlers -> Made]
      BY DEF ThrottleInv, EntriesInv, HandlerInv
<1>3. /\ handler' \in [Handlers -> Made] /\ handler'[h] = Idle
      /\ \A x \in Handlers \ {h} : handler'[x] = handler[x]
      BY <1>1, <1>2 DEF MintFails
<1> QED BY <1>1, <1>2, <1>3, AnswerKeeps DEF MintFails

-----------------------------------------------------------------------------
(* Allow: nobody is let in while a name is locked. *)

LEMMA RetryIsInt ==
    ASSUME NEW e, e.first \in Int, NEW t \in Int
    PROVE  RetryAfter(e, t) \in Int
<1>1. \A d \in Int : Round(d) \in Int
      BY ThrottleAssumption DEF Round
<1> QED BY <1>1, ThrottleAssumption DEF RetryAfter

\* What a refusal leaves of the handler.
LEMMA RefusedIsMade ==
    ASSUME ThrottleInv, NEW h \in Handlers, NEW e, e.first \in Nat
    PROVE  /\ RefusedBy(e, h) \in [Handlers -> Made]
           /\ RefusedBy(e, h)[h].pc = "refused"
           /\ RefusedBy(e, h)[h].key = handler[h].key
           /\ RefusedBy(e, h)[h].at = handler[h].at
           /\ \A x \in Handlers \ {h} : RefusedBy(e, h)[x] = handler[x]
<1>1. /\ handler \in [Handlers -> Made] /\ handler[h] \in Made
      /\ now \in Nat /\ handler[h].at \in Nat
      BY DEF ThrottleInv, HandlerInv, EntriesInv, Made
<1> DEFINE r == [pc |-> "refused", key |-> handler[h].key, at |-> handler[h].at,
                 since |-> e.first, notBefore |-> now + RetryAfter(e, handler[h].at),
                 before |-> handler[h].before]
<1>2. now + RetryAfter(e, handler[h].at) \in Int
      BY <1>1, RetryIsInt
<1>3. r \in Made /\ r.pc = "refused" /\ r.key = handler[h].key /\ r.at = handler[h].at
      BY <1>1, <1>2 DEF Made
<1>4. RefusedBy(e, h) = [handler EXCEPT ![h] = r]
      BY <1>1 DEF RefusedBy
<1> HIDE DEF r
<1> QED BY <1>1, <1>3, <1>4

LEMMA LetInKeeps ==
    ASSUME ThrottleInv, NEW h \in Handlers, UNCHANGED <<now, entries, order>>,
           handler[h].pc = "arrived", ~Locked(handler[h].key, handler[h].at),
           handler' = [handler EXCEPT ![h].pc = "verifying"]
    PROVE  ThrottleInv'
<1>1. /\ handler \in [Handlers -> Made] /\ handler[h].key \in Keys
      /\ now \in Nat /\ handler[h].at \in Nat /\ handler[h].at <= now
      BY DEF ThrottleInv, HandlerInv, EntriesInv, Made
<1>2. HandlerInv'
  <2>1. /\ handler' \in [Handlers -> Made]
        /\ \A x \in Handlers : handler'[x].key = handler[x].key /\ handler'[x].at = handler[x].at
        /\ \A x \in Handlers \ {h} : handler'[x] = handler[x]
        BY <1>1 DEF Made
  <2> QED BY <1>1, <2>1 DEF ThrottleInv, HandlerInv
<1>3. GuessesBounded'
  <2> SUFFICES ASSUME NEW k \in DOMAIN entries, ~Expired(entries[k], now)
               PROVE  entries[k].count + Cardinality(Verifying(k)')
                          <= MaxFailed - 1 + Cardinality(Handlers)
      BY DEF GuessesBounded, Expired
  <2>1. /\ k \in Keys /\ MaxFailed > 0 /\ MaxFailed \in Int
        /\ entries[k].count \in Nat /\ entries[k].first \in Nat
        BY ThrottleAssumption DEF ThrottleInv, EntriesInv
  <2>2. CASE k = handler[h].key
    <3>1. ~Expired(entries[k], handler[h].at)
          BY <1>1, <2>1, ThrottleAssumption DEF Expired
    <3>2. entries[k].count <= MaxFailed - 1
          BY <2>1, <2>2, <3>1 DEF Locked, Reached
    <3>3. /\ Cardinality(Verifying(k)') <= Cardinality(Handlers)
          /\ Cardinality(Verifying(k)') \in Nat /\ Cardinality(Handlers) \in Nat
      <4>1. Verifying(k)' \in SUBSET Handlers /\ IsFiniteSet(Handlers)
            BY ThrottleAssumption DEF Verifying
      <4> QED BY <4>1, FS_Subset, FS_CardinalityType
    <3> QED BY <2>1, <3>2, <3>3
  <2>3. CASE k # handler[h].key
    <3>1. Verifying(k)' \subseteq Verifying(k)
          BY <1>1, <2>3 DEF Verifying, Made
    <3>2. entries[k].count + Cardinality(Verifying(k)) <= MaxFailed - 1 + Cardinality(Handlers)
          BY DEF ThrottleInv, GuessesBounded
    <3> QED BY <2>1, <3>1, <3>2, FewerVerify, VerifyingIsFinite
  <2> QED BY <2>2, <2>3
<1> QED BY <1>1, <1>2, <1>3, QuietTable DEF ThrottleInv

LEMMA AllowKeeps ==
    ASSUME ThrottleInv, NEW h \in Handlers, Allow(h)
    PROVE  ThrottleInv'
<1> DEFINE k == handler[h].key
<1>1. UNCHANGED <<now, entries, order>> /\ handler[h].pc = "arrived"
      BY DEF Allow
<1>2. CASE Locked(k, handler[h].at)
  <2>1. handler' = RefusedBy(entries[k], h)
        BY <1>2 DEF Allow
  <2>2. entries[k].first \in Nat /\ handler[h].key \in Keys /\ handler[h].at <= now
        BY <1>1, <1>2 DEF Locked, ThrottleInv, EntriesInv, HandlerInv
  <2> QED BY <1>1, <2>1, <2>2, RefusedIsMade, AnswerKeeps
<1>3. CASE ~Locked(k, handler[h].at)
      BY <1>1, <1>3, LetInKeeps DEF Allow
<1> QED BY <1>2, <1>3

-----------------------------------------------------------------------------
(* Sequences without repetition. *)

LEMMA AppendedTable ==
    ASSUME NEW s \in Seq(Keys), IsInjective(s), NEW k \in Keys \ Range(s)
    PROVE  /\ Append(s, k) \in Seq(Keys)
           /\ Len(Append(s, k)) = Len(s) + 1
           /\ Range(Append(s, k)) = Range(s) \cup {k}
           /\ IsInjective(Append(s, k))
<1> DEFINE t == Append(s, k)
<1>1. /\ t \in Seq(Keys) /\ Len(s) \in Nat /\ Len(t) = Len(s) + 1
      /\ DOMAIN s = 1..Len(s) /\ DOMAIN t = 1..(Len(s) + 1)
      /\ t[Len(s) + 1] = k /\ \A i \in 1..Len(s) : t[i] = s[i]
      OBVIOUS
<1> HIDE DEF t
<1>2. \A i \in 1..Len(s) : s[i] # k
      BY <1>1 DEF Range
<1>3. Range(t) = Range(s) \cup {k}
  <2>1. \A x \in Range(t) : x \in Range(s) \cup {k}
        BY <1>1 DEF Range
  <2>2. \A x \in Range(s) \cup {k} : x \in Range(t)
        BY <1>1 DEF Range
  <2> QED BY <2>1, <2>2
<1>4. IsInjective(t)
      BY <1>1, <1>2 DEF IsInjective
<1> QED BY <1>1, <1>3, <1>4 DEF t

LEMMA TailTable ==
    ASSUME NEW s \in Seq(Keys), IsInjective(s), s # <<>>
    PROVE  /\ Tail(s) \in Seq(Keys)
           /\ Len(Tail(s)) = Len(s) - 1
           /\ Range(Tail(s)) = Range(s) \ {Head(s)}
           /\ IsInjective(Tail(s))
<1> DEFINE t == Tail(s)
<1>1. /\ t \in Seq(Keys) /\ Len(s) \in Nat \ {0} /\ Len(t) = Len(s) - 1
      /\ DOMAIN s = 1..Len(s) /\ DOMAIN t = 1..(Len(s) - 1)
      /\ Head(s) = s[1] /\ \A i \in 1..(Len(s) - 1) : t[i] = s[i + 1]
      OBVIOUS
<1> HIDE DEF t
<1>2. \A i \in 2..Len(s) : s[i] # s[1]
      BY <1>1 DEF IsInjective
<1>3. Range(t) = Range(s) \ {s[1]}
  <2>1. ASSUME NEW i \in DOMAIN t PROVE t[i] \in Range(s) \ {s[1]}
        BY <1>1, <1>2 DEF Range
  <2>2. ASSUME NEW i \in DOMAIN s, s[i] # s[1] PROVE s[i] \in Range(t)
    <3>1. i - 1 \in DOMAIN t /\ t[i - 1] = s[i]
          BY <1>1, <2>2
    <3> QED BY <3>1 DEF Range
  <2> QED BY <2>1, <2>2 DEF Range
<1>4. IsInjective(t)
      BY <1>1 DEF IsInjective
<1> QED BY <1>1, <1>3, <1>4 DEF t

LEMMA RemovedTable ==
    ASSUME NEW s \in Seq(Keys), IsInjective(s), NEW i \in DOMAIN s
    PROVE  /\ RemoveAt(s, i) \in Seq(Keys)
           /\ Len(RemoveAt(s, i)) = Len(s) - 1
           /\ Range(RemoveAt(s, i)) = Range(s) \ {s[i]}
           /\ IsInjective(RemoveAt(s, i))
<1> DEFINE t == RemoveAt(s, i)
<1>1. /\ Len(s) \in Nat /\ DOMAIN s = 1..Len(s) /\ i \in 1..Len(s)
      OBVIOUS
<1> DEFINE a == SubSeq(s, 1, i - 1)
           b == SubSeq(s, i + 1, Len(s))
<1>2. /\ a \in Seq(Keys) /\ Len(a) = i - 1 /\ \A j \in 1..(i - 1) : a[j] = s[j]
      BY <1>1
<1>3. /\ b \in Seq(Keys) /\ Len(b) = Len(s) - i /\ \A j \in 1..(Len(s) - i) : b[j] = s[i + j]
      BY <1>1
<1>4. t = a \o b
      BY DEF RemoveAt
<1> HIDE DEF a, b, t
<1>5. /\ t \in Seq(Keys) /\ Len(t) = Len(s) - 1 /\ DOMAIN t = 1..(Len(s) - 1)
  <2>1. t \in Seq(Keys) /\ Len(t) = Len(a) + Len(b) /\ DOMAIN t = 1..Len(t)
    <3>1. t \in Seq(Keys) /\ Len(t) = Len(a) + Len(b)
          BY <1>2, <1>3, <1>4, ConcatProperties, Zenon
    <3> QED BY <3>1
  <2>2. Len(a) + Len(b) = Len(s) - 1
        BY <1>1, <1>2, <1>3
  <2> QED BY <2>1, <2>2
<1>6. \A j \in DOMAIN t : t[j] = IF j < i THEN s[j] ELSE s[j + 1]
  <2> SUFFICES ASSUME NEW j \in DOMAIN t PROVE t[j] = IF j < i THEN s[j] ELSE s[j + 1]
      OBVIOUS
  <2> j \in Nat
      BY <1>5
  <2>1. CASE j < i
    <3>1. j \in 1..Len(a)
          BY <1>1, <1>2, <1>5, <2>1
    <3>2. t[j] = a[j]
          BY <1>2, <1>3, <1>4, <3>1
    <3> QED BY <1>1, <1>2, <2>1, <3>1, <3>2
  <2>2. CASE j >= i
    <3>1. /\ j - (i - 1) \in 1..(Len(s) - i) /\ i + (j - (i - 1)) = j + 1
          BY <1>1, <1>5, <2>2
    <3>2. t[j] = b[j - (i - 1)]
      <4>1. j \in Len(a) + 1 .. Len(a) + Len(b) /\ j - Len(a) = j - (i - 1)
            BY <1>1, <1>2, <1>3, <1>5, <2>2
      <4>2. t[j] = b[j - Len(a)]
            BY <1>2, <1>3, <1>4, <4>1
      <4> QED BY <4>1, <4>2
    <3> QED BY <1>1, <1>3, <1>5, <2>2, <3>1, <3>2
  <2> QED BY <1>1, <1>5, <2>1, <2>2
<1>7. Range(t) = Range(s) \ {s[i]}
  <2>1. ASSUME NEW j \in DOMAIN t PROVE t[j] \in Range(s) \ {s[i]}
        BY <1>1, <1>5, <1>6 DEF Range, IsInjective
  <2>2. ASSUME NEW j \in DOMAIN s, s[j] # s[i] PROVE s[j] \in Range(t)
    <3>1. CASE j < i
      <4>1. j \in DOMAIN t /\ t[j] = s[j]
            BY <1>1, <1>5, <1>6, <3>1
      <4> QED BY <4>1 DEF Range
    <3>2. CASE j > i
      <4>1. j - 1 \in DOMAIN t /\ t[j - 1] = s[j]
            BY <1>1, <1>5, <1>6, <3>2
      <4> QED BY <4>1 DEF Range
    <3> QED BY <1>1, <2>2, <3>1, <3>2
  <2> QED BY <2>1, <2>2 DEF Range
<1>8. IsInjective(t)
  <2> SUFFICES ASSUME NEW j \in DOMAIN t, NEW m \in DOMAIN t, t[j] = t[m] PROVE j = m
      BY DEF IsInjective
  <2> DEFINE at(n) == IF n < i THEN n ELSE n + 1
  <2>1. /\ at(j) \in DOMAIN s /\ at(m) \in DOMAIN s /\ t[j] = s[at(j)] /\ t[m] = s[at(m)]
        BY <1>1, <1>5, <1>6
  <2>2. at(j) = at(m)
        BY <2>1 DEF IsInjective
  <2> QED BY <1>1, <1>5, <2>2
<1> QED BY <1>5, <1>7, <1>8 DEF t

-----------------------------------------------------------------------------
(* Failed: the count, and room in the table. *)

LEMMA LenIsCardinality ==
    ASSUME ThrottleInv
    PROVE  Len(order) \in Nat /\ Cardinality(DOMAIN entries) = Len(order)
<1>1. /\ order \in Seq(Keys) /\ Len(order) \in Nat /\ DOMAIN order = 1..Len(order)
      /\ Range(order) = DOMAIN entries /\ IsInjective(order)
      BY DEF ThrottleInv, EntriesInv, TableIsItsOrder
<1>2. order \in Bijection(1..Len(order), DOMAIN entries)
      BY <1>1 DEF Bijection, Injection, Surjection, Range, IsInjective
<1> QED BY <1>1, <1>2, FS_CountingElements DEF ExistsBijection

\* A key that is new finds room, or takes that of the oldest.
LEMMA RoomForOne ==
    ASSUME ThrottleInv, NEW k \in Keys
    PROVE  \/ k \in DOMAIN entries /\ Evicted(k) = {}
           \/ k \notin DOMAIN entries /\ Evicted(k) = {} /\ Len(order) < MaxKeys
           \/ /\ k \notin DOMAIN entries /\ Evicted(k) = {Head(order)}
              /\ order # <<>> /\ Len(order) = MaxKeys
<1>1. /\ Len(order) \in Nat /\ Cardinality(DOMAIN entries) = Len(order)
      /\ order \in Seq(Keys) /\ Len(order) <= MaxKeys /\ MaxKeys \in Nat \ {0}
      BY LenIsCardinality, ThrottleAssumption DEF ThrottleInv, EntriesInv, TableIsItsOrder
<1>2. CASE k \in DOMAIN entries
      BY <1>2 DEF Evicted
<1>3. CASE k \notin DOMAIN entries /\ Len(order) < MaxKeys
      BY <1>1, <1>3 DEF Evicted
<1>4. CASE k \notin DOMAIN entries /\ ~(Len(order) < MaxKeys)
  <2>1. Len(order) = MaxKeys /\ order # <<>>
        BY <1>1, <1>4
  <2>2. Evicted(k) = {Head(order)}
        BY <1>1, <1>4 DEF Evicted
  <2> QED BY <1>4, <2>1, <2>2
<1> QED BY <1>2, <1>3, <1>4

LEMMA FailedTable ==
    ASSUME ThrottleInv, NEW k \in Keys, DOMAIN entries' = (DOMAIN entries \ Evicted(k)) \cup {k},
           order' = IF k \in DOMAIN entries THEN order
                    ELSE Append(IF Evicted(k) = {} THEN order ELSE Tail(order), k)
    PROVE  order' \in Seq(Keys) /\ TableIsItsOrder'
<1>1. /\ order \in Seq(Keys) /\ Len(order) \in Nat /\ IsInjective(order)
      /\ Range(order) = DOMAIN entries /\ Len(order) <= MaxKeys /\ MaxKeys \in Nat
      BY LenIsCardinality, ThrottleAssumption DEF ThrottleInv, EntriesInv, TableIsItsOrder
<1>2. CASE k \in DOMAIN entries /\ Evicted(k) = {}
  <2>1. order' = order /\ DOMAIN entries' = DOMAIN entries
        BY <1>2
  <2> QED BY <1>1, <2>1 DEF TableIsItsOrder
<1>3. CASE k \notin DOMAIN entries /\ Evicted(k) = {} /\ Len(order) < MaxKeys
  <2>1. order' = Append(order, k) /\ DOMAIN entries' = DOMAIN entries \cup {k}
        BY <1>3
  <2>2. k \in Keys \ Range(order)
        BY <1>1, <1>3
  <2>3. /\ order' \in Seq(Keys) /\ Len(order') = Len(order) + 1
        /\ Range(order') = Range(order) \cup {k} /\ IsInjective(order')
        BY <1>1, <2>1, <2>2, AppendedTable
  <2> QED BY <1>1, <1>3, <2>1, <2>3 DEF TableIsItsOrder
<1>4. CASE /\ k \notin DOMAIN entries /\ Evicted(k) = {Head(order)}
           /\ order # <<>> /\ Len(order) = MaxKeys
  <2> PICK t : t = Tail(order)
      OBVIOUS
  <2>1. order' = Append(t, k) /\ DOMAIN entries' = (DOMAIN entries \ {Head(order)}) \cup {k}
        BY <1>4
  <2>2. /\ t \in Seq(Keys) /\ Len(t) = Len(order) - 1
        /\ Range(t) = Range(order) \ {Head(order)} /\ IsInjective(t)
        BY <1>1, <1>4, TailTable
  <2>3. k \in Keys \ Range(t)
        BY <1>1, <1>4, <2>2
  <2>4. /\ order' \in Seq(Keys) /\ Len(order') = Len(t) + 1
        /\ Range(order') = Range(t) \cup {k} /\ IsInjective(order')
    <3>1. /\ Append(t, k) \in Seq(Keys) /\ Len(Append(t, k)) = Len(t) + 1
          /\ Range(Append(t, k)) = Range(t) \cup {k} /\ IsInjective(Append(t, k))
          BY <2>2, <2>3, AppendedTable
    <3> QED BY <2>1, <3>1, Zenon
  <2>5. Len(order') <= MaxKeys
        BY <1>1, <1>4, <2>2, <2>4
  <2>6. Range(order') = DOMAIN entries'
        BY <1>1, <2>1, <2>2, <2>4
  <2> QED BY <2>4, <2>5, <2>6 DEF TableIsItsOrder
<1> QED BY <1>2, <1>3, <1>4, RoomForOne

\* What Failed writes when there is a limit.
LEMMA FailedEffect ==
    ASSUME ThrottleInv, NEW h \in Handlers, Failed(h), MaxFailed > 0
    PROVE  LET k == handler[h].key
           IN  /\ k \in Keys /\ h \in Verifying(k) /\ now' = now
               /\ DOMAIN entries' = (DOMAIN entries \ Evicted(k)) \cup {k}
               /\ entries'[k] = FailedEntry(k, handler[h].at)
               /\ entries'[k].count \in Nat \ {0} /\ entries'[k].first \in Nat
               /\ \A x \in DOMAIN entries' \ {k} : entries'[x] = entries[x]
               /\ handler' \in [Handlers -> Made]
               /\ handler'[h].pc \in {"idle", "refused"} /\ handler'[h].at <= now
               /\ handler'[h].pc = "refused" => handler'[h].key \in Keys
               /\ \A x \in Handlers \ {h} : handler'[x] = handler[x]
<1> DEFINE k == handler[h].key
           e == FailedEntry(k, handler[h].at)
<1>1. /\ handler[h].pc = "verifying" /\ k \in Keys /\ handler \in [Handlers -> Made]
      /\ handler[h].at \in Nat /\ handler[h].at <= now /\ now \in Nat /\ now' = now
      BY DEF Failed, ThrottleInv, HandlerInv, EntriesInv, Made
<1>2. h \in Verifying(k)
      BY <1>1 DEF Verifying
<1>3. e.count \in Nat \ {0} /\ e.first \in Nat
  <2>1. CASE k \in DOMAIN entries /\ ~Expired(entries[k], handler[h].at)
    <3>1. /\ e = [entries[k] EXCEPT !.count = @ + 1]
          /\ entries[k].count \in Nat \ {0} /\ entries[k].first \in Nat
          BY <2>1 DEF FailedEntry, ThrottleInv, EntriesInv
    <3> QED BY <3>1
  <2>2. CASE ~(k \in DOMAIN entries /\ ~Expired(entries[k], handler[h].at))
        BY <1>1, <2>2 DEF FailedEntry
  <2> QED BY <2>1, <2>2
<1>4. /\ DOMAIN entries' = (DOMAIN entries \ Evicted(k)) \cup {k}
      /\ entries'[k] = e
      /\ \A x \in DOMAIN entries' \ {k} : entries'[x] = entries[x]
  <2>1. entries' = [x \in (DOMAIN entries \ Evicted(k)) \cup {k} |->
                       IF x = k THEN e ELSE entries[x]]
        BY ThrottleAssumption DEF Failed
  <2> HIDE DEF k, e
  <2> QED BY <2>1
<1>5. /\ handler' \in [Handlers -> Made]
      /\ handler'[h].pc \in {"idle", "refused"} /\ handler'[h].at <= now
      /\ handler'[h].pc = "refused" => handler'[h].key \in Keys
      /\ \A x \in Handlers \ {h} : handler'[x] = handler[x]
  <2>1. CASE Reached(e)
    <3>1. handler' = RefusedBy(e, h)
          BY <2>1 DEF Failed
    <3> QED BY <1>1, <1>3, <3>1, RefusedIsMade
  <2>2. CASE ~Reached(e)
    <3>1. handler' = [handler EXCEPT ![h] = Idle]
          BY <2>2 DEF Failed
    <3>2. Idle \in Made /\ Idle.pc = "idle" /\ Idle.at = 0
          BY DEF Idle, Made
    <3> QED BY <1>1, <3>1, <3>2
  <2> QED BY <2>1, <2>2
<1> QED BY <1>1, <1>2, <1>3, <1>4, <1>5

LEMMA FailedKeeps ==
    ASSUME ThrottleInv, NEW h \in Handlers, Failed(h)
    PROVE  ThrottleInv'
<1>1. CASE MaxFailed <= 0
  <2>1. UNCHANGED <<now, entries, order>> /\ handler' = [handler EXCEPT ![h] = Idle]
        BY <1>1, ThrottleAssumption DEF Failed
  <2>2. Idle \in Made /\ Idle.pc = "idle" /\ Idle.at = 0 /\ 0 <= now
        /\ handler \in [Handlers -> Made]
        BY DEF Idle, Made, ThrottleInv, EntriesInv, HandlerInv
  <2>3. /\ handler' \in [Handlers -> Made] /\ handler'[h] = Idle
        /\ \A x \in Handlers \ {h} : handler'[x] = handler[x]
        BY <2>1, <2>2
  <2> QED BY <2>1, <2>2, <2>3, AnswerKeeps
<1>2. CASE MaxFailed > 0
  <2> PICK k : k = handler[h].key
      OBVIOUS
  <2>1. /\ k \in Keys /\ h \in Verifying(k) /\ now' = now
        /\ DOMAIN entries' = (DOMAIN entries \ Evicted(k)) \cup {k}
        /\ entries'[k] = FailedEntry(k, handler[h].at)
        /\ entries'[k].count \in Nat \ {0} /\ entries'[k].first \in Nat
        /\ \A x \in DOMAIN entries' \ {k} : entries'[x] = entries[x]
        /\ handler' \in [Handlers -> Made]
        /\ handler'[h].pc \in {"idle", "refused"} /\ handler'[h].at <= now
        /\ handler'[h].pc = "refused" => handler'[h].key \in Keys
        /\ \A x \in Handlers \ {h} : handler'[x] = handler[x]
        BY <1>2, FailedEffect
  <2>2. /\ now \in Nat /\ handler[h].at \in Nat /\ handler[h].at <= now
        BY DEF ThrottleInv, EntriesInv, HandlerInv, Made
  <2>3. order' = IF k \in DOMAIN entries THEN order
                 ELSE Append(IF Evicted(k) = {} THEN order ELSE Tail(order), k)
        BY <1>2, ThrottleAssumption DEF Failed
  <2>4. order' \in Seq(Keys) /\ TableIsItsOrder'
        BY <2>1, <2>3, FailedTable
  <2>5. EntriesInv'
    <3>1. \A x \in DOMAIN entries' \ {k} : x \in DOMAIN entries
          BY <2>1
    <3> QED BY <1>2, <2>1, <2>2, <2>4, <3>1, ThrottleAssumption DEF ThrottleInv, EntriesInv
  <2>6. HandlerInv'
        BY <2>1 DEF ThrottleInv, HandlerInv
  <2>7. GuessesBounded'
    <3> SUFFICES ASSUME NEW x \in DOMAIN entries', ~Expired(entries'[x], now)
                 PROVE  entries'[x].count + Cardinality(Verifying(x)')
                            <= MaxFailed - 1 + Cardinality(Handlers)
        BY <2>1 DEF GuessesBounded, Expired
    <3>1. CASE x # k
      <4>1. x \in DOMAIN entries /\ x \in Keys /\ entries'[x] = entries[x]
            /\ entries[x].count \in Nat
            BY <2>1, <3>1 DEF ThrottleInv, EntriesInv
      <4>2. Verifying(x)' \subseteq Verifying(x)
            BY <2>1 DEF Verifying
      <4>3. entries[x].count + Cardinality(Verifying(x)) <= MaxFailed - 1 + Cardinality(Handlers)
            BY <4>1 DEF ThrottleInv, GuessesBounded
      <4> QED BY <4>1, <4>2, <4>3, FewerVerify, VerifyingIsFinite, ThrottleAssumption
    <3>2. CASE x = k
      <4>1. Verifying(k)' \subseteq Verifying(k) \ {h}
            BY <2>1 DEF Verifying
      <4>2. /\ Cardinality(Verifying(k)') + 1 <= Cardinality(Verifying(k))
            /\ Cardinality(Verifying(k)') \in Nat /\ Cardinality(Verifying(k)) \in Nat
            /\ Cardinality(Handlers) \in Nat /\ Cardinality(Verifying(k)) <= Cardinality(Handlers)
            BY <2>1, <4>1, OneLessVerifies, VerifyingIsFinite
      <4>3. CASE k \in DOMAIN entries /\ ~Expired(entries[k], handler[h].at)
        <5>1. /\ entries[k].count \in Nat /\ entries[k].first \in Nat
              /\ entries'[k] = [entries[k] EXCEPT !.count = @ + 1]
              BY <2>1, <4>3 DEF FailedEntry, ThrottleInv, EntriesInv
        <5>2. entries'[k].count = entries[k].count + 1 /\ entries'[k].first = entries[k].first
              BY <2>1, <5>1
        <5>3. ~Expired(entries[k], now)
              BY <3>2, <5>2 DEF Expired
        <5>4. entries[k].count + Cardinality(Verifying(k)) <= MaxFailed - 1 + Cardinality(Handlers)
              BY <4>3, <5>3 DEF ThrottleInv, GuessesBounded
        <5> QED BY <3>2, <4>2, <5>1, <5>2, <5>4, ThrottleAssumption
      <4>4. CASE ~(k \in DOMAIN entries /\ ~Expired(entries[k], handler[h].at))
        <5>1. entries'[k].count = 1
              BY <2>1, <4>4 DEF FailedEntry
        <5> QED BY <1>2, <3>2, <4>2, <5>1, ThrottleAssumption
      <4> QED BY <4>3, <4>4
    <3> QED BY <3>1, <3>2
  <2> QED BY <2>4, <2>5, <2>6, <2>7 DEF ThrottleInv
<1> QED BY <1>1, <1>2, ThrottleAssumption

-----------------------------------------------------------------------------
(* Succeeded: the name is cleared from table and order. *)

LEMMA ForgetTable ==
    ASSUME ThrottleInv, NEW k \in Keys, Forget(k)
    PROVE  /\ order' \in Seq(Keys) /\ TableIsItsOrder'
           /\ DOMAIN entries' = DOMAIN entries \ {k}
           /\ \A x \in DOMAIN entries' : entries'[x] = entries[x]
<1>1. /\ DOMAIN entries' = DOMAIN entries \ {k}
      /\ \A x \in DOMAIN entries' : entries'[x] = entries[x]
      BY DEF Forget
<1>2. /\ order \in Seq(Keys) /\ Len(order) \in Nat /\ IsInjective(order)
      /\ Range(order) = DOMAIN entries /\ Len(order) <= MaxKeys /\ MaxKeys \in Nat
      BY LenIsCardinality, ThrottleAssumption DEF ThrottleInv, EntriesInv, TableIsItsOrder
<1>3. CASE k \notin DOMAIN entries
  <2>1. order' = order /\ DOMAIN entries' = DOMAIN entries
        BY <1>1, <1>3 DEF Forget
  <2> QED BY <1>1, <1>2, <2>1 DEF TableIsItsOrder
<1>4. CASE k \in DOMAIN entries
  <2> DEFINE i == CHOOSE i \in DOMAIN order : order[i] = k
  <2>1. \E j \in DOMAIN order : order[j] = k
        BY <1>2, <1>4 DEF Range
  <2>2. i \in DOMAIN order /\ order[i] = k
        BY <2>1
  <2>3. order' = RemoveAt(order, i)
        BY <1>4 DEF Forget
  <2> HIDE DEF i
  <2>4. /\ order' \in Seq(Keys) /\ Len(order') = Len(order) - 1
        /\ Range(order') = Range(order) \ {order[i]} /\ IsInjective(order')
        BY <1>2, <2>2, <2>3, RemovedTable, Zenon
  <2>5. Len(order') <= MaxKeys /\ Range(order') = DOMAIN entries'
        BY <1>1, <1>2, <2>2, <2>4
  <2> QED BY <1>1, <2>4, <2>5 DEF TableIsItsOrder
<1> QED BY <1>3, <1>4

LEMMA SucceededKeeps ==
    ASSUME ThrottleInv, NEW h \in Handlers, Succeeded(h)
    PROVE  ThrottleInv'
<1> PICK k : k = handler[h].key
    OBVIOUS
<1>1. /\ handler[h].pc = "verifying" /\ k \in Keys /\ handler \in [Handlers -> Made]
      /\ now \in Nat /\ now' = now /\ Forget(k)
      BY DEF Succeeded, ThrottleInv, HandlerInv, EntriesInv
<1>2. /\ order' \in Seq(Keys) /\ TableIsItsOrder'
      /\ DOMAIN entries' = DOMAIN entries \ {k}
      /\ \A x \in DOMAIN entries' : entries'[x] = entries[x]
      BY <1>1, ForgetTable
<1>3. Idle \in Made /\ Idle.pc = "idle" /\ Idle.at = 0
      BY DEF Idle, Made
<1>4. /\ handler' \in [Handlers -> Made] /\ handler'[h] = Idle
      /\ \A x \in Handlers \ {h} : handler'[x] = handler[x]
      BY <1>1, <1>3 DEF Succeeded
<1>5. EntriesInv'
      BY <1>1, <1>2 DEF ThrottleInv, EntriesInv
<1>6. HandlerInv'
      BY <1>1, <1>3, <1>4 DEF ThrottleInv, HandlerInv
<1>7. GuessesBounded'
  <2> SUFFICES ASSUME NEW x \in DOMAIN entries', ~Expired(entries'[x], now)
               PROVE  entries'[x].count + Cardinality(Verifying(x)')
                          <= MaxFailed - 1 + Cardinality(Handlers)
      BY <1>1 DEF GuessesBounded, Expired
  <2>1. x \in DOMAIN entries /\ x \in Keys /\ entries'[x] = entries[x] /\ entries[x].count \in Nat
        BY <1>2 DEF ThrottleInv, EntriesInv
  <2>2. Verifying(x)' \subseteq Verifying(x)
        BY <1>3, <1>4 DEF Verifying
  <2>3. entries[x].count + Cardinality(Verifying(x)) <= MaxFailed - 1 + Cardinality(Handlers)
        BY <2>1 DEF ThrottleInv, GuessesBounded
  <2> QED BY <2>1, <2>2, <2>3, FewerVerify, VerifyingIsFinite, ThrottleAssumption
<1> QED BY <1>2, <1>5, <1>6, <1>7 DEF ThrottleInv

-----------------------------------------------------------------------------
(* Every step keeps the invariant, and no step moves a lock. *)

LEMMA ThrottleSteps == ThrottleInv /\ [Next]_vars => ThrottleInv'
<1> SUFFICES ASSUME ThrottleInv, [Next]_vars PROVE ThrottleInv'
    OBVIOUS
<1>1. CASE Tick
      BY <1>1, TickKeeps
<1>2. ASSUME NEW h \in Handlers, NEW u \in Users, Submit(h, u) PROVE ThrottleInv'
      BY <1>2, SubmitKeeps
<1>3. ASSUME NEW h \in Handlers,
             Return(h) \/ Allow(h) \/ Failed(h) \/ Succeeded(h) \/ MintFails(h)
      PROVE  ThrottleInv'
      BY <1>3, ReturnKeeps, AllowKeeps, FailedKeeps, SucceededKeeps, MintFailsKeeps
<1>4. CASE UNCHANGED vars
  <2>1. UNCHANGED <<now, entries, order, handler>>
        BY <1>4 DEF vars
  <2>2. HandlerInv' /\ now' \in Nat /\ now <= now' /\ \A k \in Keys : Verifying(k)' \subseteq Verifying(k)
        BY <2>1 DEF ThrottleInv, HandlerInv, EntriesInv, Verifying
  <2> QED BY <2>1, <2>2, QuietGuesses, QuietTable DEF ThrottleInv
<1> QED BY <1>1, <1>2, <1>3, <1>4 DEF Next

\* What LockHolds asks of a step.
LockKept(k) ==
    \/ Locked(k, now)' /\ entries'[k].first = entries[k].first
    \/ now' - entries[k].first >= Window
    \/ \E h \in Verifying(k) : handler'[h].pc = "idle"
    \/ Len(order) = MaxKeys /\ Head(order) = k /\ k \notin DOMAIN entries' /\ entries' # <<>>

LEMMA LockStays ==
    ASSUME ThrottleInv, NEW k \in Keys, Locked(k, now), entries' = entries, now' \in Nat
    PROVE  LockKept(k)
<1>1. entries[k].first \in Nat
      BY DEF Locked, ThrottleInv, EntriesInv
<1>2. CASE now' - entries[k].first >= Window
      BY <1>2 DEF LockKept
<1>3. CASE ~(now' - entries[k].first >= Window)
      BY <1>3 DEF LockKept, Locked, Expired, Reached
<1> QED BY <1>2, <1>3

LEMMA LockOutlivesFailure ==
    ASSUME ThrottleInv, NEW k \in Keys, Locked(k, now), NEW h \in Handlers, Failed(h)
    PROVE  LockKept(k)
<1> PICK f : f = handler[h].key
    OBVIOUS
<1>1. /\ MaxFailed > 0 /\ MaxFailed \in Int /\ k \in DOMAIN entries
      /\ ~Expired(entries[k], now) /\ entries[k].count >= MaxFailed
      /\ entries[k].count \in Nat /\ entries[k].first \in Nat /\ now \in Nat
      /\ handler[h].at \in Nat /\ handler[h].at <= now
      BY ThrottleAssumption DEF Locked, Reached, ThrottleInv, EntriesInv, HandlerInv, Made
<1>2. /\ f \in Keys /\ now' = now
      /\ DOMAIN entries' = (DOMAIN entries \ Evicted(f)) \cup {f}
      /\ entries'[f] = FailedEntry(f, handler[h].at)
      /\ \A x \in DOMAIN entries' \ {f} : entries'[x] = entries[x]
      BY <1>1, FailedEffect
<1>3. CASE k = f
  <2>1. ~Expired(entries[k], handler[h].at)
        BY <1>1, ThrottleAssumption DEF Expired
  <2>2. entries'[k] = [entries[k] EXCEPT !.count = @ + 1]
        BY <1>1, <1>2, <1>3, <2>1 DEF FailedEntry
  <2>3. entries'[k].count = entries[k].count + 1 /\ entries'[k].first = entries[k].first
        BY <1>1, <2>2
  <2> QED BY <1>1, <1>2, <1>3, <2>3 DEF LockKept, Locked, Expired, Reached
<1>4. CASE k # f /\ k \notin Evicted(f)
  <2>1. k \in DOMAIN entries' /\ entries'[k] = entries[k]
        BY <1>1, <1>2, <1>4
  <2> QED BY <1>1, <1>2, <2>1 DEF LockKept, Locked, Expired, Reached
<1>5. CASE k # f /\ k \in Evicted(f)
  <2>1. Evicted(f) = {Head(order)} /\ Len(order) = MaxKeys
        BY <1>2, <1>5, RoomForOne
  <2>2. k \notin DOMAIN entries' /\ f \in DOMAIN entries'
        BY <1>2, <1>5
  <2>3. entries' # <<>>
        BY <2>2
  <2> QED BY <1>5, <2>1, <2>2, <2>3 DEF LockKept
<1> QED BY <1>3, <1>4, <1>5

LEMMA LockSteps ==
    ASSUME ThrottleInv, [Next]_vars, NEW k \in Keys, Locked(k, now)
    PROVE  LockKept(k)
<1> now \in Nat
    BY DEF ThrottleInv, EntriesInv
<1>1. CASE Tick
      BY <1>1, LockStays DEF Tick
<1>2. ASSUME NEW h \in Handlers, NEW u \in Users, Submit(h, u) PROVE LockKept(k)
      BY <1>2, LockStays DEF Submit
<1>3. ASSUME NEW h \in Handlers, Return(h) \/ Allow(h) \/ MintFails(h) PROVE LockKept(k)
      BY <1>3, LockStays DEF Return, Allow, MintFails
<1>4. ASSUME NEW h \in Handlers, Failed(h) PROVE LockKept(k)
      BY <1>4, LockOutlivesFailure
<1>5. ASSUME NEW h \in Handlers, Succeeded(h) PROVE LockKept(k)
  <2>1. /\ handler[h].pc = "verifying" /\ handler[h].key \in Keys
        /\ Forget(handler[h].key) /\ now' = now
        /\ handler \in [Handlers -> Made] /\ handler'[h].pc = "idle"
        BY <1>5 DEF Succeeded, Idle, ThrottleInv, HandlerInv
  <2>2. CASE handler[h].key = k
    <3>1. h \in Verifying(k)
          BY <2>1, <2>2 DEF Verifying
    <3> QED BY <2>1, <3>1 DEF LockKept
  <2>3. CASE handler[h].key # k
    <3>1. k \in DOMAIN entries' /\ entries'[k] = entries[k]
          BY <2>1, <2>3 DEF Forget, Locked
    <3> QED BY <2>1, <3>1 DEF LockKept, Locked
  <2> QED BY <2>2, <2>3
<1>6. CASE UNCHANGED vars
      BY <1>6, LockStays DEF vars
<1> QED BY <1>1, <1>2, <1>3, <1>4, <1>5, <1>6 DEF Next

-----------------------------------------------------------------------------
(* The theorems. *)

\* Whatever the handlers of POST /api/login interleave, table, order, limit and clocks agree.
THEOREM ThrottleInvariant == Spec => []ThrottleInv
<1>1. Init => ThrottleInv
      BY InitThrottle
<1>2. ThrottleInv /\ [Next]_vars => ThrottleInv'
      BY ThrottleSteps
<1> QED BY <1>1, <1>2, PTL DEF Spec

\* throttle.go: the map and the slice hold the same names, each once, and no more than the cap.
THEOREM TableIsOrdered == Spec => []TableIsItsOrder
<1>1. ThrottleInv => TableIsItsOrder
      BY DEF ThrottleInv
<1> QED BY <1>1, ThrottleInvariant, PTL

\* login.go, Attempt: checking before the hash and counting after it lets through, in a window,
\* at most one guess more than the limit per handler that was already judging.
THEOREM GuessesAreBounded == Spec => []GuessesBounded
<1>1. ThrottleInv => GuessesBounded
      BY DEF ThrottleInv
<1> QED BY <1>1, ThrottleInvariant, PTL

\* throttle.go: a lock in force ends by its window, by a sign-in let in before it or by an
\* eviction, and neither a late failure nor a late clock moves it.
THEOREM LocksHold == Spec => LockHolds
<1>1. ThrottleInv /\ [Next]_vars =>
          [\A k \in Keys : Locked(k, now) => LockKept(k)]_vars
      BY LockSteps
<1>2. [\A k \in Keys : Locked(k, now) => LockKept(k)]_vars =>
          [\A k \in Keys :
              Locked(k, now) =>
                 \/ Locked(k, now)' /\ entries'[k].first = entries[k].first
                 \/ now' - entries[k].first >= Window
                 \/ \E h \in Verifying(k) : handler'[h].pc = "idle"
                 \/ /\ Len(order) = MaxKeys /\ Head(order) = k
                    /\ k \notin DOMAIN entries' /\ entries' # <<>>]_vars
      BY DEF LockKept
<1> QED BY <1>1, <1>2, ThrottleInvariant, PTL DEF Spec, LockHolds
==============================================================================
