----------------------------- MODULE GateProofs -----------------------------
(***************************************************************************)
(* Theorems about the posture and the gate: any number of requests and of  *)
(* other callers, any writes of the passwd file, any interleaving of the   *)
(* two system calls of a read with them.  The argument follows a posture   *)
(* from the file to the answer: what a caller read is a view of the file   *)
(* at some moment since it arrived (ViewsFrom), what is held is one since  *)
(* the time it is dated by, so what is answered is at most PostureTTL old. *)
(***************************************************************************)
EXTENDS Gate, TLAPS

-----------------------------------------------------------------------------
(* The inductive invariant. *)

\* The postures the file has called for from time t on.
ViewsFrom(t) == {View(f) : f \in UNION {past[u] : u \in {v \in 1..now : v >= t}}}

\* The parsed file is one there was, no newer than the file, and the file if its stamp is.
ReaderInv ==
    /\ stamp <= cached.stamp
    /\ cached.stamp <= file.stamp
    /\ cached.stamp = file.stamp => cached.usable = file.usable
    /\ \A c \in Callers : caller[c].pc = "reading" => caller[c].want <= file.stamp

\* Postures are as old as they are dated.
PastInv ==
    /\ now >= 1 /\ file \in past[now]
    /\ at # 0 => held \in ViewsFrom(at)
    /\ \A c \in Callers :
          /\ caller[c].arrived <= now
          /\ caller[c].pc = "storing" => caller[c].posture \in ViewsFrom(caller[c].arrived)
          /\ caller[c].pc \in {"telling", "answered"} =>
                caller[c].posture \in CalledForSince(caller[c].arrived)

PostureInv == TypeOK /\ ReaderInv /\ PastInv

\* A decision is one on the posture its Guard was answered.
Decided ==
    \A r \in Requests : request[r].status # 0 =>
        /\ caller[Guard(r)].pc = "answered"
        /\ request[r].status = Decision(request[r].kind, caller[Guard(r)].posture)

GateInv ==
    /\ PostureInv
    /\ request \in [Requests -> [kind : Kinds, noStore : BOOLEAN, status : {0, 200, 401, 403}]]
    /\ Decided

-----------------------------------------------------------------------------
(* Views of the past. *)

LEMMA Types ==
    ASSUME TypeOK
    PROVE  /\ now \in Nat /\ file \in File /\ held \in Posture /\ at \in Nat /\ stamp \in Nat
           /\ cached \in File /\ readerMu \in Callers \cup {None}
           /\ caller \in [Callers -> Call]
           /\ \A t \in 1..now : past[t] \subseteq File
           /\ \A c \in Callers : caller[c].pc \in {"stat", "reading"} => readerMu = c
BY DEF TypeOK

\* A view of a file is a posture.
LEMMA ViewIsPosture ==
    ASSUME NEW f \in File
    PROVE  Parsed(f) \in Posture /\ View(f) \in Posture /\ Failed \in Posture
BY DEF File, Parsed, View, Failed, Posture

\* What the past called for, it has called for whatever comes after.
LEMMA PastGrows ==
    ASSUME now \in Nat, now' \in Nat, now <= now', \A u \in 1..now : past[u] \subseteq past'[u],
           NEW t \in Nat
    PROVE  /\ ViewsFrom(t) \subseteq ViewsFrom(t)'
           /\ CalledForSince(t) \subseteq CalledForSince(t)'
<1>1. \A u \in 1..now : u \in 1..now'
      OBVIOUS
<1>2. \A f : View(f)' = View(f)
      BY DEF View, Parsed, Failed
<1>3. ASSUME NEW p \in ViewsFrom(t) PROVE p \in ViewsFrom(t)'
  <2>1. PICK u \in 1..now : u >= t /\ \E f \in past[u] : p = View(f)
        BY DEF ViewsFrom
  <2>2. u \in 1..now' /\ \E f \in past'[u] : p = View(f)
        BY <1>1, <2>1
  <2> QED BY <2>1, <2>2 DEF ViewsFrom
<1>4. ASSUME NEW p \in CalledForSince(t) PROVE p \in CalledForSince(t)'
  <2>1. PICK u \in 1..now : t - u < PostureTTL /\ \E f \in past[u] : p = View(f)
        BY DEF CalledForSince
  <2>2. u \in 1..now' /\ \E f \in past'[u] : p = View(f)
        BY <1>1, <2>1
  <2> QED BY <2>1, <2>2 DEF CalledForSince
<1> QED BY <1>3, <1>4

\* The file's view now is one from any arrival on.
LEMMA SeesTheFile ==
    ASSUME PostureInv, NEW c \in Callers
    PROVE  View(file) \in ViewsFrom(caller[c].arrived)
<1>1. now \in 1..now /\ now >= caller[c].arrived /\ file \in past[now]
      BY Types DEF PostureInv, PastInv
<1> QED BY <1>1 DEF ViewsFrom

\* What was held since a time less than PostureTTL ago is recent enough.
LEMMA HeldIsRecent ==
    ASSUME now \in Nat, NEW s \in Nat, NEW t \in Nat, t - s < PostureTTL
    PROVE  ViewsFrom(s) \subseteq CalledForSince(t)
<1>1. \A v \in 1..now : v >= s => t - v < PostureTTL
      BY PosturesAssumption
<1> QED BY <1>1 DEF ViewsFrom, CalledForSince

-----------------------------------------------------------------------------
(* The steps of the clock and of the file. *)

LEMMA InitPosture == Init => PostureInv
<1> SUFFICES ASSUME Init PROVE PostureInv
    OBVIOUS
<1> DEFINE start == [pc |-> "idle", arrived |-> 0, want |-> 0, posture |-> Unresolved]
<1>1. /\ file \in File /\ file.stamp = 1 /\ Unresolved \in Posture
      BY DEF Init, File, Posture, Unresolved
<1>2. start \in Call
      BY <1>1 DEF Call
<1>3. \A c \in Callers : caller[c] = start
      BY DEF Init
<1>4. TypeOK
  <2>1. /\ now = 1 /\ DOMAIN past = 1..now /\ past[1] = {file}
        /\ caller \in [Callers -> Call]
        BY <1>2 DEF Init
  <2>2. \A t \in 1..now : t = 1
        BY <2>1
  <2> QED BY <1>1, <1>3, <2>1, <2>2 DEF Init, TypeOK
<1>5. ReaderInv
      BY <1>1, <1>3 DEF Init, ReaderInv
<1>6. PastInv
      BY <1>3 DEF Init, PastInv
<1> QED BY <1>4, <1>5, <1>6 DEF PostureInv

\* Nothing a caller or the store has seen becomes less recent as the past grows.
LEMMA PastInvGrows ==
    ASSUME PostureInv, now' \in Nat, now <= now', \A u \in 1..now : past[u] \subseteq past'[u],
           file' \in past'[now'], UNCHANGED <<postureVars, caller>>
    PROVE  PastInv'
<1>1. /\ now \in Nat /\ at \in Nat /\ now >= 1
      /\ \A c \in Callers : caller[c].arrived \in Nat
      BY Types DEF PostureInv, PastInv, Call
<1>2. \A t \in Nat : /\ ViewsFrom(t) \subseteq ViewsFrom(t)'
                     /\ CalledForSince(t) \subseteq CalledForSince(t)'
      BY <1>1, PastGrows
<1>3. at' # 0 => held' \in ViewsFrom(at)'
      BY <1>1, <1>2 DEF PostureInv, PastInv, postureVars
<1>4. ASSUME NEW c \in Callers
      PROVE  /\ caller'[c].arrived <= now'
             /\ caller'[c].pc = "storing" => caller'[c].posture \in ViewsFrom(caller[c].arrived)'
             /\ caller'[c].pc \in {"telling", "answered"} =>
                   caller'[c].posture \in CalledForSince(caller[c].arrived)'
  <2>1. /\ caller' = caller /\ caller[c].arrived <= now
        /\ caller[c].pc = "storing" => caller[c].posture \in ViewsFrom(caller[c].arrived)
        /\ caller[c].pc \in {"telling", "answered"} =>
              caller[c].posture \in CalledForSince(caller[c].arrived)
        BY DEF PostureInv, PastInv
  <2> QED BY <1>1, <1>2, <2>1
<1> QED BY <1>1, <1>3, <1>4 DEF PastInv

LEMMA TickPosture == ASSUME PostureInv, Tick PROVE PostureInv'
<1>1. /\ now \in Nat /\ now' = now + 1
      /\ past' = [t \in 1..now + 1 |-> IF t = now + 1 THEN {file} ELSE past[t]]
      /\ UNCHANGED <<file, postureVars, readerVars, caller>>
      BY Types DEF PostureInv, Tick
<1>2. /\ \A u \in 1..now : past'[u] = past[u]
      /\ past'[now'] = {file}
      BY <1>1
<1>3. PastInv'
      BY <1>1, <1>2, PastInvGrows
<1>4. TypeOK'
  <2>1. \A t \in 1..now' : past'[t] \subseteq File /\ past'[t] # {}
        BY <1>1, <1>2 DEF PostureInv, TypeOK
  <2> QED BY <1>1, <2>1 DEF PostureInv, TypeOK, postureVars, readerVars
<1>5. ReaderInv'
      BY <1>1 DEF PostureInv, ReaderInv, readerVars
<1> QED BY <1>3, <1>4, <1>5 DEF PostureInv

LEMMA FilePosture ==
    ASSUME PostureInv, Write \/ Toggle
    PROVE  PostureInv'
<1>1. /\ file \in File /\ file.stamp \in Nat \ {0} /\ now \in Nat /\ now >= 1 /\ cached \in File
      BY Types DEF PostureInv, PastInv, File
<1>2. /\ file' \in File /\ file.stamp <= file'.stamp
      /\ file'.stamp = file.stamp => file'.usable = file.usable
      /\ FileBecomes(file')
  <2>1. CASE Write
    <3>1. PICK u \in BOOLEAN :
             FileBecomes([stamp |-> file.stamp + 1, usable |-> u, readable |-> TRUE])
          BY <2>1 DEF Write
    <3>2. file' = [stamp |-> file.stamp + 1, usable |-> u, readable |-> TRUE]
          BY <3>1 DEF FileBecomes
    <3> QED BY <1>1, <3>1, <3>2 DEF File
  <2>2. CASE Toggle
    <3>1. FileBecomes([file EXCEPT !.readable = ~@])
          BY <2>2 DEF Toggle
    <3>2. file' = [file EXCEPT !.readable = ~file.readable]
          BY <3>1 DEF FileBecomes
    <3>3. FileBecomes(file')
          BY <3>1, <3>2
    <3>4. (~file.readable) \in BOOLEAN
          OBVIOUS
    <3>5. file' \in File /\ file'.stamp = file.stamp /\ file'.usable = file.usable
          BY <1>1, <3>2, <3>4 DEF File
    <3> QED BY <1>1, <3>3, <3>5
  <2> QED BY <2>1, <2>2
<1>3. /\ past' = [past EXCEPT ![now] = @ \cup {file'}]
      /\ UNCHANGED <<now, postureVars, readerVars, caller>>
      BY <1>2 DEF FileBecomes
<1>4. /\ DOMAIN past' = 1..now
      /\ \A u \in 1..now : past[u] \subseteq past'[u]
      /\ file' \in past'[now]
      /\ \A u \in 1..now : past'[u] \subseteq File /\ past'[u] # {}
      BY <1>1, <1>2, <1>3 DEF PostureInv, TypeOK
<1>5. PastInv'
      BY <1>1, <1>3, <1>4, PastInvGrows
<1>6. TypeOK'
      BY <1>2, <1>3, <1>4 DEF PostureInv, TypeOK, postureVars, readerVars
<1>7. ReaderInv'
  <2>1. /\ cached.stamp \in Nat /\ stamp \in Nat /\ file'.stamp \in Nat
        /\ \A c \in Callers : caller[c].want \in Nat
        BY <1>1, <1>2, Types DEF PostureInv, File, Call
  <2> QED BY <1>1, <1>2, <1>3, <2>1 DEF PostureInv, ReaderInv, readerVars
<1> QED BY <1>5, <1>6, <1>7 DEF PostureInv

-----------------------------------------------------------------------------
(* The steps of a call of Current. *)

\* A step of one caller is good if what it knows, what it stores and what it parsed is true.
LEMMA CallerKeeps ==
    ASSUME PostureInv, UNCHANGED <<now, fileVars>>, NEW c \in Callers,
           caller' \in [Callers -> Call], \A d \in Callers \ {c} : caller'[d] = caller[d],
           held' \in Posture, at' \in Nat, previous' \in {"live", "empty", "unreadable", "none"},
           stamp' \in Nat, cached' \in File, readerMu' \in Callers \cup {None},
           \A d \in Callers : caller'[d].pc \in {"stat", "reading"} => readerMu' = d,
           stamp' <= cached'.stamp, cached'.stamp <= file.stamp,
           cached'.stamp = file.stamp => cached'.usable = file.usable,
           caller'[c].pc = "reading" => caller'[c].want <= file.stamp,
           at' # 0 => held' \in ViewsFrom(at'),
           caller'[c].arrived <= now,
           caller'[c].pc = "storing" => caller'[c].posture \in ViewsFrom(caller'[c].arrived),
           caller'[c].pc \in {"telling", "answered"} =>
              caller'[c].posture \in CalledForSince(caller'[c].arrived)
    PROVE  PostureInv'
<1>1. now' = now /\ file' = file /\ past' = past
      BY DEF fileVars
<1>2. TypeOK'
      BY <1>1 DEF PostureInv, TypeOK
<1>3. ReaderInv'
      BY <1>1 DEF PostureInv, ReaderInv
<1>4. PastInv'
  <2>1. now' >= 1 /\ file' \in past'[now'] /\ (at' # 0 => (held \in ViewsFrom(at))')
        BY <1>1 DEF PostureInv, PastInv, ViewsFrom, View, Parsed, Failed
  <2>2. ASSUME NEW d \in Callers
        PROVE  /\ caller'[d].arrived <= now'
               /\ caller'[d].pc = "storing" => (caller[d].posture \in ViewsFrom(caller[d].arrived))'
               /\ caller'[d].pc \in {"telling", "answered"} =>
                     (caller[d].posture \in CalledForSince(caller[d].arrived))'
    <3>1. /\ caller'[d].arrived <= now
          /\ caller'[d].pc = "storing" => caller'[d].posture \in ViewsFrom(caller'[d].arrived)
          /\ caller'[d].pc \in {"telling", "answered"} =>
                caller'[d].posture \in CalledForSince(caller'[d].arrived)
          BY DEF PostureInv, PastInv
    <3> QED BY <1>1, <3>1 DEF ViewsFrom, CalledForSince, View, Parsed, Failed
  <2> QED BY <2>1, <2>2 DEF PastInv
<1> QED BY <1>2, <1>3, <1>4 DEF PostureInv

\* What a step of a caller reads.
LEMMA Reads ==
    ASSUME PostureInv, NEW c \in Callers
    PROVE  /\ now \in Nat /\ file \in File /\ held \in Posture /\ at \in Nat
           /\ previous \in {"live", "empty", "unreadable", "none"}
           /\ stamp \in Nat /\ cached \in File /\ readerMu \in Callers \cup {None}
           /\ \A d \in Callers : caller[d].pc \in {"stat", "reading"} => readerMu = d
           /\ caller \in [Callers -> Call] /\ caller[c] \in Call
           /\ stamp <= cached.stamp /\ cached.stamp <= file.stamp
           /\ cached.stamp = file.stamp => cached.usable = file.usable
           /\ caller[c].pc = "reading" => caller[c].want <= file.stamp
           /\ at # 0 => held \in ViewsFrom(at)
           /\ caller[c].arrived <= now /\ caller[c].arrived \in Nat
           /\ caller[c].posture \in Posture
           /\ caller[c].pc = "storing" => caller[c].posture \in ViewsFrom(caller[c].arrived)
           /\ caller[c].pc \in {"telling", "answered"} =>
                 caller[c].posture \in CalledForSince(caller[c].arrived)
BY DEF PostureInv, TypeOK, ReaderInv, PastInv, Call

LEMMA ArrivePosture ==
    ASSUME PostureInv, NEW c \in Callers, Arrive(c)
    PROVE  PostureInv'
<1> DEFINE r == [caller[c] EXCEPT !.pc = "looking", !.arrived = now]
<1>1. /\ caller' = [caller EXCEPT ![c] = r]
      /\ UNCHANGED <<now, fileVars, postureVars, readerVars>>
      BY Reads DEF Arrive
<1>2. r \in Call /\ r.pc = "looking" /\ r.arrived = now
      BY Reads DEF Call
<1> HIDE DEF r
<1>3. /\ caller' \in [Callers -> Call] /\ caller'[c] = r
      /\ \A d \in Callers \ {c} : caller'[d] = caller[d]
      BY <1>1, <1>2, Reads
<1>4. \A d \in Callers : caller'[d].pc \in {"stat", "reading"} => readerMu = d
      BY <1>2, <1>3, Reads
<1> QED BY <1>1, <1>2, <1>3, <1>4, Reads, CallerKeeps DEF postureVars, readerVars

LEMMA LookPosture ==
    ASSUME PostureInv, NEW c \in Callers, Look(c)
    PROVE  PostureInv'
<1>1. UNCHANGED <<now, fileVars, postureVars, readerVars>>
      BY DEF Look
<1>2. CASE HeldIsGood(c)
  <2> DEFINE r == [caller[c] EXCEPT !.pc = "answered", !.posture = held]
  <2>1. caller' = [caller EXCEPT ![c] = r]
        BY <1>2, Reads DEF Look
  <2>2. /\ r \in Call /\ r.pc = "answered" /\ r.arrived = caller[c].arrived
        /\ r.posture = held
        BY Reads DEF Call
  <2>3. held \in CalledForSince(caller[c].arrived)
        BY <1>2, Reads, HeldIsRecent DEF HeldIsGood
  <2> HIDE DEF r
  <2>4. /\ caller' \in [Callers -> Call] /\ caller'[c] = r
        /\ \A d \in Callers \ {c} : caller'[d] = caller[d]
        BY <2>1, <2>2, Reads
  <2>5. \A d \in Callers : caller'[d].pc \in {"stat", "reading"} => readerMu = d
        BY <2>2, <2>4, Reads
  <2> QED BY <1>1, <2>2, <2>3, <2>4, <2>5, Reads, CallerKeeps DEF postureVars, readerVars
<1>3. CASE ~HeldIsGood(c)
  <2> DEFINE r == [caller[c] EXCEPT !.pc = "waiting"]
  <2>1. caller' = [caller EXCEPT ![c] = r]
        BY <1>3, Reads DEF Look
  <2>2. r \in Call /\ r.pc = "waiting" /\ r.arrived = caller[c].arrived
        BY Reads DEF Call
  <2> HIDE DEF r
  <2>3. /\ caller' \in [Callers -> Call] /\ caller'[c] = r
        /\ \A d \in Callers \ {c} : caller'[d] = caller[d]
        BY <2>1, <2>2, Reads
  <2>4. \A d \in Callers : caller'[d].pc \in {"stat", "reading"} => readerMu = d
        BY <2>2, <2>3, Reads
  <2> QED BY <1>1, <2>2, <2>3, <2>4, Reads, CallerKeeps DEF postureVars, readerVars
<1> QED BY <1>2, <1>3

LEMMA LockPosture ==
    ASSUME PostureInv, NEW c \in Callers, LockReader(c)
    PROVE  PostureInv'
<1> DEFINE r == [caller[c] EXCEPT !.pc = "stat"]
<1>1. /\ caller' = [caller EXCEPT ![c] = r] /\ readerMu = None /\ readerMu' = c
      /\ UNCHANGED <<now, fileVars, postureVars, stamp, cached>>
      BY Reads DEF LockReader
<1>2. r \in Call /\ r.pc = "stat" /\ r.arrived = caller[c].arrived
      BY Reads DEF Call
<1> HIDE DEF r
<1>3. /\ caller' \in [Callers -> Call] /\ caller'[c] = r
      /\ \A d \in Callers \ {c} : caller'[d] = caller[d]
      BY <1>1, <1>2, Reads
<1>4. \A d \in Callers : caller'[d].pc \in {"stat", "reading"} => readerMu' = d
      BY <1>1, <1>3, Reads, PosturesAssumption
<1> QED BY <1>1, <1>2, <1>3, <1>4, Reads, CallerKeeps DEF postureVars

\* A read that returns with a view of the file as it is.
LEMMA ReturnPosture ==
    ASSUME PostureInv, NEW c \in Callers, caller[c].pc \in {"stat", "reading"},
           NEW p \in Posture, Returned(c, p), p = View(file),
           UNCHANGED <<now, fileVars, postureVars>>,
           stamp' \in Nat, cached' \in File,
           stamp' <= cached'.stamp, cached'.stamp <= file.stamp,
           cached'.stamp = file.stamp => cached'.usable = file.usable
    PROVE  PostureInv'
<1> DEFINE r == [caller[c] EXCEPT !.pc = "storing", !.posture = p, !.want = 0]
<1>1. caller' = [caller EXCEPT ![c] = r] /\ readerMu' = None
      BY Reads DEF Returned
<1>2. r \in Call /\ r.pc = "storing" /\ r.arrived = caller[c].arrived /\ r.posture = p
      BY Reads DEF Call
<1> HIDE DEF r
<1>3. /\ caller' \in [Callers -> Call] /\ caller'[c] = r
      /\ \A d \in Callers \ {c} : caller'[d] = caller[d]
      BY <1>1, <1>2, Reads
<1>4. ASSUME NEW d \in Callers, caller'[d].pc \in {"stat", "reading"} PROVE FALSE
  <2>1. d # c
        BY <1>2, <1>3, <1>4
  <2>2. readerMu = d /\ readerMu = c
        BY <1>3, <1>4, <2>1, Reads
  <2> QED BY <2>1, <2>2
<1>5. r.posture \in ViewsFrom(caller[c].arrived)
      BY <1>2, SeesTheFile
<1> QED BY <1>1, <1>2, <1>3, <1>4, <1>5, Reads, CallerKeeps DEF postureVars

LEMMA StatPosture ==
    ASSUME PostureInv, NEW c \in Callers, Stat(c)
    PROVE  PostureInv'
<1>1. /\ caller[c].pc = "stat" /\ UNCHANGED <<now, fileVars, postureVars, stamp, cached>>
      BY DEF Stat
<1>2. CASE ~file.readable
  <2>1. Returned(c, Failed) /\ Failed = View(file) /\ Failed \in Posture
        BY <1>2, Reads, ViewIsPosture DEF Stat, View
  <2> QED BY <1>1, <2>1, Reads, ReturnPosture
<1>3. CASE file.readable /\ stamp = file.stamp
  <2>1. Returned(c, Parsed(cached)) /\ Parsed(cached) \in Posture
        BY <1>3, Reads, ViewIsPosture DEF Stat
  <2>2. cached.stamp = file.stamp
        BY <1>3, Reads DEF File
  <2>3. Parsed(cached) = View(file)
        BY <1>3, <2>2, Reads DEF Parsed, View
  <2> QED BY <1>1, <2>1, <2>3, Reads, ReturnPosture
<1>4. CASE file.readable /\ stamp # file.stamp
  <2> DEFINE r == [caller[c] EXCEPT !.pc = "reading", !.want = file.stamp]
  <2>1. caller' = [caller EXCEPT ![c] = r] /\ readerMu' = readerMu
        BY <1>4, Reads DEF Stat
  <2>2. /\ r \in Call /\ r.pc = "reading" /\ r.arrived = caller[c].arrived
        /\ r.want = file.stamp /\ file.stamp \in Nat
        BY Reads DEF Call, File
  <2> HIDE DEF r
  <2>3. /\ caller' \in [Callers -> Call] /\ caller'[c] = r
        /\ \A d \in Callers \ {c} : caller'[d] = caller[d]
        BY <2>1, <2>2, Reads
  <2>4. \A d \in Callers : caller'[d].pc \in {"stat", "reading"} => readerMu' = d
        BY <1>1, <2>1, <2>3, Reads
  <2> QED BY <1>1, <2>1, <2>2, <2>3, <2>4, Reads, CallerKeeps DEF postureVars
<1> QED BY <1>2, <1>3, <1>4

LEMMA ReadPosture ==
    ASSUME PostureInv, NEW c \in Callers, ReadFile(c)
    PROVE  PostureInv'
<1>1. caller[c].pc = "reading" /\ UNCHANGED <<now, fileVars, postureVars>>
      BY DEF ReadFile
<1>2. CASE file.readable
  <2>1. /\ cached' = file /\ stamp' = caller[c].want /\ Returned(c, Parsed(file))
        /\ Parsed(file) = View(file) /\ Parsed(file) \in Posture
        BY <1>2, Reads, ViewIsPosture DEF ReadFile, View
  <2>2. stamp' \in Nat /\ stamp' <= file.stamp /\ file.stamp \in Nat
        BY <1>1, <2>1, Reads DEF Call, File
  <2> QED BY <1>1, <2>1, <2>2, Reads, ReturnPosture
<1>3. CASE ~file.readable
  <2>1. /\ cached' = cached /\ stamp' = stamp /\ Returned(c, Failed)
        /\ Failed = View(file) /\ Failed \in Posture
        BY <1>3, Reads, ViewIsPosture DEF ReadFile, View
  <2> QED BY <1>1, <2>1, Reads, ReturnPosture
<1> QED BY <1>2, <1>3

\* A slow resolution stored over a newer one is dated by its own arrival.
LEMMA StorePosture ==
    ASSUME PostureInv, NEW c \in Callers, Store(c)
    PROVE  PostureInv'
<1> DEFINE r == [caller[c] EXCEPT !.pc = IF previous' # previous THEN "telling" ELSE "answered"]
<1>1. /\ caller[c].pc = "storing"
      /\ held' = caller[c].posture /\ at' = caller[c].arrived
      /\ previous' = caller[c].posture.passwd
      /\ caller' = [caller EXCEPT ![c] = r]
      /\ UNCHANGED <<now, fileVars, readerVars>>
      BY Reads DEF Store
<1>2. /\ r \in Call /\ r.pc \in {"telling", "answered"} /\ r.arrived = caller[c].arrived
      /\ r.posture = caller[c].posture
      BY Reads DEF Call
<1> HIDE DEF r
<1>3. /\ caller' \in [Callers -> Call] /\ caller'[c] = r
      /\ \A d \in Callers \ {c} : caller'[d] = caller[d]
      BY <1>1, <1>2, Reads
<1>4. \A d \in Callers : caller'[d].pc \in {"stat", "reading"} => readerMu = d
      BY <1>2, <1>3, Reads
<1>5. previous' \in {"live", "empty", "unreadable", "none"}
      BY <1>1, Reads DEF Posture
<1>6. /\ caller[c].posture \in ViewsFrom(caller[c].arrived)
      /\ caller[c].posture \in CalledForSince(caller[c].arrived)
  <2>1. caller[c].arrived - caller[c].arrived < PostureTTL
        BY Reads, PosturesAssumption
  <2> QED BY <1>1, <2>1, Reads, HeldIsRecent
<1> QED BY <1>1, <1>2, <1>3, <1>4, <1>5, <1>6, Reads, CallerKeeps DEF readerVars

LEMMA TellPosture ==
    ASSUME PostureInv, NEW c \in Callers, Tell(c)
    PROVE  PostureInv'
<1> DEFINE r == [caller[c] EXCEPT !.pc = "answered"]
<1>1. /\ caller' = [caller EXCEPT ![c] = r] /\ caller[c].pc = "telling"
      /\ UNCHANGED <<now, fileVars, postureVars, readerVars>>
      BY Reads DEF Tell
<1>2. /\ r \in Call /\ r.pc = "answered" /\ r.arrived = caller[c].arrived
      /\ r.posture = caller[c].posture
      BY Reads DEF Call
<1> HIDE DEF r
<1>3. /\ caller' \in [Callers -> Call] /\ caller'[c] = r
      /\ \A d \in Callers \ {c} : caller'[d] = caller[d]
      BY <1>1, <1>2, Reads
<1>4. \A d \in Callers : caller'[d].pc \in {"stat", "reading"} => readerMu = d
      BY <1>2, <1>3, Reads
<1> QED BY <1>1, <1>2, <1>3, <1>4, Reads, CallerKeeps DEF postureVars, readerVars

LEMMA CallStepPosture ==
    ASSUME PostureInv, NEW c \in Callers, CallStep(c)
    PROVE  PostureInv'
BY LookPosture, LockPosture, StatPosture, ReadPosture, StorePosture, TellPosture DEF CallStep

LEMMA EnvironmentPosture ==
    ASSUME PostureInv, Environment
    PROVE  PostureInv'
BY TickPosture, FilePosture DEF Environment

-----------------------------------------------------------------------------
(* The requests. *)

\* Nobody who has been answered is asked again or answered anew.
LEMMA AnsweredStays ==
    ASSUME PostureInv,
           \/ Environment
           \/ \E c \in Callers : CallStep(c) \/ Arrive(c)
           \/ UNCHANGED vars
    PROVE  \A d \in Callers : caller[d].pc = "answered" => caller'[d] = caller[d]
<1> SUFFICES ASSUME NEW d \in Callers, caller[d].pc = "answered"
             PROVE  caller'[d] = caller[d]
    OBVIOUS
<1>1. CASE Environment
      BY <1>1 DEF Environment, Tick, Write, Toggle, FileBecomes
<1>2. CASE UNCHANGED vars
      BY <1>2 DEF vars
<1>3. ASSUME NEW c \in Callers, CallStep(c) \/ Arrive(c)
      PROVE  caller'[d] = caller[d]
  <2>1. caller[c].pc # "answered" /\ c # d
        BY <1>3 DEF CallStep, Arrive, Look, LockReader, Stat, ReadFile, Store, Tell
  <2>2. caller \in [Callers -> Call]
        BY Types DEF PostureInv
  <2>3. CASE Arrive(c)
        BY <2>1, <2>2, <2>3 DEF Arrive
  <2>4. CASE Look(c)
        BY <2>1, <2>2, <2>4 DEF Look
  <2>5. CASE LockReader(c)
        BY <2>1, <2>2, <2>5 DEF LockReader
  <2>6. CASE Stat(c)
        BY <2>1, <2>2, <2>6 DEF Stat, Returned
  <2>7. CASE ReadFile(c)
        BY <2>1, <2>2, <2>7 DEF ReadFile, Returned
  <2>8. CASE Store(c)
        BY <2>1, <2>2, <2>8 DEF Store
  <2>9. CASE Tell(c)
        BY <2>1, <2>2, <2>9 DEF Tell
  <2> QED BY <1>3, <2>3, <2>4, <2>5, <2>6, <2>7, <2>8, <2>9 DEF CallStep
<1> QED BY <1>1, <1>2, <1>3

LEMMA HooksAreCallers == \A r \in Requests : Headers(r) \in Callers /\ Guard(r) \in Callers
BY GateAssumption DEF Headers, Guard

\* What every step but a decision does to the requests and to the posture under them.
LEMMA StepPosture ==
    ASSUME PostureInv, [GateNext]_gateVars
    PROVE  /\ PostureInv'
           /\ \A d \in Callers : caller[d].pc = "answered" => caller'[d] = caller[d]
<1>1. CASE \/ Environment
           \/ \E c \in Callers : CallStep(c) \/ Arrive(c)
           \/ UNCHANGED vars
  <2>1. CASE UNCHANGED vars
        BY <2>1 DEF vars, fileVars, postureVars, readerVars, PostureInv, TypeOK, ReaderInv,
                    PastInv, ViewsFrom, CalledForSince, View, Parsed, Failed
  <2> QED BY <1>1, <2>1, EnvironmentPosture, CallStepPosture, ArrivePosture, AnsweredStays
<1>2. ASSUME NEW r \in Requests, SetHeaders(r) \/ Decide(r)
      PROVE  (\E c \in Callers : Arrive(c)) \/ UNCHANGED vars
      BY <1>2, HooksAreCallers DEF SetHeaders, Decide
<1>3. \A c \in Others : c \in Callers
      BY DEF Others
<1> QED BY <1>1, <1>2, <1>3, HooksAreCallers DEF GateNext, AllServed, gateVars

LEMMA InitGate == GateInit => GateInv
<1> SUFFICES ASSUME GateInit PROVE GateInv
    OBVIOUS
<1>1. PostureInv
      BY InitPosture DEF GateInit
<1> DEFINE Fresh == [kind : Kinds, noStore : {FALSE}, status : {0}]
           Answer == [kind : Kinds, noStore : BOOLEAN, status : {0, 200, 401, 403}]
<1>2. request \in [Requests -> Fresh]
      BY DEF GateInit
<1>3. request \in [Requests -> Answer]
  <2>1. Fresh \subseteq Answer
        OBVIOUS
  <2> HIDE DEF Fresh, Answer
  <2> QED BY <1>2, <2>1
<1>4. Decided
      BY <1>2 DEF Decided
<1> QED BY <1>1, <1>3, <1>4 DEF GateInv

LEMMA StepGate ==
    ASSUME GateInv, [GateNext]_gateVars
    PROVE  GateInv'
<1> DEFINE Answer == [kind : Kinds, noStore : BOOLEAN, status : {0, 200, 401, 403}]
<1>1. PostureInv' /\ request \in [Requests -> Answer]
      BY StepPosture DEF GateInv
<1>2. \A r \in Requests : caller[Guard(r)].pc = "answered" =>
         caller'[Guard(r)] = caller[Guard(r)]
      BY StepPosture, HooksAreCallers DEF GateInv
<1>3. \A k, p : Decision(k, p)' = Decision(k, p) /\ Decision(k, p) \in {0, 200, 401, 403}
      BY DEF Decision, Enforced
<1>4. \* What was decided stays decided, on the posture it was decided on.
      ASSUME NEW r \in Requests, request[r].status # 0,
             request'[r].kind = request[r].kind, request'[r].status = request[r].status
      PROVE  /\ caller'[Guard(r)].pc = "answered"
             /\ request'[r].status = Decision(request'[r].kind, caller'[Guard(r)].posture)
      BY <1>2, <1>4 DEF GateInv, Decided
<1>5. CASE UNCHANGED request
  <2>1. Decided'
        BY <1>4, <1>5 DEF Decided, Guard, Decision, Enforced
  <2> QED BY <1>1, <1>5, <2>1 DEF GateInv
<1>6. ASSUME NEW r \in Requests, SetHeaders(r)
      PROVE  GateInv'
  <2> DEFINE a == [request[r] EXCEPT !.noStore = Enforced(caller[Headers(r)].posture)]
  <2>1. request' = [request EXCEPT ![r] = a]
        BY <1>1, <1>6 DEF SetHeaders
  <2>2. Enforced(caller[Headers(r)].posture) \in BOOLEAN
        BY PosturesAssumption DEF Enforced
  <2>3. a \in Answer /\ a.kind = request[r].kind /\ a.status = request[r].status
        BY <1>1, <2>2
  <2> HIDE DEF a
  <2>4. request' \in [Requests -> Answer]
        BY <1>1, <2>1, <2>3
  <2>5. ASSUME NEW q \in Requests
        PROVE  request'[q].kind = request[q].kind /\ request'[q].status = request[q].status
        BY <1>1, <2>1, <2>3
  <2>6. Decided'
        BY <1>4, <2>5 DEF Decided, Guard, Decision, Enforced
  <2> QED BY <1>1, <2>4, <2>6 DEF GateInv
<1>7. ASSUME NEW r \in Requests, Decide(r)
      PROVE  GateInv'
  <2> DEFINE d == Decision(request[r].kind, caller[Guard(r)].posture)
             a == [request[r] EXCEPT !.status = d]
  <2>1. /\ request' = [request EXCEPT ![r] = a] /\ caller[Guard(r)].pc = "answered"
        BY <1>1, <1>7 DEF Decide
  <2>2. a \in Answer /\ a.kind = request[r].kind /\ a.status = d
    <3>1. d \in {0, 200, 401, 403}
          BY <1>3
    <3> HIDE DEF d
    <3> QED BY <1>1, <3>1
  <2> HIDE DEF a
  <2>3. request' \in [Requests -> Answer]
        BY <1>1, <2>1, <2>2
  <2>4. ASSUME NEW q \in Requests, request'[q].status # 0
        PROVE  /\ caller'[Guard(q)].pc = "answered"
               /\ request'[q].status = Decision(request'[q].kind, caller'[Guard(q)].posture)
    <3>1. CASE q = r
      <4>1. request'[q] = a
            BY <1>1, <2>1, <3>1
      <4> QED BY <1>2, <2>1, <2>2, <3>1, <4>1
    <3>2. CASE q # r
      <4>1. request'[q] = request[q]
            BY <1>1, <2>1, <3>2
      <4> QED BY <1>4, <2>4, <4>1
    <3> QED BY <3>1, <3>2
  <2>5. Decided'
        BY <2>4 DEF Decided, Guard, Decision, Enforced
  <2> QED BY <1>1, <2>3, <2>5 DEF GateInv
<1> QED BY <1>5, <1>6, <1>7 DEF GateNext, AllServed, gateVars

-----------------------------------------------------------------------------
(* What follows of every run. *)

\* Whatever writes, requests and handlers interleave, a posture is as old as it is dated
\* and a decision is one on the posture its Guard was answered (posture.go, gate.go).
THEOREM GateInvariant == GateSpec => []GateInv
<1>1. GateInit => GateInv
      BY InitGate
<1>2. GateInv /\ [GateNext]_gateVars => GateInv'
      BY StepGate
<1> QED BY <1>1, <1>2, PTL DEF GateSpec

\* The types of the posture's state, and one reader at a time between Stat and ReadFile.
THEOREM PostureTypes == GateSpec => []TypeOK
<1>1. GateInv => TypeOK
      BY DEF GateInv, PostureInv
<1> QED BY <1>1, GateInvariant, PTL

\* Current never answers with a posture the file stopped calling for PostureTTL or longer
\* before the call.
THEOREM AnswersAreRecent == GateSpec => []PostureIsRecent
<1>1. GateInv => PostureIsRecent
      BY DEF GateInv, PostureInv, PastInv, PostureIsRecent
<1> QED BY <1>1, GateInvariant, PTL

\* The reader's cache never answers for a file it was not parsed from.
THEOREM TableIsTheFile == GateSpec => []CacheIsTheFile
<1>1. GateInv => CacheIsTheFile
  <2> SUFFICES ASSUME GateInv, file.stamp = stamp PROVE cached.stamp = stamp
      BY DEF CacheIsTheFile
  <2>1. /\ stamp \in Nat /\ cached.stamp \in Nat
        /\ stamp <= cached.stamp /\ cached.stamp <= file.stamp
        BY Types DEF GateInv, PostureInv, ReaderInv, File
  <2> QED BY <2>1
<1> QED BY <1>1, GateInvariant, PTL

\* Guard lets a request without a session through to the data only on a posture without a
\* method that the file called for less than PostureTTL before.
THEOREM GateHolds == GateSpec => []DataIsGated
<1>1. GateInv => DataIsGated
  <2> SUFFICES ASSUME GateInv, NEW r \in Requests, request[r].status = 200,
                      \/ request[r].kind.crossPost
                      \/ request[r].kind.gated /\ ~request[r].kind.signedIn
               PROVE  \E p \in CalledForSince(caller[Guard(r)].arrived) : ~Enforced(p)
      BY DEF DataIsGated
  <2> DEFINE p == caller[Guard(r)].posture
  <2>1. caller[Guard(r)].pc = "answered" /\ 200 = Decision(request[r].kind, p)
        BY DEF GateInv, Decided
  <2>2. ~Enforced(p)
        BY <2>1 DEF Decision
  <2>3. p \in CalledForSince(caller[Guard(r)].arrived)
        BY <2>1, HooksAreCallers DEF GateInv, PostureInv, PastInv
  <2> QED BY <2>2, <2>3
<1> QED BY <1>1, GateInvariant, PTL
==============================================================================
