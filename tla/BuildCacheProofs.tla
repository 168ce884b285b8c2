-------------------------- MODULE BuildCacheProofs --------------------------
(***************************************************************************)
(* Theorems about the build cache, for any number of requests, any set of  *)
(* overrides, any TTL and any length of run: its invariants, and that it   *)
(* does what ScanService says: the initial states map to one, and each     *)
(* step to a step or a stutter.  Then about its listener: it runs the      *)
(* cache as it is, so what is proved of the cache holds under it too; and  *)
(* however late it reads what the cache holds, it catches up, and answers  *)
(* everybody who rescans.                                                  *)
(***************************************************************************)
EXTENDS ScanLog, SequenceTheorems, TLAPS

-----------------------------------------------------------------------------
(* Typing. *)

LEMMA InitType == Init => TypeOK
BY ConstantsAssumption DEF Init, TypeOK, CallRecord, BuildRecord, DrainRecord,
   Zero, Override, Build, CallPC, DrainPC, Notice

LEMMA FunctionTypes ==
    ASSUME TypeOK
    PROVE  /\ call \in [Requests -> CallRecord]
           /\ build \in [Requests -> BuildRecord]
           /\ drain \in [Requests -> DrainRecord]
           /\ now \in Nat
           /\ current \in Build
BY DEF TypeOK

LEMMA ArriveType ==
    ASSUME TypeOK, NEW r \in Requests, NEW ask \in Asks, Arrive(r, ask)
    PROVE  TypeOK'
<1>1. ask.forced \in BOOLEAN /\ ask.probe \in Override
      BY ConstantsAssumption DEF Override
<1>2. "locking" \in CallPC
      BY DEF CallPC
<1>3. call \in [Requests -> CallRecord] /\ now \in Nat
      BY DEF TypeOK
<1>4. call' = [call EXCEPT ![r] = [call[r] EXCEPT !.pc = "locking",
                                  !.forced = ask.forced, !.probe = ask.probe,
                                  !.arrived = now]]
      BY <1>3 DEF Arrive
<1>5. [call[r] EXCEPT !.pc = "locking", !.forced = ask.forced, !.probe = ask.probe,
                      !.arrived = now] \in CallRecord
      BY <1>1, <1>2, <1>3 DEF CallRecord
<1>6. call' \in [Requests -> CallRecord]
      BY <1>3, <1>4, <1>5
<1> QED BY <1>6 DEF Arrive, TypeOK, cacheVars, listenerVars

LEMMA JoinType ==
    ASSUME TypeOK, NEW r \in Requests, NEW b \in Requests, Join(r, b)
    PROVE  TypeOK'
<1>1. "waiting" \in CallPC /\ b \in Build
      BY DEF CallPC, Build
<1>2. call' \in [Requests -> CallRecord]
      BY <1>1, FunctionTypes DEF Join, CallRecord
<1>3. build' \in [Requests -> BuildRecord]
      BY FunctionTypes DEF Join, BuildRecord, CallRecord
<1> QED BY <1>2, <1>3 DEF Join, TypeOK, cacheVars, listenerVars

\* Which build a joining request joins.
LEMMA JoinsABuild ==
    ASSUME TypeOK, NEW r \in Requests, JoinQueued(r) \/ JoinRunning(r)
    PROVE  /\ call[r].pc = "locking"
           /\ \E b \in Requests :
                 /\ Join(r, b)
                 /\ Suits(call[r].probe, build[b].probe)
                 /\ \/ \E i \in DOMAIN queued : b = queued[i]
                    \/ /\ b = running
                       /\ call[r].forced => build[b].startedAt >= call[r].arrived
<1>1. CASE JoinQueued(r)
  <2>1. PICK i \in SuitingInQueue(r) : Join(r, queued[i])
        BY <1>1 DEF JoinQueued
  <2>2. /\ i \in DOMAIN queued
        /\ queued[i] \in Requests
        /\ Suits(call[r].probe, build[queued[i]].probe)
        BY <2>1 DEF SuitingInQueue, TypeOK
  <2> QED BY <1>1, <2>1, <2>2 DEF JoinQueued
<1>2. CASE JoinRunning(r)
      BY <1>2 DEF JoinRunning, MayJoinRunning, TypeOK, Build
<1> QED BY <1>1, <1>2

LEMMA LookupType ==
    ASSUME TypeOK, NEW r \in Requests, Lookup(r)
    PROVE  TypeOK'
<1>1. /\ {"waiting", "answered"} \subseteq CallPC
      /\ "begin" \in DrainPC
      /\ r \in Build
      BY DEF CallPC, DrainPC, Build
<1>2. CASE JoinQueued(r) \/ JoinRunning(r)
      BY <1>2, JoinsABuild, JoinType
<1>3. CASE ServeHeld(r)
  <2>1. call' \in [Requests -> CallRecord]
        BY <1>1, <1>3, FunctionTypes DEF ServeHeld, CallRecord
  <2> QED BY <1>3, <2>1 DEF ServeHeld, TypeOK, cacheVars, listenerVars
<1>4. CASE QueueBuild(r)
  <2>1. call' \in [Requests -> CallRecord]
        BY <1>1, <1>4, FunctionTypes DEF QueueBuild, CallRecord
  <2>2. build' \in [Requests -> BuildRecord]
    <3> DEFINE made == [build[r] EXCEPT !.forced = call[r].forced,
                                        !.probe = call[r].probe]
    <3>1. build' = [build EXCEPT ![r] = made]
          BY <1>4, FunctionTypes DEF QueueBuild
    <3>2. made \in BuildRecord
          BY FunctionTypes DEF CallRecord, BuildRecord
    <3> HIDE DEF made
    <3> QED BY <3>1, <3>2, FunctionTypes
  <2> QED BY <1>4, <2>1, <2>2 DEF QueueBuild, TypeOK, listenerVars
<1>5. CASE StartBuild(r)
  <2>1. call' \in [Requests -> CallRecord]
        BY <1>1, <1>5, FunctionTypes DEF StartBuild, CallRecord
  <2>2. build' \in [Requests -> BuildRecord]
    <3> DEFINE made == [build[r] EXCEPT !.forced = call[r].forced,
                                        !.probe = call[r].probe,
                                        !.startedAt = call[r].arrived]
    <3>1. build' = [build EXCEPT ![r] = made]
          BY <1>5, FunctionTypes DEF StartBuild
    <3>2. made \in BuildRecord
          BY FunctionTypes DEF CallRecord, BuildRecord
    <3> HIDE DEF made
    <3> QED BY <3>1, <3>2, FunctionTypes
  <2>3. drain' \in [Requests -> DrainRecord]
        BY <1>1, <1>5, FunctionTypes DEF StartBuild, DrainRecord
  <2> QED BY <1>1, <1>5, <2>1, <2>2, <2>3 DEF StartBuild, TypeOK, listenerVars
<1> QED BY <1>2, <1>3, <1>4, <1>5 DEF Lookup

LEMMA ReplyType ==
    ASSUME TypeOK, NEW r \in Requests, Answer(r) \/ Cancel(r)
    PROVE  TypeOK'
<1>1. "answered" \in CallPC /\ "cancelled" \in CallPC
      BY DEF CallPC
<1>2. call' \in [Requests -> CallRecord]
  <2>1. CASE Answer(r)
        BY <1>1, <2>1, FunctionTypes DEF Answer, CallRecord
  <2>2. CASE Cancel(r)
    <3> DEFINE left == [call[r] EXCEPT !.pc = "cancelled", !.answer = current]
    <3>1. call' = [call EXCEPT ![r] = left]
          BY <2>2, FunctionTypes DEF Cancel
    <3>2. left \in CallRecord
          BY <1>1, FunctionTypes DEF CallRecord
    <3> HIDE DEF left
    <3> QED BY <3>1, <3>2, FunctionTypes
  <2> QED BY <2>1, <2>2
<1> QED BY <1>2 DEF Answer, Cancel, TypeOK, cacheVars, listenerVars

LEMMA AdvanceType ==
    ASSUME TypeOK, NEW d \in Requests, Advance(d)
    PROVE  drain' \in [Requests -> DrainRecord]
<1>1. "ended" \in DrainPC /\ "begin" \in DrainPC /\ None \in Build
      BY DEF DrainPC, Build
<1> DEFINE after == [drain[d] EXCEPT !.pc = IF drain[d].next = None
                                            THEN "ended" ELSE "begin",
                                     !.work = drain[d].next, !.next = None]
<1>2. drain' = [drain EXCEPT ![d] = after]
      BY FunctionTypes DEF Advance
<1>3. after \in DrainRecord
      BY <1>1, FunctionTypes DEF DrainRecord
<1> HIDE DEF after
<1> QED BY <1>2, <1>3, FunctionTypes

LEMMA PublishType ==
    ASSUME TypeOK, NEW d \in Requests, Publish(d), drain[d].work # None
    PROVE  TypeOK'
<1> DEFINE b == drain[d].work
<1>1. b \in Requests
      BY DEF TypeOK, DrainRecord, Build
<1>2. NextBuild \in Build
      BY DEF NextBuild, TypeOK, Build
<1>3. build' \in [Requests -> BuildRecord]
  <2>1. \A r \in Requests : /\ [build[r] EXCEPT !.ended = now] \in BuildRecord
                            /\ [build[r] EXCEPT !.startedAt = now] \in BuildRecord
                            /\ build[r] \in BuildRecord
        BY DEF TypeOK, BuildRecord
  <2> QED BY <2>1 DEF Publish
<1>4. NoticeOf(b) \in Notice
      BY <1>1 DEF NoticeOf, Notice, TypeOK, BuildRecord
<1>5. pending' \in Seq(Notice)
      BY <1>4 DEF Publish, TypeOK
<1>6. drain' \in [Requests -> DrainRecord]
  <2>1. "closing" \in DrainPC
        BY DEF DrainPC
  <2> QED BY <1>2, <2>1 DEF Publish, TypeOK, DrainRecord
<1>7. current' \in Build /\ at' \in Nat /\ heldProbe' \in Override
      BY <1>1 DEF Publish, TypeOK, BuildRecord, Build
<1>8. queued' \in Seq(Requests) /\ running' \in Build
      BY <1>2 DEF Publish, TypeOK
<1> QED BY <1>3, <1>5, <1>6, <1>7, <1>8 DEF Publish, TypeOK

LEMMA DrainType ==
    ASSUME TypeOK, NEW d \in Requests,
           drain[d].pc = "scanning" => drain[d].work # None,
           DrainStep(d) \/ Tell(d)
    PROVE  TypeOK'
<1>1. /\ {"scanning", "notify", "take", "telling", "release"} \subseteq DrainPC
      /\ None \in Build
      /\ d \in Build
      BY DEF DrainPC, Build
<1>2. CASE BeginScan(d)
  <2>1. build' \in [Requests -> BuildRecord]
        BY <1>2, FunctionTypes DEF BeginScan, BuildRecord
  <2>2. drain' \in [Requests -> DrainRecord]
        BY <1>1, <1>2, FunctionTypes DEF BeginScan, DrainRecord
  <2> QED BY <1>2, <2>1, <2>2 DEF BeginScan, TypeOK, cacheVars, listenerVars
<1>3. CASE Publish(d)
  <2>1. drain[d].work # None
        BY <1>3 DEF Publish
  <2> QED BY <1>3, <2>1, PublishType
<1>4. CASE CloseDone(d)
  <2>1. build' \in [Requests -> BuildRecord]
        BY <1>4, FunctionTypes DEF CloseDone, BuildRecord
  <2>2. drain' \in [Requests -> DrainRecord]
    <3>1. CASE HasListener
      <4> DEFINE after == [drain[d] EXCEPT !.pc = "notify"]
      <4>1. drain' = [drain EXCEPT ![d] = after]
            BY <1>4, <3>1, FunctionTypes DEF CloseDone
      <4>2. after \in DrainRecord
            BY <1>1, FunctionTypes DEF DrainRecord
      <4> HIDE DEF after
      <4> QED BY <4>1, <4>2, FunctionTypes
    <3>2. CASE ~HasListener
          BY <1>4, <3>2, AdvanceType DEF CloseDone
    <3> QED BY <3>1, <3>2
  <2> QED BY <1>4, <2>1, <2>2 DEF CloseDone, TypeOK, cacheVars, listenerVars
<1>5. CASE LockNotify(d)
  <2>1. drain' \in [Requests -> DrainRecord]
        BY <1>1, <1>5, FunctionTypes DEF LockNotify, DrainRecord
  <2> QED BY <1>1, <1>5, <2>1 DEF LockNotify, TypeOK, cacheVars
<1>6. CASE TakeNotice(d)
  <2>1. Head(pending) \in Notice /\ pending' \in Seq(Notice)
        BY <1>6 DEF TakeNotice, TypeOK
  <2>2. <<Head(pending)>> \in Seq(Notice)
        BY <2>1
  <2>3. drain' \in [Requests -> DrainRecord]
        BY <1>1, <1>6, <2>2, FunctionTypes DEF TakeNotice, DrainRecord
  <2> QED BY <1>6, <2>1, <2>3 DEF TakeNotice, TypeOK, cacheVars
<1>7. CASE Tell(d)
  <2>1. drain[d].hand \in Seq(Notice)
        BY DEF TypeOK, DrainRecord
  <2>2. told' \in Seq(Notice)
        BY <1>7, <2>1 DEF Tell, TypeOK
  <2>3. <<>> \in Seq(Notice)
        OBVIOUS
  <2>4. drain' \in [Requests -> DrainRecord]
    <3> DEFINE after == [drain[d] EXCEPT !.pc = "take", !.hand = <<>>]
    <3>1. drain' = [drain EXCEPT ![d] = after]
          BY <1>7, FunctionTypes DEF Tell
    <3>2. after \in DrainRecord
          BY <1>1, <2>3, FunctionTypes DEF DrainRecord
    <3> HIDE DEF after
    <3> QED BY <3>1, <3>2, FunctionTypes
  <2> QED BY <1>7, <2>2, <2>4 DEF Tell, TypeOK, cacheVars
<1>8. CASE NothingOwed(d)
  <2>1. drain' \in [Requests -> DrainRecord]
        BY <1>1, <1>8, FunctionTypes DEF NothingOwed, DrainRecord
  <2> QED BY <1>8, <2>1 DEF NothingOwed, TypeOK, cacheVars, listenerVars
<1>9. CASE UnlockNotify(d)
  <2>1. drain' \in [Requests -> DrainRecord]
        BY <1>9, AdvanceType DEF UnlockNotify
  <2> QED BY <1>1, <1>9, <2>1 DEF UnlockNotify, TypeOK, cacheVars
<1> QED BY <1>2, <1>3, <1>4, <1>5, <1>6, <1>7, <1>8, <1>9 DEF DrainStep

-----------------------------------------------------------------------------
(* The inductive invariant, action by action. *)

LEMMA InitIInv == Init => IInv
<1> SUFFICES ASSUME Init PROVE IInv
    OBVIOUS
<1>1. ChainInv
      BY DEF Init, ChainInv, Charge
<1>2. BuildInv
      BY ConstantsAssumption DEF Init, BuildInv, Zero
<1>3. HeldInv /\ CallInv
      BY DEF Init, HeldInv, CallInv
<1> QED BY <1>1, <1>2, <1>3, InitType DEF IInv, Init

LEMMA TickIInv ==
    ASSUME IInv, Tick, TypeOK'
    PROVE  IInv'
<1>1. /\ now' = now + 1 /\ now \in Nat
      /\ UNCHANGED <<call, build, running, queued, current, at, heldProbe, drain>>
      BY DEF Tick, IInv, TypeOK, cacheVars
<1>2. ChainInv'
      BY <1>1 DEF IInv, ChainInv, Charge
<1>3. BuildInv'
  <2>1. \A b \in Requests : build[b].startedAt \in Nat /\ build[b].ended \in Nat
        BY DEF IInv, TypeOK, BuildRecord
  <2> QED BY <1>1, <2>1 DEF IInv, BuildInv
<1>4. HeldInv'
      BY <1>1 DEF IInv, HeldInv
<1>5. CallInv'
  <2>1. \A r \in Requests : call[r].arrived \in Nat
        BY DEF IInv, TypeOK, CallRecord
  <2> QED BY <1>1, <2>1 DEF IInv, CallInv, Suits
<1> QED BY <1>1, <1>2, <1>3, <1>4, <1>5 DEF IInv

LEMMA ArriveIInv ==
    ASSUME IInv, NEW r \in Requests, NEW ask \in Asks, Arrive(r, ask), TypeOK'
    PROVE  IInv'
<1>1. /\ \A x \in Requests : x # r => call'[x] = call[x]
      /\ call[r].pc = "idle" /\ call'[r].pc = "locking"
      /\ call'[r].arrived = now /\ call'[r].on = call[r].on
      /\ UNCHANGED <<now, build, running, queued, current, at, heldProbe, drain>>
      BY DEF Arrive, IInv, TypeOK, CallRecord, cacheVars
<1>2. ChainInv'
      BY <1>1 DEF IInv, ChainInv, Charge
<1>3. BuildInv'
  <2>1. \A b \in Requests :
           /\ call'[b].on = call[b].on
           /\ call'[b].pc \in {"idle", "locking"} <=> call[b].pc \in {"idle", "locking"}
        BY <1>1
  <2>2. \A i \in DOMAIN queued : queued[i] \in Requests
        BY DEF IInv, TypeOK
  <2>3. running # None => running \in Requests
        BY DEF IInv, TypeOK, Build
  <2> QED BY <1>1, <2>1, <2>2, <2>3 DEF IInv, BuildInv
<1>4. HeldInv'
      BY <1>1 DEF IInv, HeldInv
<1>5. CallInv'
  <2>1. call'[r].arrived \in 1..now
        BY <1>1 DEF IInv, TypeOK
  <2> SUFFICES ASSUME NEW x \in Requests PROVE CallInv!(x)'
      BY DEF CallInv
  <2> QED BY <1>1, <2>1 DEF IInv, CallInv, Suits
<1> QED BY <1>1, <1>2, <1>3, <1>4, <1>5 DEF IInv

LEMMA JoinIInv ==
    ASSUME IInv, NEW r \in Requests, NEW b \in Requests, Join(r, b), TypeOK',
           call[r].pc = "locking",
           Suits(call[r].probe, build[b].probe),
           \/ \E i \in DOMAIN queued : b = queued[i]
           \/ /\ b = running
              /\ call[r].forced => build[b].startedAt >= call[r].arrived
    PROVE  IInv'
<1>1. /\ \A x \in Requests : x # r => call'[x] = call[x]
      /\ call'[r].pc = "waiting" /\ call'[r].on = b
      /\ call'[r].arrived = call[r].arrived /\ call'[r].forced = call[r].forced
      /\ call'[r].probe = call[r].probe
      BY FunctionTypes DEF Join, IInv, CallRecord
<1>2. \A x \in Requests : /\ build'[x].startedAt = build[x].startedAt
                          /\ build'[x].probe = build[x].probe
                          /\ build'[x].done = build[x].done
                          /\ build'[x].began = build[x].began
                          /\ build'[x].ended = build[x].ended
      BY FunctionTypes DEF Join, IInv, BuildRecord
<1>3. UNCHANGED <<now, running, queued, current, at, heldProbe, drain>>
      BY DEF Join, cacheVars
<1>4. /\ b # None
      /\ call[b].pc \notin {"idle", "locking"}
      /\ build[b].ended = Zero
      /\ \/ build[b].startedAt = Zero
         \/ call[r].forced => build[b].startedAt >= call[r].arrived
      BY ConstantsAssumption DEF IInv, BuildInv
<1>5. ChainInv'
      BY <1>3 DEF IInv, ChainInv, Charge
<1>6. BuildInv'
  <2>1. \A i \in DOMAIN queued : queued[i] \in Requests
        BY DEF IInv, TypeOK
  <2>2. running # None => running \in Requests
        BY DEF IInv, TypeOK, Build
  <2>3. \A d \in Requests : drain[d].pc \in {"scanning", "closing"} => drain[d].work \in Requests
        BY DEF IInv, ChainInv, TypeOK, DrainRecord, Build
  <2>4. \A x \in Requests : call'[x].pc \in {"idle", "locking"} =>
                               call[x].pc \in {"idle", "locking"} /\ x # b
        BY <1>1, <1>4
  <2>5. \A x, y \in Requests : x # b /\ call'[y].on = x => call[y].on = x
        BY <1>1
  <2> QED BY <1>1, <1>2, <1>3, <2>1, <2>2, <2>3, <2>4, <2>5 DEF IInv, BuildInv
<1>7. HeldInv'
      BY <1>2, <1>3 DEF IInv, HeldInv, TypeOK, Build
<1>8. CallInv'
  <2>1. \A x \in Requests : call[x].on \in Build /\ call[x].answer \in Build
        BY DEF IInv, TypeOK, CallRecord
  <2> QED BY <1>1, <1>2, <1>3, <1>4, <2>1 DEF IInv, CallInv, Build
<1> QED BY <1>3, <1>5, <1>6, <1>7, <1>8 DEF IInv

LEMMA ServeIInv ==
    ASSUME IInv, NEW r \in Requests, ServeHeld(r), TypeOK'
    PROVE  IInv'
<1>1. /\ \A x \in Requests : x # r => call'[x] = call[x]
      /\ call'[r].pc = "answered" /\ call'[r].answer = current
      /\ call'[r].on = call[r].on /\ call'[r].arrived = call[r].arrived
      /\ call'[r].forced = call[r].forced /\ call'[r].probe = call[r].probe
      /\ call[r].pc = "locking"
      /\ UNCHANGED <<now, build, running, queued, current, at, heldProbe, drain>>
      BY DEF ServeHeld, IInv, TypeOK, CallRecord, cacheVars
<1>2. /\ ~call[r].forced
      /\ current # None
      /\ call[r].arrived - build[current].startedAt < TTL
      /\ Suits(call[r].probe, build[current].probe)
      /\ build[current].ended # Zero
      BY DEF ServeHeld, MayServeHeld, Fresh, IInv, HeldInv
<1>3. ChainInv'
      BY <1>1 DEF IInv, ChainInv, Charge
<1>4. BuildInv'
  <2>1. \A i \in DOMAIN queued : queued[i] \in Requests
        BY DEF IInv, TypeOK
  <2>2. running # None => running \in Requests
        BY DEF IInv, TypeOK, Build
  <2> QED BY <1>1, <2>1, <2>2 DEF IInv, BuildInv
<1>5. HeldInv'
      BY <1>1 DEF IInv, HeldInv
<1>6. CallInv'
      BY <1>1, <1>2 DEF IInv, CallInv
<1> QED BY <1>1, <1>3, <1>4, <1>5, <1>6 DEF IInv

\* What creating a build does, whether it is queued or started.
LEMMA CreateIInv ==
    ASSUME IInv, NEW r \in Requests, call[r].pc = "locking",
           UNCHANGED <<now, current, at, heldProbe>>,
           \A x \in Requests : x # r => call'[x] = call[x] /\ build'[x] = build[x],
           call'[r].pc = "waiting", call'[r].on = r,
           call'[r].arrived = call[r].arrived, call'[r].probe = call[r].probe,
           call'[r].forced = call[r].forced,
           build'[r].probe = call[r].probe, build'[r].began = build[r].began,
           build'[r].ended = build[r].ended, build'[r].done = build[r].done,
           build'[r].startedAt \in {Zero, call[r].arrived}
    PROVE  /\ HeldInv' /\ CallInv'
           /\ call[r].arrived >= 1 /\ call[r].arrived <= now
           /\ build[r].startedAt = Zero /\ build[r].began = Zero
           /\ build[r].ended = Zero /\ ~build[r].done
           /\ \A x \in Requests : call[x].on # r
<1>1. /\ build[r].startedAt = Zero /\ build[r].began = Zero
      /\ build[r].ended = Zero /\ ~build[r].done
      /\ \A x \in Requests : call[x].on # r
      BY DEF IInv, BuildInv
<1>2. call[r].arrived \in 1..now /\ now \in Nat
      BY DEF IInv, CallInv, TypeOK
<1>3. current # r
      BY <1>1, ConstantsAssumption DEF IInv, HeldInv
<1>4. HeldInv'
      BY <1>3 DEF IInv, HeldInv, TypeOK, Build
<1>5. CallInv'
  <2>1. \A x \in Requests : call[x].on \in Build /\ call[x].answer \in Build
        BY DEF IInv, TypeOK, CallRecord
  <2>2. r # None
        BY ConstantsAssumption
  <2>3. ASSUME NEW x \in Requests, x # r PROVE CallInv!(x)'
        BY <1>1, <2>1, <2>3 DEF IInv, CallInv, Build
  <2>4. CallInv!(r)'
        BY <1>1, <1>2, <2>2 DEF Suits
  <2> QED BY <2>3, <2>4 DEF CallInv
<1> QED BY <1>1, <1>2, <1>4, <1>5

LEMMA QueueIInv ==
    ASSUME IInv, NEW r \in Requests, QueueBuild(r), TypeOK'
    PROVE  IInv'
<1>1. /\ \A x \in Requests : x # r => call'[x] = call[x] /\ build'[x] = build[x]
      /\ call[r].pc = "locking"
      /\ call'[r].pc = "waiting" /\ call'[r].on = r
      /\ call'[r].arrived = call[r].arrived /\ call'[r].probe = call[r].probe
      /\ call'[r].forced = call[r].forced
      /\ build'[r].probe = call[r].probe /\ build'[r].began = build[r].began
      /\ build'[r].ended = build[r].ended /\ build'[r].done = build[r].done
      /\ build'[r].startedAt = build[r].startedAt
      BY DEF QueueBuild, MustBuild, IInv, TypeOK, CallRecord, BuildRecord
<1>2. /\ queued' = Append(queued, r) /\ queued \in Seq(Requests)
      /\ running # None
      /\ UNCHANGED <<now, running, current, at, heldProbe, drain>>
      BY DEF QueueBuild, Busy, IInv, TypeOK
<1>3. build[r].startedAt \in {Zero, call[r].arrived}
      BY <1>1 DEF IInv, BuildInv
<1>4. /\ HeldInv' /\ CallInv'
      /\ build[r].startedAt = Zero /\ build[r].began = Zero
      /\ build[r].ended = Zero /\ ~build[r].done
      /\ \A x \in Requests : call[x].on # r
      BY <1>1, <1>2, <1>3, CreateIInv
<1>5. ChainInv'
      BY <1>2 DEF IInv, ChainInv, Charge
<1>6. BuildInv'
  <2>1. running \in Requests /\ running # r
        BY <1>1, <1>2 DEF IInv, TypeOK, Build, BuildInv
  <2>2. /\ DOMAIN queued' = 1..(Len(queued) + 1) /\ DOMAIN queued = 1..Len(queued)
        /\ \A i \in DOMAIN queued : queued'[i] = queued[i]
        /\ \A i \in DOMAIN queued : queued[i] \in Requests /\ queued[i] # r
        /\ queued'[Len(queued) + 1] = r
        /\ Len(queued) \in Nat
        BY <1>1, <1>2 DEF IInv, BuildInv
  <2>3. \A i \in DOMAIN queued' : i \in DOMAIN queued \/ i = Len(queued) + 1
        BY <2>2
  <2>4. \A d \in Requests : drain[d].pc \in {"scanning", "closing"} =>
           /\ drain[d].work \in Requests
           /\ drain[d].work # r
        BY <1>4 DEF IInv, ChainInv, BuildInv, TypeOK, DrainRecord, Build
  <2>5. \A i, j \in DOMAIN queued' : queued'[i] = queued'[j] => i = j
        BY <2>2, <2>3 DEF IInv, BuildInv
  <2>6. \A i \in DOMAIN queued' :
          /\ queued'[i] # running
          /\ build'[queued'[i]].startedAt = Zero
          /\ build'[queued'[i]].began = Zero
          /\ build'[queued'[i]].ended = Zero
          /\ call'[queued'[i]].pc \notin {"idle", "locking"}
        BY <1>1, <1>4, <2>1, <2>2, <2>3 DEF IInv, BuildInv
  <2>7. \A b \in Requests :
          /\ build'[b].startedAt <= now /\ build'[b].ended <= now
          /\ build'[b].began # Zero =>
                build'[b].startedAt # Zero /\ build'[b].startedAt <= build'[b].began
          /\ build'[b].ended # Zero => build'[b].began # Zero
          /\ build'[b].done => build'[b].ended # Zero
          /\ call'[b].pc \in {"idle", "locking"} =>
                /\ build'[b].startedAt = Zero
                /\ \A x \in Requests : call'[x].on # b
        BY <1>1, <1>4 DEF IInv, BuildInv
  <2> QED BY <1>1, <1>2, <2>1, <2>4, <2>5, <2>6, <2>7 DEF IInv, BuildInv
<1> QED BY <1>2, <1>4, <1>5, <1>6 DEF IInv

LEMMA StartIInv ==
    ASSUME IInv, NEW r \in Requests, StartBuild(r), TypeOK'
    PROVE  IInv'
<1>1. /\ \A x \in Requests : x # r => call'[x] = call[x] /\ build'[x] = build[x]
      /\ call[r].pc = "locking"
      /\ call'[r].pc = "waiting" /\ call'[r].on = r
      /\ call'[r].arrived = call[r].arrived /\ call'[r].probe = call[r].probe
      /\ call'[r].forced = call[r].forced
      /\ build'[r].probe = call[r].probe /\ build'[r].began = build[r].began
      /\ build'[r].ended = build[r].ended /\ build'[r].done = build[r].done
      /\ build'[r].startedAt = call[r].arrived
      BY DEF StartBuild, MustBuild, IInv, TypeOK, CallRecord, BuildRecord
<1>2. /\ \A d \in Requests : d # r => drain'[d] = drain[d]
      /\ drain'[r].pc = "begin" /\ drain'[r].work = r /\ drain'[r].next = drain[r].next
      /\ running = None /\ running' = r /\ r # None
      /\ queued = <<>> /\ queued' = <<>>
      /\ UNCHANGED <<now, current, at, heldProbe>>
      BY ConstantsAssumption DEF StartBuild, Busy, IInv, ChainInv, TypeOK, DrainRecord
<1>3. build'[r].startedAt \in {Zero, call[r].arrived}
      BY <1>1
<1>4. /\ HeldInv' /\ CallInv'
      /\ call[r].arrived >= 1 /\ call[r].arrived <= now
      /\ build[r].startedAt = Zero /\ build[r].began = Zero
      /\ build[r].ended = Zero /\ ~build[r].done
      /\ \A x \in Requests : call[x].on # r
      BY <1>1, <1>2, <1>3, CreateIInv
<1>5. ChainInv'
  <2>1. \A d \in Requests : Charge(d) = None
        BY <1>2 DEF IInv, ChainInv
  <2>2. drain[r].next = None
        BY <2>1 DEF IInv, ChainInv, Charge
  <2>3. Charge(r)' = r /\ \A d \in Requests : d # r => Charge(d)' = None
        BY <1>2, <2>1 DEF Charge
  <2> QED BY <1>2, <2>2, <2>3 DEF IInv, ChainInv
<1>6. BuildInv'
  <2>1. \A d \in Requests : drain'[d].pc \in {"scanning", "closing"} =>
           /\ d # r /\ drain'[d] = drain[d]
           /\ drain[d].work \in Requests
           /\ drain[d].work # r
        BY <1>2, <1>4 DEF IInv, ChainInv, BuildInv, TypeOK, DrainRecord, Build
  <2>2. /\ build'[r].startedAt # Zero /\ build'[r].ended = Zero
        /\ call'[r].pc \notin {"idle", "locking"}
        BY <1>1, <1>4 DEF Zero
  <2>3. \A b \in Requests :
          /\ build'[b].startedAt <= now /\ build'[b].ended <= now
          /\ build'[b].began # Zero =>
                build'[b].startedAt # Zero /\ build'[b].startedAt <= build'[b].began
          /\ build'[b].ended # Zero => build'[b].began # Zero
          /\ build'[b].done => build'[b].ended # Zero
          /\ call'[b].pc \in {"idle", "locking"} =>
                /\ build'[b].startedAt = Zero
                /\ \A x \in Requests : call'[x].on # b
        BY <1>1, <1>4 DEF IInv, BuildInv
  <2> QED BY <1>1, <1>2, <2>1, <2>2, <2>3 DEF IInv, BuildInv
<1> QED BY <1>2, <1>4, <1>5, <1>6 DEF IInv

LEMMA ReplyIInv ==
    ASSUME IInv, NEW r \in Requests, Answer(r) \/ Cancel(r), TypeOK'
    PROVE  IInv'
<1>1. /\ \A x \in Requests : x # r => call'[x] = call[x]
      /\ call[r].pc = "waiting" /\ call'[r].pc \in {"answered", "cancelled"}
      /\ call'[r].pc = "answered" =>
            build[call[r].on].done /\ call'[r].answer = call[r].on
      /\ call'[r].on = call[r].on /\ call'[r].arrived = call[r].arrived
      /\ call'[r].forced = call[r].forced /\ call'[r].probe = call[r].probe
      /\ UNCHANGED <<now, build, running, queued, current, at, heldProbe, drain>>
  <2>1. CASE Answer(r)
        BY <2>1 DEF Answer, IInv, TypeOK, CallRecord, cacheVars
  <2>2. CASE Cancel(r)
        BY <2>2 DEF Cancel, IInv, TypeOK, CallRecord, cacheVars
  <2> QED BY <2>1, <2>2
<1>2. ChainInv'
      BY <1>1 DEF IInv, ChainInv, Charge
<1>3. BuildInv'
  <2>1. \A i \in DOMAIN queued : queued[i] \in Requests
        BY DEF IInv, TypeOK
  <2>2. running # None => running \in Requests
        BY DEF IInv, TypeOK, Build
  <2> QED BY <1>1, <2>1, <2>2 DEF IInv, BuildInv
<1>4. HeldInv'
      BY <1>1 DEF IInv, HeldInv
<1>5. CallInv'
  <2>1. call[r].on \in Requests
        BY <1>1 DEF IInv, CallInv, TypeOK, CallRecord, Build
  <2>2. build[call[r].on].done =>
           build[call[r].on].ended # Zero /\ build[call[r].on].startedAt # Zero
        BY <2>1 DEF IInv, BuildInv
  <2>3. ASSUME NEW x \in Requests, x # r PROVE CallInv!(x)'
        BY <1>1, <2>3 DEF IInv, CallInv
  <2>4. CallInv!(r)'
        BY <1>1, <2>1, <2>2 DEF IInv, CallInv
  <2> QED BY <2>3, <2>4 DEF CallInv
<1> QED BY <1>1, <1>2, <1>3, <1>4, <1>5 DEF IInv

LEMMA BeginIInv ==
    ASSUME IInv, NEW d \in Requests, BeginScan(d), TypeOK'
    PROVE  IInv'
<1> DEFINE w == drain[d].work
<1>1. /\ w \in Requests /\ w = running /\ drain[d].pc = "begin"
      /\ build[w].startedAt # Zero /\ build[w].ended = Zero
      /\ build[w].startedAt <= now /\ now \in Nat /\ now >= 1
      BY DEF BeginScan, IInv, ChainInv, Charge, BuildInv, TypeOK, DrainRecord, Build
<1>2. /\ \A x \in Requests : x # w => build'[x] = build[x]
      /\ build'[w].began = now /\ build'[w].startedAt = build[w].startedAt
      /\ build'[w].ended = build[w].ended /\ build'[w].done = build[w].done
      /\ build'[w].probe = build[w].probe
      BY <1>1 DEF BeginScan, IInv, TypeOK, BuildRecord
<1>3. /\ \A e \in Requests : e # d => drain'[e] = drain[e]
      /\ drain'[d].pc = "scanning" /\ drain'[d].work = w
      /\ drain'[d].next = drain[d].next
      /\ UNCHANGED <<now, call, running, queued, current, at, heldProbe>>
      BY DEF BeginScan, IInv, TypeOK, DrainRecord, cacheVars
<1>4. ChainInv'
  <2>1. \A e \in Requests : Charge(e)' = Charge(e)
        BY <1>1, <1>3 DEF Charge
  <2>2. \A e \in Requests :
          /\ drain'[e].pc \in {"begin", "scanning", "closing"} => drain'[e].work # None
          /\ drain'[e].pc \in {"none", "begin", "scanning", "ended"} => drain'[e].next = None
        BY <1>1, <1>3, ConstantsAssumption DEF IInv, ChainInv
  <2> QED BY <1>3, <2>1, <2>2 DEF IInv, ChainInv
<1>5. BuildInv'
  <2>1. \A i \in DOMAIN queued : queued[i] \in Requests /\ queued[i] # w
        BY <1>1 DEF IInv, TypeOK, BuildInv
  <2>2. \A e \in Requests : e # d /\ drain[e].pc \in {"scanning", "closing"} =>
           drain[e].work \in Requests
        BY DEF IInv, ChainInv, TypeOK, DrainRecord, Build
  <2>3. \A b \in Requests :
          /\ build'[b].startedAt <= now /\ build'[b].ended <= now
          /\ build'[b].began # Zero =>
                build'[b].startedAt # Zero /\ build'[b].startedAt <= build'[b].began
          /\ build'[b].ended # Zero => build'[b].began # Zero
          /\ build'[b].done => build'[b].ended # Zero
          /\ call[b].pc \in {"idle", "locking"} =>
                /\ build'[b].startedAt = Zero
                /\ \A x \in Requests : call[x].on # b
        BY <1>1, <1>2 DEF IInv, BuildInv
  <2>4. \A e \in Requests :
          /\ drain'[e].pc = "scanning" => build'[drain'[e].work].began # Zero
          /\ drain'[e].pc = "closing" => build'[drain'[e].work].ended # Zero
    <3>1. ASSUME NEW e \in Requests, e # d
          PROVE  /\ drain'[e].pc = "scanning" => build'[drain'[e].work].began # Zero
                 /\ drain'[e].pc = "closing" => build'[drain'[e].work].ended # Zero
          BY <1>1, <1>2, <1>3, <2>2, <3>1 DEF IInv, BuildInv, Zero
    <3> QED BY <1>1, <1>2, <1>3, <3>1 DEF Zero
  <2> QED BY <1>1, <1>2, <1>3, <2>1, <2>3, <2>4 DEF IInv, BuildInv
<1>6. HeldInv'
      BY <1>2, <1>3 DEF IInv, HeldInv, TypeOK, Build
<1>7. CallInv'
  <2>1. \A x \in Requests : call[x].on \in Build /\ call[x].answer \in Build
        BY DEF IInv, TypeOK, CallRecord
  <2>2. \A x \in Requests : /\ build'[x].startedAt = build[x].startedAt
                            /\ build'[x].ended = build[x].ended
                            /\ build'[x].probe = build[x].probe
        BY <1>2
  <2> QED BY <1>3, <2>1, <2>2 DEF IInv, CallInv, Build
<1> QED BY <1>3, <1>4, <1>5, <1>6, <1>7 DEF IInv

LEMMA PublishIInv ==
    ASSUME IInv, NEW d \in Requests, Publish(d), TypeOK'
    PROVE  IInv'
<1> DEFINE w == drain[d].work
           n == NextBuild
<1>1. /\ w \in Requests /\ w = running /\ drain[d].pc = "scanning"
      /\ build[w].began # Zero /\ build[w].ended = Zero
      /\ now \in Nat /\ now >= 1
      BY DEF Publish, IInv, ChainInv, Charge, BuildInv, TypeOK, DrainRecord, Build
<1>2. /\ n = None \/ (n \in Requests /\ n # None)
      /\ n # None => queued # <<>> /\ n = Head(queued)
      /\ n = None => queued = <<>>
      /\ n # w
      /\ n # None => /\ build[n].startedAt = Zero /\ build[n].began = Zero
                     /\ build[n].ended = Zero
                     /\ call[n].pc \notin {"idle", "locking"}
  <2>1. CASE queued = <<>>
        BY <1>1, <2>1, ConstantsAssumption DEF NextBuild
  <2>2. CASE queued # <<>>
    <3>1. 1 \in DOMAIN queued /\ n = queued[1] /\ n \in Requests
          BY <2>2 DEF NextBuild, IInv, TypeOK
    <3> QED BY <1>1, <2>2, <3>1, ConstantsAssumption DEF NextBuild, IInv, BuildInv
  <2> QED BY <2>1, <2>2
<1>3. /\ \A x \in Requests :
            /\ build'[x].began = build[x].began /\ build'[x].probe = build[x].probe
            /\ build'[x].done = build[x].done
            /\ x # w => build'[x].ended = build[x].ended
            /\ x # n => build'[x].startedAt = build[x].startedAt
      /\ build'[w].ended = now
      /\ n # None => build'[n].startedAt = now
      BY <1>1, <1>2 DEF Publish, IInv, TypeOK, BuildRecord
<1>4. /\ \A e \in Requests : e # d => drain'[e] = drain[e]
      /\ drain'[d].pc = "closing" /\ drain'[d].work = w /\ drain'[d].next = n
      /\ running' = n /\ current' = w
      /\ at' = build[w].startedAt /\ heldProbe' = build[w].probe
      /\ UNCHANGED <<now, call>>
      BY DEF Publish, IInv, TypeOK, DrainRecord
<1>5. /\ queued = <<>> => queued' = <<>>
      /\ queued # <<>> => /\ DOMAIN queued' = 1..(Len(queued) - 1)
                          /\ \A i \in DOMAIN queued' :
                                /\ i + 1 \in DOMAIN queued
                                /\ queued'[i] = queued[i + 1]
                                /\ queued'[i] \in Requests
                                /\ queued'[i] # n
                                /\ queued'[i] # w
  <2>1. queued \in Seq(Requests)
        BY DEF IInv, TypeOK
  <2>2. CASE queued # <<>>
    <3>1. /\ queued' = Tail(queued) /\ n = queued[1] /\ 1 \in DOMAIN queued
          BY <2>1, <2>2 DEF Publish, NextBuild
    <3>2. /\ DOMAIN queued' = 1..(Len(queued) - 1)
          /\ \A i \in DOMAIN queued' : /\ i + 1 \in DOMAIN queued
                                       /\ i + 1 # 1
                                       /\ queued'[i] = queued[i + 1]
          BY <2>1, <2>2, <3>1
    <3>3. \A j \in DOMAIN queued : /\ queued[j] \in Requests
                                   /\ j # 1 => queued[j] # n
                                   /\ queued[j] # w
          BY <1>1, <2>1, <3>1 DEF IInv, BuildInv
    <3> QED BY <2>2, <3>2, <3>3
  <2>3. CASE queued = <<>>
        BY <2>3 DEF Publish
  <2> QED BY <2>2, <2>3
<1>6. ChainInv'
  <2>1. \A e \in Requests : e # d => Charge(e) = None
        BY <1>1, ConstantsAssumption DEF IInv, ChainInv, Charge
  <2>2. Charge(d)' = n /\ \A e \in Requests : e # d => Charge(e)' = None
        BY <1>4, <2>1 DEF Charge
  <2>3. \A e \in Requests :
          /\ drain'[e].pc \in {"begin", "scanning", "closing"} => drain'[e].work # None
          /\ drain'[e].pc \in {"none", "begin", "scanning", "ended"} => drain'[e].next = None
        BY <1>1, <1>4, ConstantsAssumption DEF IInv, ChainInv
  <2> QED BY <1>2, <1>4, <1>5, <2>2, <2>3 DEF ChainInv
<1>7. BuildInv'
  <2>1. \A i, j \in DOMAIN queued' : queued'[i] = queued'[j] => i = j
    <3>1. CASE queued # <<>>
      <4> SUFFICES ASSUME NEW i \in DOMAIN queued', NEW j \in DOMAIN queued',
                          queued'[i] = queued'[j]
                   PROVE  i = j
          OBVIOUS
      <4>1. i \in Nat /\ j \in Nat /\ i + 1 = j + 1
            BY <1>5, <3>1 DEF IInv, BuildInv, TypeOK
      <4> QED BY <4>1
    <3> QED BY <1>5, <3>1
  <2>2. \A i \in DOMAIN queued' :
          /\ queued'[i] # n
          /\ build'[queued'[i]].startedAt = Zero
          /\ build'[queued'[i]].began = Zero
          /\ build'[queued'[i]].ended = Zero
          /\ call[queued'[i]].pc \notin {"idle", "locking"}
        BY <1>3, <1>5 DEF IInv, BuildInv
  <2>3. n # None => /\ build'[n].startedAt # Zero /\ build'[n].ended = Zero
                    /\ call[n].pc \notin {"idle", "locking"}
        BY <1>1, <1>2, <1>3 DEF Zero
  <2>4. \A b \in Requests :
          /\ build'[b].startedAt <= now /\ build'[b].ended <= now
          /\ build'[b].began # Zero =>
                build'[b].startedAt # Zero /\ build'[b].startedAt <= build'[b].began
          /\ build'[b].ended # Zero => build'[b].began # Zero
          /\ build'[b].done => build'[b].ended # Zero
          /\ call[b].pc \in {"idle", "locking"} =>
                /\ build'[b].startedAt = Zero
                /\ \A x \in Requests : call[x].on # b
    <3> SUFFICES ASSUME NEW b \in Requests
                 PROVE  /\ build'[b].startedAt <= now /\ build'[b].ended <= now
                        /\ build'[b].began # Zero =>
                              /\ build'[b].startedAt # Zero
                              /\ build'[b].startedAt <= build'[b].began
                        /\ build'[b].ended # Zero => build'[b].began # Zero
                        /\ build'[b].done => build'[b].ended # Zero
                        /\ call[b].pc \in {"idle", "locking"} =>
                              /\ build'[b].startedAt = Zero
                              /\ \A x \in Requests : call[x].on # b
        OBVIOUS
    <3>1. CASE b = n
          BY <1>1, <1>2, <1>3, <3>1, ConstantsAssumption DEF IInv, BuildInv, Zero
    <3>2. CASE b = w
          BY <1>1, <1>2, <1>3, <3>2 DEF IInv, BuildInv, Zero
    <3>3. CASE b # n /\ b # w
          BY <1>3, <3>3 DEF IInv, BuildInv
    <3> QED BY <3>1, <3>2, <3>3
  <2>5. \A e \in Requests :
          /\ drain'[e].pc = "scanning" => build'[drain'[e].work].began # Zero
          /\ drain'[e].pc = "closing" => build'[drain'[e].work].ended # Zero
    <3>1. ASSUME NEW e \in Requests, e # d
          PROVE  /\ drain'[e].pc = "scanning" => build'[drain'[e].work].began # Zero
                 /\ drain'[e].pc = "closing" => build'[drain'[e].work].ended # Zero
      <4>1. drain[e].pc \in {"scanning", "closing"} => drain[e].work \in Requests
            BY DEF IInv, ChainInv, TypeOK, DrainRecord, Build
      <4> QED BY <1>1, <1>3, <1>4, <3>1, <4>1 DEF IInv, BuildInv, Zero
    <3> QED BY <1>1, <1>3, <1>4, <3>1 DEF Zero
  <2> QED BY <1>4, <2>1, <2>2, <2>3, <2>4, <2>5 DEF BuildInv
<1>8. HeldInv'
  <2>1. /\ build'[w].ended # Zero
        /\ at' = build'[w].startedAt /\ heldProbe' = build'[w].probe
        BY <1>1, <1>2, <1>3, <1>4 DEF Zero
  <2> QED BY <1>4, <2>1 DEF HeldInv
<1>9. CallInv'
  <2> SUFFICES ASSUME NEW x \in Requests PROVE CallInv!(x)'
      BY DEF CallInv
  <2>1. /\ call[x].on \in Build /\ call[x].answer \in Build /\ call[x].arrived \in Nat
        /\ call[x].pc # "idle" => call[x].arrived <= now
        BY DEF IInv, CallInv, TypeOK, CallRecord
  <2>2. call[x].pc = "waiting" =>
          /\ call[x].on # None
          /\ Suits(call[x].probe, build'[call[x].on].probe)
          /\ \/ build'[call[x].on].ended = Zero
             \/ build'[call[x].on].ended >= call[x].arrived
          /\ call[x].forced => \/ build'[call[x].on].startedAt = Zero
                               \/ build'[call[x].on].startedAt >= call[x].arrived
    <3>1. CASE call[x].pc = "waiting" /\ call[x].on = w
          BY <1>1, <1>2, <1>3, <2>1, <3>1 DEF IInv, CallInv
    <3>2. CASE call[x].pc = "waiting" /\ call[x].on = n
          BY <1>1, <1>2, <1>3, <2>1, <3>2 DEF IInv, CallInv
    <3>3. CASE call[x].pc = "waiting" /\ call[x].on # w /\ call[x].on # n
          BY <1>3, <2>1, <3>3 DEF IInv, CallInv, Build
    <3> QED BY <3>1, <3>2, <3>3
  <2>3. call[x].pc = "answered" =>
          /\ call[x].answer # None
          /\ call[x].answer # w /\ call[x].answer # n
          BY <1>1, <1>2 DEF IInv, CallInv
  <2>4. call[x].pc = "answered" =>
          /\ build'[call[x].answer].ended = build[call[x].answer].ended
          /\ build'[call[x].answer].startedAt = build[call[x].answer].startedAt
          /\ build'[call[x].answer].probe = build[call[x].answer].probe
          BY <1>3, <2>1, <2>3 DEF Build
  <2> QED BY <1>4, <2>2, <2>3, <2>4 DEF IInv, CallInv, Suits
<1> QED BY <1>4, <1>6, <1>7, <1>8, <1>9 DEF IInv

\* Steps of a goroutine that move neither a build nor what the goroutine is in charge of.
LEMMA TellingIInv ==
    ASSUME IInv, TypeOK', NEW d \in Requests,
           UNCHANGED <<now, call, running, queued, current, at, heldProbe>>,
           \A x \in Requests : /\ build'[x].startedAt = build[x].startedAt
                               /\ build'[x].probe = build[x].probe
                               /\ build'[x].began = build[x].began
                               /\ build'[x].ended = build[x].ended
                               /\ build'[x].done =>
                                     build[x].done \/ build[x].ended # Zero,
           \A e \in Requests : e # d => drain'[e] = drain[e],
           Charge(d)' = Charge(d),
           drain'[d].pc \notin {"scanning", "closing"},
           drain'[d].pc = "begin" => drain'[d].work # None,
           drain'[d].pc \in {"begin", "ended"} => drain'[d].next = None,
           drain'[d].pc # "none"
    PROVE  IInv'
<1>1. ChainInv'
  <2>1. \A e \in Requests : Charge(e)' = Charge(e)
        BY DEF Charge
  <2>2. \A e \in Requests :
          /\ drain'[e].pc \in {"begin", "scanning", "closing"} => drain'[e].work # None
          /\ drain'[e].pc \in {"none", "begin", "scanning", "ended"} => drain'[e].next = None
        BY DEF IInv, ChainInv
  <2> QED BY <2>1, <2>2 DEF IInv, ChainInv
<1>2. BuildInv'
  <2>1. \A i \in DOMAIN queued : queued[i] \in Requests
        BY DEF IInv, TypeOK
  <2>2. running # None => running \in Requests
        BY DEF IInv, TypeOK, Build
  <2>3. \A e \in Requests : drain'[e].pc \in {"scanning", "closing"} =>
           /\ drain'[e] = drain[e]
           /\ drain[e].work \in Requests
        BY DEF IInv, ChainInv, TypeOK, DrainRecord, Build
  <2> QED BY <2>1, <2>2, <2>3 DEF IInv, BuildInv
<1>3. HeldInv'
      BY DEF IInv, HeldInv, TypeOK, Build
<1>4. CallInv'
  <2>1. \A x \in Requests : call[x].on \in Build /\ call[x].answer \in Build
        BY DEF IInv, TypeOK, CallRecord
  <2> QED BY <2>1 DEF IInv, CallInv, Build, Suits
<1> QED BY <1>1, <1>2, <1>3, <1>4 DEF IInv

\* b = next keeps the goroutine's charge: what it had in hand to run, it now runs.
LEMMA AdvanceKeepsCharge ==
    ASSUME IInv, NEW d \in Requests, Advance(d),
           drain[d].pc \in {"closing", "release"}
    PROVE  /\ \A e \in Requests : e # d => drain'[e] = drain[e]
           /\ Charge(d)' = Charge(d)
           /\ drain'[d].pc \in {"begin", "ended"}
           /\ drain'[d].pc = "begin" => drain'[d].work # None
           /\ drain'[d].next = None
<1>1. /\ \A e \in Requests : e # d => drain'[e] = drain[e]
      /\ drain'[d].pc = IF drain[d].next = None THEN "ended" ELSE "begin"
      /\ drain'[d].work = drain[d].next
      /\ drain'[d].next = None
      BY DEF Advance, IInv, TypeOK, DrainRecord
<1> QED BY <1>1 DEF Charge

LEMMA DrainIInv ==
    ASSUME IInv, NEW d \in Requests, DrainStep(d) \/ Tell(d), TypeOK'
    PROVE  IInv'
<1>1. CASE BeginScan(d)
      BY <1>1, BeginIInv
<1>2. CASE Publish(d)
      BY <1>2, PublishIInv
<1>3. CASE CloseDone(d)
  <2> DEFINE w == drain[d].work
  <2>1. /\ w \in Requests /\ build[w].ended # Zero /\ drain[d].pc = "closing"
        BY <1>3 DEF CloseDone, IInv, ChainInv, BuildInv, TypeOK, DrainRecord, Build
  <2>2. \A x \in Requests : /\ build'[x].startedAt = build[x].startedAt
                            /\ build'[x].probe = build[x].probe
                            /\ build'[x].began = build[x].began
                            /\ build'[x].ended = build[x].ended
                            /\ build'[x].done =>
                                  build[x].done \/ build[x].ended # Zero
        BY <1>3, <2>1 DEF CloseDone, IInv, TypeOK, BuildRecord
  <2>3. UNCHANGED <<now, call, running, queued, current, at, heldProbe>>
        BY <1>3 DEF CloseDone, cacheVars
  <2>4. CASE HasListener
    <3>1. /\ \A e \in Requests : e # d => drain'[e] = drain[e]
          /\ drain'[d].pc = "notify" /\ drain'[d].next = drain[d].next
          BY <1>3, <2>4 DEF CloseDone, IInv, TypeOK, DrainRecord
    <3>2. Charge(d)' = Charge(d)
          BY <2>1, <3>1 DEF Charge
    <3> QED BY <2>2, <2>3, <3>1, <3>2, TellingIInv
  <2>5. CASE ~HasListener
    <3>1. Advance(d)
          BY <1>3, <2>5 DEF CloseDone
    <3> QED BY <2>1, <2>2, <2>3, <3>1, AdvanceKeepsCharge, TellingIInv
  <2> QED BY <2>4, <2>5
<1>4. ASSUME \/ LockNotify(d) \/ TakeNotice(d) \/ Tell(d)
             \/ NothingOwed(d) \/ UnlockNotify(d)
      PROVE  IInv'
  <2>1. UNCHANGED <<now, call, build, running, queued, current, at, heldProbe>>
        BY <1>4 DEF LockNotify, TakeNotice, Tell, NothingOwed, UnlockNotify, cacheVars
  <2>2. CASE UnlockNotify(d)
    <3>1. Advance(d) /\ drain[d].pc = "release"
          BY <2>2 DEF UnlockNotify
    <3> QED BY <2>1, <3>1, AdvanceKeepsCharge, TellingIInv
  <2>3. CASE LockNotify(d) \/ TakeNotice(d) \/ Tell(d) \/ NothingOwed(d)
    <3>1. /\ \A e \in Requests : e # d => drain'[e] = drain[e]
          /\ drain[d].pc \in {"notify", "take", "telling"}
          /\ drain'[d].pc \in {"take", "telling", "release"}
          /\ drain'[d].next = drain[d].next
          BY <2>3 DEF LockNotify, TakeNotice, Tell, NothingOwed, IInv, TypeOK, DrainRecord
    <3>2. Charge(d)' = Charge(d)
          BY <3>1 DEF Charge
    <3> QED BY <2>1, <3>1, <3>2, TellingIInv
  <2> QED BY <1>4, <2>2, <2>3
<1> QED BY <1>1, <1>2, <1>3, <1>4 DEF DrainStep

LEMMA StepIInv == IInv /\ [Next]_vars => IInv'
<1> SUFFICES ASSUME IInv, [Next]_vars PROVE IInv'
    OBVIOUS
<1>1. TypeOK
      BY DEF IInv
<1>2. CASE Tick
  <2>1. TypeOK'
        BY <1>1, <1>2 DEF Tick, TypeOK, cacheVars, listenerVars
  <2> QED BY <1>2, <2>1, TickIInv
<1>3. ASSUME NEW r \in Requests, NEW ask \in Asks, Arrive(r, ask) PROVE IInv'
      BY <1>1, <1>3, ArriveType, ArriveIInv
<1>4. ASSUME NEW r \in Requests, Lookup(r) PROVE IInv'
  <2>1. TypeOK'
        BY <1>1, <1>4, LookupType
  <2>2. CASE JoinQueued(r) \/ JoinRunning(r)
        BY <1>1, <2>1, <2>2, JoinsABuild, JoinIInv
  <2>3. CASE ServeHeld(r)
        BY <2>1, <2>3, ServeIInv
  <2>4. CASE QueueBuild(r)
        BY <2>1, <2>4, QueueIInv
  <2>5. CASE StartBuild(r)
        BY <2>1, <2>5, StartIInv
  <2> QED BY <1>4, <2>2, <2>3, <2>4, <2>5 DEF Lookup
<1>5. ASSUME NEW r \in Requests, Answer(r) \/ Cancel(r) PROVE IInv'
      BY <1>1, <1>5, ReplyType, ReplyIInv
<1>6. ASSUME NEW d \in Requests, DrainStep(d) \/ Tell(d) PROVE IInv'
  <2>1. drain[d].pc = "scanning" => drain[d].work # None
        BY DEF IInv, ChainInv
  <2> QED BY <1>1, <1>6, <2>1, DrainType, DrainIInv
<1>7. CASE UNCHANGED vars
  <2>1. UNCHANGED <<now, call, build, running, queued, current, at, heldProbe,
                    pending, notifyMu, drain, told>>
        BY <1>7 DEF vars
  <2>2. TypeOK'
        BY <1>1, <2>1 DEF TypeOK
  <2>3. ChainInv' /\ BuildInv' /\ HeldInv' /\ CallInv'
        BY <2>1 DEF IInv, ChainInv, BuildInv, HeldInv, CallInv, Charge, Suits
  <2> QED BY <2>1, <2>2, <2>3 DEF IInv
<1> QED BY <1>2, <1>3, <1>4, <1>5, <1>6, <1>7, ConstantsAssumption DEF Next, Finished

-----------------------------------------------------------------------------
(* The theorems. *)

\* The invariant of the cache: who runs what, in which order a build lives, what is held,
\* and what every waiting or answered request may count on.
THEOREM CacheInvariant == Spec => []IInv
<1>1. Init => IInv
      BY InitIInv
<1>2. IInv /\ [Next]_vars => IInv'
      BY StepIInv
<1> QED BY <1>1, <1>2, PTL DEF Spec

\* Every variable has its type, for any number of requests.
THEOREM TypeCorrect == Spec => []TypeOK
<1>1. IInv => TypeOK
      BY DEF IInv
<1> QED BY <1>1, CacheInvariant, PTL

\* The contract of the package: a forced request is answered only by a build that started,
\* and a scan that looked at the fleet, at or after the moment it arrived.
THEOREM ForcedContract == Spec => []ForcedAnsweredByLaterScan
<1>1. IInv => ForcedAnsweredByLaterScan
  <2> SUFFICES ASSUME IInv, NEW r \in Requests, Answered(r), call[r].forced
               PROVE  /\ build[call[r].answer].startedAt >= call[r].arrived
                      /\ build[call[r].answer].began >= call[r].arrived
      BY DEF ForcedAnsweredByLaterScan
  <2> DEFINE b == call[r].answer
  <2>1. /\ b \in Requests /\ build[b].ended # Zero
        /\ build[b].startedAt >= call[r].arrived
        BY DEF Answered, IInv, CallInv, TypeOK, CallRecord, Build
  <2>2. build[b].began # Zero /\ build[b].startedAt <= build[b].began
        BY <2>1 DEF IInv, BuildInv
  <2>3. /\ build[b].startedAt \in Nat /\ build[b].began \in Nat
        /\ call[r].arrived \in Nat
        BY <2>1 DEF IInv, TypeOK, BuildRecord, CallRecord
  <2> QED BY <2>1, <2>2, <2>3
<1> QED BY <1>1, CacheInvariant, PTL

\* One scan of the fleet at a time, whatever number of goroutines are draining.
THEOREM OneScan == Spec => []OneScanAtATime
<1>1. IInv => OneScanAtATime
      BY DEF OneScanAtATime, IInv, ChainInv, Charge
<1> QED BY <1>1, CacheInvariant, PTL

\* An unforced answer is one still being made at the arrival, or younger than the TTL.
THEOREM FreshAnswers == Spec => []UnforcedAnswerFresh
<1>1. IInv => UnforcedAnswerFresh
  <2> SUFFICES ASSUME IInv, NEW r \in Requests, Answered(r), ~call[r].forced
               PROVE  \/ build[call[r].answer].ended >= call[r].arrived
                      \/ call[r].arrived - build[call[r].answer].began < TTL
      BY DEF UnforcedAnswerFresh
  <2> DEFINE b == call[r].answer
  <2>1. /\ b \in Requests /\ build[b].ended # Zero
        /\ \/ build[b].ended >= call[r].arrived
           \/ call[r].arrived - build[b].startedAt < TTL
        BY DEF Answered, IInv, CallInv, TypeOK, CallRecord, Build
  <2>2. build[b].startedAt <= build[b].began
        BY <2>1 DEF IInv, BuildInv
  <2>3. /\ build[b].startedAt \in Nat /\ build[b].began \in Nat
        /\ call[r].arrived \in Nat /\ TTL \in Int
        BY <2>1, ConstantsAssumption DEF IInv, TypeOK, BuildRecord, CallRecord
  <2> QED BY <2>1, <2>2, <2>3
<1> QED BY <1>1, CacheInvariant, PTL

\* A caller that named a probe override is answered by a build made with it.
THEOREM OverrideAnswers == Spec => []OverrideHonoured
<1>1. IInv => OverrideHonoured
      BY DEF OverrideHonoured, Answered, IInv, CallInv, Suits
<1> QED BY <1>1, CacheInvariant, PTL

-----------------------------------------------------------------------------
(* The notices. *)

FlushPC == {"take", "telling", "release"}

\* Who holds notifyMu is inside flush, only a goroutine that tells has a notice in hand, and
\* a request that has not been looked up has spawned no goroutine.
FlushInv ==
    /\ \A d \in Requests : drain[d].pc \in FlushPC <=> notifyMu = d
    /\ \A d \in Requests : drain[d].pc # "telling" => drain[d].hand = <<>>
    /\ \A r \in Requests : call[r].pc \in {"idle", "locking"} => drain[r].pc = "none"

\* Only builds that ended are told of.
NoticesEnded == \A i \in DOMAIN Notices : build[Notices[i].current].ended # Zero

NoticesInv == FlushInv /\ NoticesEnded /\ NoticesFormOneChain

InHand == IF notifyMu = None THEN <<>> ELSE drain[notifyMu].hand

LEMMA NoticesType ==
    ASSUME TypeOK
    PROVE  /\ told \in Seq(Notice) /\ pending \in Seq(Notice) /\ InHand \in Seq(Notice)
           /\ Notices = (told \o InHand) \o pending
           /\ Notices \in Seq(Notice)
<1>1. told \in Seq(Notice) /\ pending \in Seq(Notice)
      BY DEF TypeOK
<1>2. InHand \in Seq(Notice)
  <2>1. CASE notifyMu = None
        BY <2>1 DEF InHand
  <2>2. CASE notifyMu # None
        BY <2>2, FunctionTypes DEF InHand, TypeOK, Build, DrainRecord
  <2> QED BY <2>1, <2>2
<1>3. told \o InHand \in Seq(Notice)
      BY <1>1, <1>2, ConcatProperties
<1>4. (told \o InHand) \o pending \in Seq(Notice)
      BY <1>1, <1>3, ConcatProperties
<1>5. told \o (InHand \o pending) = (told \o InHand) \o pending
      BY <1>1, <1>2, ConcatAssociative
<1>6. Notices = (told \o InHand) \o pending
      BY <1>5 DEF Notices, InHand
<1> QED BY <1>1, <1>2, <1>4, <1>6

LEMMA NoticesTypeNext ==
    ASSUME TypeOK'
    PROVE  /\ told' \in Seq(Notice) /\ pending' \in Seq(Notice) /\ InHand' \in Seq(Notice)
           /\ Notices' = (told' \o InHand') \o pending'
           /\ Notices' \in Seq(Notice)
<1>1. told' \in Seq(Notice) /\ pending' \in Seq(Notice)
      BY DEF TypeOK
<1>2. InHand' \in Seq(Notice)
  <2>1. CASE notifyMu' = None
        BY <2>1 DEF InHand
  <2>2. CASE notifyMu' # None
        BY <2>2 DEF InHand, TypeOK, Build, DrainRecord
  <2> QED BY <2>1, <2>2
<1>3. told' \o InHand' \in Seq(Notice)
      BY <1>1, <1>2, ConcatProperties
<1>4. (told' \o InHand') \o pending' \in Seq(Notice)
      BY <1>1, <1>3, ConcatProperties
<1>5. told' \o (InHand' \o pending') = (told' \o InHand') \o pending'
      BY <1>1, <1>2, ConcatAssociative
<1>6. Notices' = (told' \o InHand') \o pending'
      BY <1>5 DEF Notices, InHand
<1> QED BY <1>1, <1>2, <1>4, <1>6

\* A step that moves no notice, and after which what had ended has ended.
LEMMA SameNotices ==
    ASSUME TypeOK, TypeOK', NoticesInv, FlushInv', Notices' = Notices, current' = current,
           \A b \in Requests : build[b].ended # Zero => build'[b].ended # Zero
    PROVE  NoticesInv'
<1>1. PICK N : N = Notices
      OBVIOUS
<1>2. N \in Seq(Notice) /\ N = Notices'
      BY <1>1, NoticesType
<1>3. \A i \in DOMAIN N : N[i].current \in Requests
  <2>1. \A i \in DOMAIN N : N[i] \in Notice
        BY <1>2
  <2> QED BY <2>1 DEF Notice
<1>4. NoticesEnded'
      BY <1>1, <1>2, <1>3 DEF NoticesInv, NoticesEnded
<1>5. NoticesFormOneChain'
      BY <1>1, <1>2 DEF NoticesInv, NoticesFormOneChain
<1> QED BY <1>4, <1>5 DEF NoticesInv

\* What had ended has ended after the step.
EndsKept == \A b \in Requests : build[b].ended # Zero => build'[b].ended # Zero

\* A step outside flush moves no notice.
LEMMA QuietFlush ==
    ASSUME TypeOK, TypeOK', NoticesInv, UNCHANGED <<told, pending, notifyMu, current>>, EndsKept,
           \A d \in Requests :
               /\ drain'[d].hand = drain[d].hand
               /\ drain'[d].pc \in FlushPC <=> drain[d].pc \in FlushPC
               /\ drain[d].pc = "telling" => drain'[d].pc = "telling"
               /\ call'[d].pc \in {"idle", "locking"} => drain'[d].pc = "none"
    PROVE  NoticesInv'
<1>1. FlushInv'
      BY DEF NoticesInv, FlushInv
<1>2. Notices' = Notices
  <2>1. CASE notifyMu = None
        BY <2>1 DEF Notices
  <2>2. CASE notifyMu # None
    <3>1. notifyMu \in Requests
          BY <2>2 DEF TypeOK, Build
    <3> QED BY <2>2, <3>1 DEF Notices
  <2> QED BY <2>1, <2>2
<1> QED BY <1>1, <1>2, SameNotices DEF EndsKept

LEMMA CallStepNotices ==
    ASSUME IInv, TypeOK', NoticesInv,
           \/ Tick
           \/ \E r \in Requests, ask \in Asks : Arrive(r, ask)
           \/ \E r \in Requests : \/ JoinQueued(r) \/ JoinRunning(r) \/ ServeHeld(r)
                                  \/ QueueBuild(r) \/ Answer(r) \/ Cancel(r)
    PROVE  NoticesInv'
<1>1. UNCHANGED <<told, pending, notifyMu, current, drain>>
      BY DEF Tick, Arrive, JoinQueued, JoinRunning, Join, ServeHeld, QueueBuild, Answer, Cancel,
             cacheVars, listenerVars
<1>2. EndsKept
  <2>1. CASE build' = build
        BY <2>1 DEF EndsKept
  <2>2. ASSUME NEW r \in Requests, JoinQueued(r) \/ JoinRunning(r) PROVE EndsKept
    <3>1. PICK b \in Requests : Join(r, b)
          BY <2>2, JoinsABuild DEF IInv
    <3> QED BY <3>1 DEF Join, EndsKept, IInv, TypeOK, BuildRecord
  <2>3. ASSUME NEW r \in Requests, QueueBuild(r) PROVE EndsKept
        BY <2>3 DEF QueueBuild, EndsKept, IInv, TypeOK, BuildRecord
  <2> QED BY <2>1, <2>2, <2>3 DEF Tick, Arrive, ServeHeld, Answer, Cancel
<1>3. ASSUME NEW d \in Requests, call'[d].pc \in {"idle", "locking"}
      PROVE  call[d].pc \in {"idle", "locking"}
  <2>1. CASE Tick
        BY <2>1, <1>3 DEF Tick
  <2>2. ASSUME NEW r \in Requests, NEW ask \in Asks, Arrive(r, ask)
        PROVE  call[d].pc \in {"idle", "locking"}
    <3>1. call[r].pc = "idle" /\ \A e \in Requests \ {r} : call'[e] = call[e]
          BY <2>2 DEF Arrive, IInv, TypeOK
    <3> QED BY <3>1, <1>3
  <2>3. ASSUME NEW r \in Requests,
               \/ JoinQueued(r) \/ JoinRunning(r) \/ ServeHeld(r)
               \/ QueueBuild(r) \/ Answer(r) \/ Cancel(r)
        PROVE  call[d].pc \in {"idle", "locking"}
    <3>1. /\ call'[r].pc \in {"waiting", "answered", "cancelled"}
          /\ \A e \in Requests \ {r} : call'[e] = call[e]
      <4>1. CASE JoinQueued(r) \/ JoinRunning(r)
        <5>1. PICK b \in Requests : Join(r, b)
              BY <4>1, JoinsABuild DEF IInv
        <5> QED BY <5>1 DEF Join, IInv, TypeOK, CallRecord
      <4>2. CASE ServeHeld(r) \/ QueueBuild(r) \/ Answer(r) \/ Cancel(r)
            BY <4>2 DEF ServeHeld, QueueBuild, Answer, Cancel, IInv, TypeOK, CallRecord
      <4> QED BY <2>3, <4>1, <4>2
    <3> QED BY <3>1, <1>3
  <2> QED BY <2>1, <2>2, <2>3
<1>4. \A d \in Requests : call'[d].pc \in {"idle", "locking"} => drain'[d].pc = "none"
      BY <1>1, <1>3 DEF NoticesInv, FlushInv
<1> QED BY <1>1, <1>2, <1>4, QuietFlush DEF IInv

LEMMA StartNotices ==
    ASSUME IInv, TypeOK', NoticesInv, NEW r \in Requests, StartBuild(r)
    PROVE  NoticesInv'
<1>1. UNCHANGED <<told, pending, notifyMu, current>> /\ call[r].pc = "locking"
      BY DEF StartBuild, MustBuild, cacheVars, listenerVars
<1>2. EndsKept
      BY DEF StartBuild, EndsKept, IInv, TypeOK, BuildRecord
<1>3. /\ drain'[r].pc = "begin" /\ drain'[r].hand = drain[r].hand
      /\ \A d \in Requests \ {r} : drain'[d] = drain[d]
      BY DEF StartBuild, IInv, TypeOK, DrainRecord
<1>4. /\ call'[r].pc = "waiting"
      /\ \A d \in Requests \ {r} : call'[d] = call[d]
      BY DEF StartBuild, IInv, TypeOK, CallRecord
<1>5. drain[r].pc = "none"
      BY <1>1 DEF NoticesInv, FlushInv
<1>6. ASSUME NEW d \in Requests
      PROVE  /\ drain'[d].hand = drain[d].hand
             /\ drain'[d].pc \in FlushPC <=> drain[d].pc \in FlushPC
             /\ drain[d].pc = "telling" => drain'[d].pc = "telling"
             /\ call'[d].pc \in {"idle", "locking"} => drain'[d].pc = "none"
  <2>1. CASE d = r
        BY <2>1, <1>3, <1>4, <1>5 DEF FlushPC
  <2>2. CASE d # r
        BY <2>2, <1>3, <1>4 DEF NoticesInv, FlushInv
  <2> QED BY <2>1, <2>2
<1> QED BY <1>1, <1>2, <1>6, QuietFlush DEF IInv

\* b = next: out of flush, empty-handed.
LEMMA AdvanceLeavesFlush ==
    ASSUME TypeOK, NEW d \in Requests, Advance(d)
    PROVE  /\ drain'[d].pc \in {"begin", "ended"} /\ drain'[d].hand = drain[d].hand
           /\ \A e \in Requests \ {d} : drain'[e] = drain[e]
BY DEF Advance, TypeOK, DrainRecord

\* A goroutine before flush: it scans, and closes done.
LEMMA ScanNotices ==
    ASSUME IInv, TypeOK', NoticesInv, NEW d \in Requests, BeginScan(d) \/ CloseDone(d)
    PROVE  NoticesInv'
<1>1. UNCHANGED <<told, pending, notifyMu, current, call>> /\ drain[d].pc \in {"begin", "closing"}
      BY DEF BeginScan, CloseDone, cacheVars, listenerVars
<1>2. EndsKept
  <2>1. CASE BeginScan(d)
    <3>1. build' = [build EXCEPT ![drain[d].work].began = now]
          BY <2>1 DEF BeginScan
    <3> QED BY <3>1 DEF EndsKept, IInv, TypeOK, BuildRecord
  <2>2. CASE CloseDone(d)
    <3>1. build' = [build EXCEPT ![drain[d].work].done = TRUE]
          BY <2>2 DEF CloseDone
    <3> QED BY <3>1 DEF EndsKept, IInv, TypeOK, BuildRecord
  <2> QED BY <2>1, <2>2
<1>3. /\ drain'[d].pc \in {"scanning", "notify", "begin", "ended"}
      /\ drain'[d].hand = drain[d].hand
      /\ \A e \in Requests \ {d} : drain'[e] = drain[e]
  <2>1. CASE BeginScan(d)
        BY <2>1 DEF BeginScan, IInv, TypeOK, DrainRecord
  <2>2. CASE CloseDone(d) /\ HasListener
        BY <2>2 DEF CloseDone, IInv, TypeOK, DrainRecord
  <2>3. CASE CloseDone(d) /\ ~HasListener
    <3>1. Advance(d)
          BY <2>3 DEF CloseDone
    <3> QED BY <3>1, AdvanceLeavesFlush DEF IInv
  <2> QED BY <2>1, <2>2, <2>3
<1>4. ASSUME NEW e \in Requests
      PROVE  /\ drain'[e].hand = drain[e].hand
             /\ drain'[e].pc \in FlushPC <=> drain[e].pc \in FlushPC
             /\ drain[e].pc = "telling" => drain'[e].pc = "telling"
             /\ call'[e].pc \in {"idle", "locking"} => drain'[e].pc = "none"
  <2>1. CASE e = d
    <3>1. call[d].pc \notin {"idle", "locking"}
          BY <1>1 DEF NoticesInv, FlushInv
    <3> QED BY <2>1, <3>1, <1>1, <1>3 DEF FlushPC
  <2>2. CASE e # d
        BY <2>2, <1>1, <1>3 DEF NoticesInv, FlushInv
  <2> QED BY <2>1, <2>2
<1> QED BY <1>1, <1>2, <1>4, QuietFlush DEF IInv

\* flush: what is in hand and what is pending move, and what is owed in all does not.
LEMMA FlushNotices ==
    ASSUME IInv, TypeOK', NoticesInv, NEW d \in Requests,
           LockNotify(d) \/ TakeNotice(d) \/ Tell(d) \/ NothingOwed(d) \/ UnlockNotify(d)
    PROVE  NoticesInv'
<1>1. UNCHANGED <<current, call, build>> /\ TypeOK
      BY DEF LockNotify, TakeNotice, Tell, NothingOwed, UnlockNotify, cacheVars, IInv
<1>2. EndsKept
      BY <1>1 DEF EndsKept
<1>3. drain[d].pc # "none" /\ \A e \in Requests \ {d} : drain'[e] = drain[e]
      BY <1>1, AdvanceLeavesFlush
      DEF LockNotify, TakeNotice, Tell, NothingOwed, UnlockNotify, TypeOK
<1>4. ASSUME NEW e \in Requests, call'[e].pc \in {"idle", "locking"} PROVE drain'[e].pc = "none"
      BY <1>1, <1>3, <1>4 DEF NoticesInv, FlushInv
<1>5. PICK T : T = told
      OBVIOUS
<1>6. PICK P : P = pending
      OBVIOUS
<1>7. PICK H : H = InHand
      OBVIOUS
<1>8. /\ T \in Seq(Notice) /\ P \in Seq(Notice) /\ H \in Seq(Notice)
      /\ Notices = (T \o H) \o P
      /\ Notices' = (told' \o InHand') \o pending'
      BY <1>1, <1>5, <1>6, <1>7, NoticesType, NoticesTypeNext
<1>9. T \o <<>> = T
      BY <1>8, ConcatEmptySeq
<1>10. CASE LockNotify(d)
  <2>1. /\ told' = T /\ pending' = P /\ notifyMu = None /\ notifyMu' = d
        /\ drain[d].pc = "notify" /\ drain'[d].pc = "take" /\ drain'[d].hand = drain[d].hand
        BY <1>10, <1>5, <1>6 DEF LockNotify, IInv, TypeOK, DrainRecord
  <2>2. drain[d].hand = <<>> /\ d # None
        BY <2>1, ConstantsAssumption DEF NoticesInv, FlushInv
  <2>3. H = <<>> /\ InHand' = <<>>
        BY <2>1, <2>2, <1>7 DEF InHand
  <2>4. Notices' = Notices
        BY <2>1, <2>3, <1>8
  <2>5. FlushInv'
        BY <2>1, <2>2, <1>3, <1>4, ConstantsAssumption DEF NoticesInv, FlushInv, FlushPC
  <2> QED BY <2>4, <2>5, <1>1, <1>2, SameNotices DEF EndsKept
<1>11. CASE TakeNotice(d)
  <2>1. /\ told' = T /\ P # <<>> /\ pending' = Tail(P) /\ notifyMu' = notifyMu
        /\ drain[d].pc = "take" /\ drain'[d].pc = "telling" /\ drain'[d].hand = <<Head(P)>>
        BY <1>11, <1>5, <1>6 DEF TakeNotice, IInv, TypeOK, DrainRecord
  <2>2. notifyMu = d /\ drain[d].hand = <<>> /\ d # None
        BY <2>1, ConstantsAssumption DEF NoticesInv, FlushInv, FlushPC
  <2>3. H = <<>> /\ InHand' = <<Head(P)>>
        BY <2>1, <2>2, <1>7 DEF InHand
  <2>4. Head(P) \in Notice /\ Tail(P) \in Seq(Notice) /\ <<Head(P)>> \in Seq(Notice)
        BY <2>1, <1>8
  <2>5. <<Head(P)>> \o Tail(P) = P
        BY <2>1, <2>4, <1>8
  <2>6. (T \o <<Head(P)>>) \o Tail(P) = T \o (<<Head(P)>> \o Tail(P))
    <3>1. ASSUME NEW S, NEW s \in Seq(S), NEW h \in Seq(S), NEW t \in Seq(S)
          PROVE  (s \o h) \o t = s \o (h \o t)
          BY ConcatAssociative
    <3> QED BY <2>4, <3>1
  <2>7. Notices' = Notices
        BY <2>1, <2>3, <2>5, <2>6, <1>8, <1>9
  <2>8. FlushInv'
        BY <2>1, <2>2, <1>3, <1>4 DEF NoticesInv, FlushInv, FlushPC
  <2> QED BY <2>7, <2>8, <1>1, <1>2, SameNotices DEF EndsKept
<1>12. CASE Tell(d)
  <2>1. /\ told' = T \o drain[d].hand /\ pending' = P /\ notifyMu' = notifyMu
        /\ drain[d].pc = "telling" /\ drain'[d].pc = "take" /\ drain'[d].hand = <<>>
        BY <1>12, <1>5, <1>6 DEF Tell, IInv, TypeOK, DrainRecord
  <2>2. notifyMu = d /\ d # None
        BY <2>1, ConstantsAssumption DEF NoticesInv, FlushInv, FlushPC
  <2>3. drain[d].hand = H /\ InHand' = <<>>
        BY <2>1, <2>2, <1>7 DEF InHand
  <2>4. T \o H \in Seq(Notice)
        BY <1>8, ConcatProperties
  <2>5. (T \o H) \o <<>> = T \o H
        BY <2>4, ConcatEmptySeq
  <2>6. Notices' = Notices
        BY <2>1, <2>3, <2>5, <1>8
  <2>7. FlushInv'
        BY <2>1, <2>2, <1>3, <1>4 DEF NoticesInv, FlushInv, FlushPC
  <2> QED BY <2>6, <2>7, <1>1, <1>2, SameNotices DEF EndsKept
<1>13. CASE NothingOwed(d)
  <2>1. /\ told' = T /\ pending' = P /\ notifyMu' = notifyMu
        /\ drain[d].pc = "take" /\ drain'[d].pc = "release" /\ drain'[d].hand = drain[d].hand
        BY <1>13, <1>5, <1>6 DEF NothingOwed, listenerVars, IInv, TypeOK, DrainRecord
  <2>2. notifyMu = d /\ drain[d].hand = <<>> /\ d # None
        BY <2>1, ConstantsAssumption DEF NoticesInv, FlushInv, FlushPC
  <2>3. H = <<>> /\ InHand' = <<>>
        BY <2>1, <2>2, <1>7 DEF InHand
  <2>4. Notices' = Notices
        BY <2>1, <2>3, <1>8
  <2>5. FlushInv'
        BY <2>1, <2>2, <1>3, <1>4 DEF NoticesInv, FlushInv, FlushPC
  <2> QED BY <2>4, <2>5, <1>1, <1>2, SameNotices DEF EndsKept
<1>14. CASE UnlockNotify(d)
  <2>1. /\ told' = T /\ pending' = P /\ notifyMu' = None /\ drain[d].pc = "release"
        /\ drain'[d].pc \in {"begin", "ended"} /\ drain'[d].hand = drain[d].hand
        BY <1>14, <1>1, <1>5, <1>6, AdvanceLeavesFlush DEF UnlockNotify
  <2>2. notifyMu = d /\ drain[d].hand = <<>> /\ d # None
        BY <2>1, ConstantsAssumption DEF NoticesInv, FlushInv, FlushPC
  <2>3. H = <<>> /\ InHand' = <<>>
        BY <2>1, <2>2, <1>7 DEF InHand
  <2>4. Notices' = Notices
        BY <2>1, <2>3, <1>8
  <2>5. FlushInv'
        BY <2>1, <2>2, <1>3, <1>4, ConstantsAssumption DEF NoticesInv, FlushInv, FlushPC
  <2> QED BY <2>4, <2>5, <1>1, <1>2, SameNotices DEF EndsKept
<1> QED BY <1>10, <1>11, <1>12, <1>13, <1>14

\* One more notice, of a build nobody was told of, against the one before it.
LEMMA ChainGrows ==
    ASSUME NEW N \in Seq(Notice), NEW held, NEW n \in Notice, n.previous = held,
           held = None <=> N = <<>>,
           \A i \in DOMAIN N : N[i].previous = IF i = 1 THEN None ELSE N[i - 1].current,
           held # None => N[Len(N)].current = held,
           \A i, j \in DOMAIN N : i # j => N[i].current # N[j].current,
           \A i \in DOMAIN N : N[i].current # n.current,
           NEW M, M = Append(N, n)
    PROVE  /\ M # <<>> /\ M[Len(M)].current = n.current
           /\ \A i \in DOMAIN M : M[i].previous = IF i = 1 THEN None ELSE M[i - 1].current
           /\ \A i, j \in DOMAIN M : i # j => M[i].current # M[j].current
<1>1. /\ M \in Seq(Notice) /\ Len(M) = Len(N) + 1 /\ M[Len(N) + 1] = n
      /\ \A i \in DOMAIN N : M[i] = N[i]
      /\ DOMAIN N = 1..Len(N) /\ DOMAIN M = 1..(Len(N) + 1) /\ Len(N) \in Nat
      OBVIOUS
<1>2. M # <<>> /\ M[Len(M)].current = n.current
      BY <1>1
<1>3. ASSUME NEW i \in DOMAIN M
      PROVE  M[i].previous = IF i = 1 THEN None ELSE M[i - 1].current
  <2>1. CASE i \in DOMAIN N
    <3>1. i # 1 => i - 1 \in DOMAIN N
          BY <2>1, <1>1
    <3> QED BY <2>1, <3>1, <1>1
  <2>2. CASE i = Len(N) + 1 /\ Len(N) = 0
    <3>1. N = <<>>
          BY <2>2
    <3> QED BY <2>2, <3>1, <1>1
  <2>3. CASE i = Len(N) + 1 /\ Len(N) # 0
    <3>1. N # <<>> /\ Len(N) \in DOMAIN N /\ i - 1 = Len(N) /\ i # 1
          BY <2>3, <1>1
    <3> QED BY <2>3, <3>1, <1>1
  <2> QED BY <1>1, <2>1, <2>2, <2>3
<1>4. \A i, j \in DOMAIN M : i # j => M[i].current # M[j].current
      BY <1>1
<1> QED BY <1>2, <1>3, <1>4

\* The critical section after a scan: the build ends, and what was held is what it is told against.
LEMMA PublishNotices ==
    ASSUME IInv, IInv', NoticesInv, NEW d \in Requests, Publish(d)
    PROVE  NoticesInv'
<1>1. PICK b : b = drain[d].work
      OBVIOUS
<1>2. /\ b \in Requests /\ running = b /\ build[b].ended = Zero /\ drain[d].pc = "scanning"
      /\ TypeOK /\ TypeOK'
  <2>1. TypeOK /\ TypeOK' /\ drain[d].pc = "scanning"
        BY DEF Publish, IInv
  <2>2. b \in Requests /\ Charge(d) = b
        BY <1>1, <2>1 DEF IInv, ChainInv, TypeOK, Charge, DrainRecord, Build
  <2>3. running = b
        BY <2>2, ConstantsAssumption DEF IInv, ChainInv
  <2>4. build[b].ended = Zero
        BY <2>2, <2>3, ConstantsAssumption DEF IInv, BuildInv
  <2> QED BY <2>1, <2>2, <2>3, <2>4
<1>3. /\ current' = b /\ told' = told /\ notifyMu' = notifyMu /\ call' = call
      /\ pending' = IF HasListener THEN Append(pending, NoticeOf(b)) ELSE pending
      BY <1>1 DEF Publish
<1>4. /\ drain'[d].pc = "closing" /\ drain'[d].hand = drain[d].hand
      /\ \A e \in Requests \ {d} : drain'[e] = drain[e]
      BY DEF Publish, IInv, TypeOK, DrainRecord
<1>5. /\ build'[b].ended # Zero
      /\ \A x \in Requests : x # b => build'[x].ended = build[x].ended
  <2>1. /\ build \in [Requests -> BuildRecord] /\ now # Zero
        /\ build' = [x \in Requests |->
                       CASE x = b         -> [build[x] EXCEPT !.ended = now]
                         [] x = NextBuild -> [build[x] EXCEPT !.startedAt = now]
                         [] OTHER         -> build[x]]
        BY <1>1 DEF Publish, IInv, TypeOK, Zero
  <2>2. build'[b].ended # Zero
    <3>1. build'[b] = [build[b] EXCEPT !.ended = now]
      <4>1. b # NextBuild
            BY <1>2, ConstantsAssumption DEF NextBuild, IInv, BuildInv, TypeOK
      <4> QED BY <2>1, <1>2, <4>1
    <3>2. [build[b] EXCEPT !.ended = now].ended = now
          BY <2>1, <1>2 DEF BuildRecord
    <3> QED BY <2>1, <3>1, <3>2
  <2>3. ASSUME NEW x \in Requests, x # b PROVE build'[x].ended = build[x].ended
        BY <2>1, <2>3 DEF BuildRecord
  <2> QED BY <2>2, <2>3
<1>6. FlushInv'
  <2>1. d # notifyMu /\ drain[d].hand = <<>> /\ call[d].pc \notin {"idle", "locking"}
        BY <1>2 DEF NoticesInv, FlushInv, FlushPC
  <2> QED BY <2>1, <1>3, <1>4 DEF NoticesInv, FlushInv, FlushPC
<1>7. PICK N : N = Notices
      OBVIOUS
<1>8. N \in Seq(Notice) /\ DOMAIN N = 1..Len(N) /\ \A i \in DOMAIN N : N[i] \in Notice
      BY <1>2, <1>7, NoticesType
<1>9. \A i \in DOMAIN N : N[i].current \in Requests /\ build[N[i].current].ended # Zero
  <2>1. \A i \in DOMAIN N : N[i].current \in Requests
        BY <1>8 DEF Notice
  <2> QED BY <2>1, <1>7 DEF NoticesInv, NoticesEnded
<1>10. \A i \in DOMAIN N : N[i].current # b /\ build'[N[i].current].ended # Zero
       BY <1>2, <1>5, <1>9
<1>11. PICK G \in Seq(Notice) : G = told \o InHand
       BY <1>2, NoticesType, ConcatProperties
<1>12. InHand' = InHand
  <2>1. CASE notifyMu = None
        BY <2>1, <1>3 DEF InHand
  <2>2. CASE notifyMu # None
    <3>1. notifyMu \in Requests
          BY <1>2, <2>2 DEF TypeOK, Build
    <3> QED BY <2>2, <3>1, <1>3, <1>4 DEF InHand
  <2> QED BY <2>1, <2>2
<1>13. N = G \o pending /\ Notices' = G \o pending'
       BY <1>2, <1>3, <1>7, <1>11, <1>12, NoticesType, NoticesTypeNext
<1>14. CASE ~HasListener
  <2>1. Notices' = N
        BY <1>3, <1>13, <1>14
  <2>2. NoticesEnded'
        BY <2>1, <1>10 DEF NoticesEnded
  <2> QED BY <2>2, <1>6, <1>14 DEF NoticesInv, NoticesFormOneChain
<1>15. CASE HasListener
  <2>1. PICK n : n = NoticeOf(b)
        OBVIOUS
  <2>2. n \in Notice /\ n.previous = current /\ n.current = b
        BY <2>1, <1>2 DEF NoticeOf, Notice, TypeOK, BuildRecord
  <2>3. PICK P \in Seq(Notice) : P = pending
        BY <1>2 DEF TypeOK
  <2>4. pending' = Append(P, n)
        BY <2>1, <2>3, <1>3, <1>15
  <2>5. Append(P, n) = P \o <<n>> /\ <<n>> \in Seq(Notice)
        BY <2>2, <2>3, AppendIsConcat
  <2>6. G \o (P \o <<n>>) = (G \o P) \o <<n>>
        BY <2>3, <2>5, ConcatAssociative
  <2>7. Append(N, n) = N \o <<n>>
        BY <2>2, <1>8, AppendIsConcat
  <2>8. PICK M : M = Notices'
        OBVIOUS
  <2>9. M = Append(N, n)
        BY <2>3, <2>4, <2>5, <2>6, <2>7, <2>8, <1>13
  <2>10. /\ current = None <=> N = <<>>
         /\ \A i \in DOMAIN N : N[i].previous = IF i = 1 THEN None ELSE N[i - 1].current
         /\ current # None => N[Len(N)].current = current
         /\ \A i, j \in DOMAIN N : i # j => N[i].current # N[j].current
         BY <1>7, <1>15 DEF NoticesInv, NoticesFormOneChain
  <2>11. /\ M # <<>> /\ M[Len(M)].current = b
         /\ \A i \in DOMAIN M : M[i].previous = IF i = 1 THEN None ELSE M[i - 1].current
         /\ \A i, j \in DOMAIN M : i # j => M[i].current # M[j].current
         BY <2>2, <2>9, <2>10, <1>8, <1>10, ChainGrows
  <2>12. NoticesFormOneChain'
         BY <2>8, <2>11, <1>2, <1>3, ConstantsAssumption DEF NoticesFormOneChain
  <2>13. \A i \in DOMAIN M : build'[M[i].current].ended # Zero
         BY <2>2, <2>9, <1>5, <1>8, <1>10
  <2>14. NoticesEnded'
         BY <2>8, <2>13 DEF NoticesEnded
  <2> QED BY <2>12, <2>14, <1>6 DEF NoticesInv
<1> QED BY <1>14, <1>15

LEMMA NoticesSteps == IInv /\ NoticesInv /\ [Next]_vars => NoticesInv'
<1> SUFFICES ASSUME IInv, NoticesInv, [Next]_vars PROVE NoticesInv'
    OBVIOUS
<1>1. IInv' /\ TypeOK /\ TypeOK'
      BY StepIInv DEF IInv
<1>2. CASE UNCHANGED vars
  <2>1. UNCHANGED <<told, pending, notifyMu, current, drain, build, call>>
        BY <1>2 DEF vars
  <2> QED BY <2>1, <1>1, QuietFlush DEF EndsKept, NoticesInv, FlushInv
<1>3. ASSUME NEW r \in Requests, Lookup(r) PROVE NoticesInv'
      BY <1>1, <1>3, CallStepNotices, StartNotices DEF Lookup
<1>4. CASE \/ Tick \/ \E r \in Requests, ask \in Asks : Arrive(r, ask)
           \/ \E r \in Requests : Answer(r)
           \/ \E r \in Leavers : Cancel(r)
      BY <1>1, <1>4, CallStepNotices, ConstantsAssumption
<1>5. ASSUME NEW d \in Requests, DrainStep(d) \/ Tell(d) PROVE NoticesInv'
      BY <1>1, <1>5, ScanNotices, PublishNotices, FlushNotices DEF DrainStep
<1> QED BY <1>2, <1>3, <1>4, <1>5 DEF Next, Finished

LEMMA InitNotices == Init => NoticesInv
<1> SUFFICES ASSUME Init PROVE NoticesInv
    OBVIOUS
<1>1. \A d \in Requests : drain[d].pc = "none" /\ drain[d].hand = <<>>
      BY DEF Init
<1>2. FlushInv
      BY <1>1, ConstantsAssumption DEF FlushInv, FlushPC, Init
<1>3. Notices = <<>>
  <2>1. told = <<>> /\ pending = <<>> /\ notifyMu = None
        BY DEF Init
  <2>2. <<>> \o <<>> = <<>>
        BY ConcatEmptySeq
  <2> QED BY <2>1, <2>2 DEF Notices
<1>4. NoticesEnded /\ NoticesFormOneChain
      BY <1>3 DEF NoticesEnded, NoticesFormOneChain, Init
<1> QED BY <1>2, <1>4 DEF NoticesInv

\* cache.go, flush: the listener is owed every published build once, in order, each against
\* the one before it, whichever goroutine is doing the telling.
THEOREM NoticesChain == Spec => []NoticesFormOneChain
<1>1. Init => IInv /\ NoticesInv
      BY InitIInv, InitNotices
<1>2. IInv /\ NoticesInv /\ [Next]_vars => IInv' /\ NoticesInv'
      BY StepIInv, NoticesSteps
<1>3. NoticesInv => NoticesFormOneChain
      BY DEF NoticesInv
<1> QED BY <1>1, <1>2, <1>3, PTL DEF Spec

-----------------------------------------------------------------------------
(* Scans and the goroutines that run them: for the refinement. *)

\* A scan is going on only in a goroutine, and what a goroutine has yet to run has not
\* looked at the fleet.
ScanInv ==
    /\ \A b \in Requests :
          build[b].began # Zero /\ build[b].ended = Zero =>
              \E d \in Requests : drain[d].pc = "scanning" /\ drain[d].work = b
    /\ \A d \in Requests :
          drain[d].pc # "scanning" /\ Charge(d) # None => build[Charge(d)].began = Zero

LEMMA InitScan == Init => ScanInv
BY DEF Init, ScanInv, Charge

\* Steps that move neither a scan nor what a goroutine is in charge of.
LEMMA QuietScan ==
    ASSUME IInv, ScanInv, IInv',
           \A b \in Requests : build'[b].began = build[b].began /\ build'[b].ended = build[b].ended,
           \A d \in Requests :
              \/ drain'[d] = drain[d]
              \/ /\ Charge(d)' = Charge(d)
                 /\ drain[d].pc # "scanning" /\ drain'[d].pc # "scanning"
    PROVE  ScanInv'
<1>1. ASSUME NEW b \in Requests, build'[b].began # Zero, build'[b].ended = Zero
      PROVE  \E d \in Requests : drain'[d].pc = "scanning" /\ drain'[d].work = b
  <2>1. PICK d \in Requests : drain[d].pc = "scanning" /\ drain[d].work = b
        BY <1>1 DEF ScanInv
  <2>2. drain'[d] = drain[d]
        BY <2>1
  <2> QED BY <2>1, <2>2
<1>2. ASSUME NEW d \in Requests, drain'[d].pc # "scanning", Charge(d)' # None
      PROVE  build'[Charge(d)'].began = Zero
  <2>1. Charge(d)' = Charge(d) /\ drain[d].pc # "scanning"
        BY <1>2 DEF Charge
  <2>2. Charge(d) \in Requests
        BY <1>2, <2>1 DEF IInv, TypeOK, DrainRecord, Build, Charge
  <2> QED BY <1>2, <2>1, <2>2 DEF ScanInv
<1> QED BY <1>1, <1>2 DEF ScanInv

LEMMA StartScan ==
    ASSUME IInv, ScanInv, IInv', NEW r \in Requests, StartBuild(r)
    PROVE  ScanInv'
<1>1. /\ \A x \in Requests : build'[x].began = build[x].began /\ build'[x].ended = build[x].ended
      /\ \A d \in Requests : d # r => drain'[d] = drain[d]
      /\ drain'[r].pc = "begin" /\ drain'[r].work = r
      /\ running = None /\ call[r].pc = "locking"
      BY DEF StartBuild, MustBuild, Busy, IInv, TypeOK, BuildRecord, DrainRecord
<1>2. \A d \in Requests : Charge(d) = None
      BY <1>1 DEF IInv, ChainInv
<1>3. \A d \in Requests : drain[d].pc # "scanning"
      BY <1>2 DEF IInv, ChainInv, Charge
<1>4. build[r].began = Zero
      BY <1>1 DEF IInv, BuildInv
<1>5. Charge(r)' = r /\ \A d \in Requests : d # r => Charge(d)' = None
      BY <1>1, <1>2 DEF Charge
<1> QED BY <1>1, <1>3, <1>4, <1>5 DEF ScanInv

\* What begins is what the goroutine is in charge of, and nobody else is scanning.
LEMMA BeginsAlone ==
    ASSUME IInv, ScanInv, NEW d \in Requests, BeginScan(d)
    PROVE  /\ drain[d].work \in Requests
           /\ build[drain[d].work].began = Zero /\ build[drain[d].work].ended = Zero
           /\ now \in Nat /\ now # Zero
           /\ \A e \in Requests : e # d => Charge(e) = None /\ drain[e].pc # "scanning"
           /\ \A b \in Requests : ~(build[b].began # Zero /\ build[b].ended = Zero)
<1>1. /\ drain[d].pc = "begin" /\ Charge(d) = drain[d].work /\ drain[d].work # None
      /\ drain[d].work \in Requests
      BY DEF BeginScan, IInv, ChainInv, Charge, TypeOK, DrainRecord, Build
<1>2. build[drain[d].work].began = Zero /\ build[drain[d].work].ended = Zero
      BY <1>1 DEF ScanInv, IInv, BuildInv
<1>3. \A e \in Requests : e # d => Charge(e) = None /\ drain[e].pc # "scanning"
      BY <1>1 DEF IInv, ChainInv, Charge
<1>4. \A b \in Requests : ~(build[b].began # Zero /\ build[b].ended = Zero)
      BY <1>1, <1>3 DEF ScanInv
<1> QED BY <1>1, <1>2, <1>3, <1>4 DEF IInv, TypeOK, Zero

LEMMA BeginEffect ==
    ASSUME IInv, NEW d \in Requests, BeginScan(d), drain[d].work \in Requests
    PROVE  /\ \A x \in Requests : x # drain[d].work => build'[x] = build[x]
           /\ build'[drain[d].work].began = now
           /\ build'[drain[d].work].ended = build[drain[d].work].ended
           /\ build'[drain[d].work].probe = build[drain[d].work].probe
           /\ \A e \in Requests : e # d => drain'[e] = drain[e]
           /\ drain'[d].pc = "scanning" /\ drain'[d].work = drain[d].work
           /\ UNCHANGED <<now, call, current>>
BY DEF BeginScan, IInv, TypeOK, BuildRecord, DrainRecord, cacheVars

LEMMA BeginScanInv ==
    ASSUME IInv, ScanInv, NEW d \in Requests, BeginScan(d)
    PROVE  ScanInv'
<1>1. ASSUME NEW b \in Requests, build'[b].began # Zero, build'[b].ended = Zero
      PROVE  b = drain[d].work
      BY <1>1, BeginsAlone, BeginEffect
<1>2. \A e \in Requests : e # d => Charge(e)' = None
      BY BeginsAlone, BeginEffect DEF Charge
<1> QED BY <1>1, <1>2, BeginsAlone, BeginEffect DEF ScanInv

\* What is published is the only scan that was going on; what comes next has not begun.
LEMMA PublishEffect ==
    ASSUME IInv, NEW d \in Requests, Publish(d)
    PROVE  /\ drain[d].work \in Requests /\ drain[d].pc = "scanning"
           /\ build[drain[d].work].began # Zero /\ build[drain[d].work].ended = Zero
           /\ \A x \in Requests : /\ build'[x].began = build[x].began
                                  /\ build'[x].probe = build[x].probe
                                  /\ x # drain[d].work => build'[x].ended = build[x].ended
           /\ build'[drain[d].work].ended = now
           /\ now \in Nat /\ now # Zero
           /\ \A e \in Requests : e # d => drain'[e] = drain[e]
           /\ drain'[d].pc = "closing" /\ drain'[d].next = NextBuild
           /\ current' = drain[d].work /\ UNCHANGED <<now, call>>
           /\ NextBuild # None => NextBuild \in Requests /\ build[NextBuild].began = Zero
<1>1. /\ drain[d].work \in Requests /\ drain[d].pc = "scanning"
      /\ build[drain[d].work].began # Zero /\ build[drain[d].work].ended = Zero
      /\ now \in Nat /\ now # Zero
      BY DEF Publish, IInv, ChainInv, Charge, BuildInv, TypeOK, DrainRecord, Build, Zero
<1>2. /\ NextBuild # None => NextBuild \in Requests /\ build[NextBuild].began = Zero
      /\ NextBuild # drain[d].work
  <2>1. CASE queued = <<>>
        BY <1>1, <2>1, ConstantsAssumption DEF NextBuild
  <2>2. CASE queued # <<>>
    <3>1. 1 \in DOMAIN queued /\ NextBuild = queued[1] /\ NextBuild \in Requests
          BY <2>2 DEF NextBuild, IInv, TypeOK
    <3>2. drain[d].work = running
          BY <1>1, ConstantsAssumption DEF IInv, ChainInv, Charge
    <3> QED BY <3>1, <3>2 DEF IInv, BuildInv
  <2> QED BY <2>1, <2>2
<1>3. /\ \A x \in Requests : /\ build'[x].began = build[x].began
                             /\ build'[x].probe = build[x].probe
                             /\ x # drain[d].work => build'[x].ended = build[x].ended
      /\ build'[drain[d].work].ended = now
      BY <1>1, <1>2 DEF Publish, IInv, TypeOK, BuildRecord
<1>4. /\ \A e \in Requests : e # d => drain'[e] = drain[e]
      /\ drain'[d].pc = "closing" /\ drain'[d].next = NextBuild
      /\ current' = drain[d].work /\ UNCHANGED <<now, call>>
      BY DEF Publish, IInv, TypeOK, DrainRecord
<1> QED BY <1>1, <1>2, <1>3, <1>4

LEMMA PublishScanInv ==
    ASSUME IInv, ScanInv, NEW d \in Requests, Publish(d)
    PROVE  ScanInv'
<1>1. ASSUME NEW b \in Requests, build'[b].began # Zero, build'[b].ended = Zero
      PROVE  \E e \in Requests : drain'[e].pc = "scanning" /\ drain'[e].work = b
  <2>1. b # drain[d].work
        BY <1>1, PublishEffect
  <2>2. PICK e \in Requests : drain[e].pc = "scanning" /\ drain[e].work = b
        BY <1>1, <2>1, PublishEffect DEF ScanInv
  <2>3. drain'[e] = drain[e]
        BY <2>1, <2>2, PublishEffect
  <2> QED BY <2>2, <2>3
<1>2. ASSUME NEW e \in Requests, drain'[e].pc # "scanning", Charge(e)' # None
      PROVE  build'[Charge(e)'].began = Zero
  <2>1. CASE e = d
    <3>1. Charge(e)' = NextBuild
          BY <2>1, PublishEffect DEF Charge
    <3> QED BY <1>2, <3>1, PublishEffect
  <2>2. CASE e # d
    <3>1. Charge(e)' = Charge(e) /\ drain'[e] = drain[e]
          BY <2>2, PublishEffect DEF Charge
    <3>2. Charge(e) \in Requests
          BY <1>2, <3>1 DEF IInv, TypeOK, DrainRecord, Build, Charge
    <3> QED BY <1>2, <3>1, <3>2, PublishEffect DEF ScanInv
  <2> QED BY <2>1, <2>2
<1> QED BY <1>1, <1>2 DEF ScanInv

\* The other steps of a goroutine.
LEMMA TellingEffect ==
    ASSUME IInv, NEW d \in Requests,
           \/ CloseDone(d) \/ LockNotify(d) \/ TakeNotice(d) \/ Tell(d)
           \/ NothingOwed(d) \/ UnlockNotify(d)
    PROVE  /\ \A x \in Requests : /\ build'[x].began = build[x].began
                                  /\ build'[x].ended = build[x].ended
                                  /\ build'[x].probe = build[x].probe
           /\ \A e \in Requests : e # d => drain'[e] = drain[e]
           /\ Charge(d)' = Charge(d)
           /\ drain[d].pc # "scanning" /\ drain'[d].pc # "scanning"
           /\ UNCHANGED <<now, call, current, queued>>
<1>1. CASE CloseDone(d)
  <2>1. /\ drain[d].pc = "closing" /\ UNCHANGED <<now, call, current, queued>>
        /\ \A x \in Requests : /\ build'[x].began = build[x].began
                               /\ build'[x].ended = build[x].ended
                               /\ build'[x].probe = build[x].probe
        BY <1>1 DEF CloseDone, IInv, TypeOK, BuildRecord, cacheVars
  <2>2. CASE HasListener
    <3>1. /\ \A e \in Requests : e # d => drain'[e] = drain[e]
          /\ drain'[d].pc = "notify" /\ drain'[d].next = drain[d].next
          BY <1>1, <2>2 DEF CloseDone, IInv, TypeOK, DrainRecord
    <3> QED BY <2>1, <3>1 DEF Charge
  <2>3. CASE ~HasListener
    <3>1. Advance(d)
          BY <1>1, <2>3 DEF CloseDone
    <3> QED BY <2>1, <3>1, AdvanceKeepsCharge
  <2> QED BY <2>2, <2>3
<1>2. CASE LockNotify(d) \/ TakeNotice(d) \/ Tell(d) \/ NothingOwed(d)
  <2>1. /\ \A e \in Requests : e # d => drain'[e] = drain[e]
        /\ drain[d].pc \in {"notify", "take", "telling"}
        /\ drain'[d].pc \in {"take", "telling", "release"}
        /\ drain'[d].next = drain[d].next
        /\ UNCHANGED <<now, call, build, current, queued>>
        BY <1>2 DEF LockNotify, TakeNotice, Tell, NothingOwed, IInv, TypeOK, DrainRecord,
                    cacheVars
  <2> QED BY <2>1 DEF Charge
<1>3. CASE UnlockNotify(d)
  <2>1. Advance(d) /\ drain[d].pc = "release" /\ UNCHANGED <<now, call, build, current, queued>>
        BY <1>3 DEF UnlockNotify, cacheVars
  <2> QED BY <2>1, AdvanceKeepsCharge
<1> QED BY <1>1, <1>2, <1>3

\* What a step of a goroutine may be.
LEMMA DrainCases ==
    ASSUME NEW d \in Requests, DrainStep(d) \/ Tell(d)
    PROVE  \/ BeginScan(d) \/ Publish(d)
           \/ CloseDone(d) \/ LockNotify(d) \/ TakeNotice(d) \/ Tell(d)
           \/ NothingOwed(d) \/ UnlockNotify(d)
BY DEF DrainStep

LEMMA StepScan == IInv /\ IInv' /\ ScanInv /\ [Next]_vars => ScanInv'
<1> SUFFICES ASSUME IInv, IInv', ScanInv, [Next]_vars PROVE ScanInv'
    OBVIOUS
<1>1. CASE UNCHANGED <<build, drain>>
      BY <1>1, QuietScan
<1>2. ASSUME NEW r \in Requests, Lookup(r) PROVE ScanInv'
  <2>1. CASE JoinQueued(r) \/ JoinRunning(r)
    <3>1. PICK b \in Requests : Join(r, b)
          BY <2>1, JoinsABuild DEF IInv
    <3>2. /\ drain' = drain
          /\ \A x \in Requests : build'[x].began = build[x].began /\ build'[x].ended = build[x].ended
          BY <3>1 DEF Join, IInv, TypeOK, BuildRecord
    <3> QED BY <3>2, QuietScan
  <2>2. CASE ServeHeld(r)
        BY <1>1, <2>2 DEF ServeHeld
  <2>3. CASE QueueBuild(r)
    <3>1. /\ drain' = drain
          /\ \A x \in Requests : build'[x].began = build[x].began /\ build'[x].ended = build[x].ended
          BY <2>3 DEF QueueBuild, IInv, TypeOK, BuildRecord
    <3> QED BY <3>1, QuietScan
  <2>4. CASE StartBuild(r)
        BY <2>4, StartScan
  <2> QED BY <1>2, <2>1, <2>2, <2>3, <2>4 DEF Lookup
<1>3. ASSUME NEW d \in Requests, DrainStep(d) \/ Tell(d) PROVE ScanInv'
  <2>1. CASE BeginScan(d)
        BY <2>1, BeginScanInv
  <2>2. CASE Publish(d)
        BY <2>2, PublishScanInv
  <2>3. CASE \/ CloseDone(d) \/ LockNotify(d) \/ TakeNotice(d) \/ Tell(d)
             \/ NothingOwed(d) \/ UnlockNotify(d)
        BY <2>3, TellingEffect, QuietScan
  <2> QED BY <1>3, <2>1, <2>2, <2>3, DrainCases
<1> QED BY <1>1, <1>2, <1>3 DEF Next, Finished, vars, Tick, Arrive, Answer, Cancel

-----------------------------------------------------------------------------
(* The mapping. *)

AskOf(r) == [phase |-> CallPhase(call[r].pc), forced |-> call[r].forced,
             probe |-> call[r].probe, arrived |-> call[r].arrived, answer |-> call[r].answer]

ScanOf(b) == [phase |-> ScanPhase(b),
              probe |-> IF build[b].began = Zero THEN Unset ELSE build[b].probe,
              began |-> build[b].began, ended |-> build[b].ended]

LEMMA CallPhases ==
    /\ CallPhase("idle") = "idle" /\ CallPhase("answered") = "answered"
    /\ CallPhase("locking") = "asked" /\ CallPhase("waiting") = "asked"
    /\ CallPhase("cancelled") = "left"
BY DEF CallPhase

LEMMA ScanPhases ==
    ASSUME NEW b
    PROVE  /\ build[b].began = Zero => ScanPhase(b) = "unseen"
           /\ build[b].began # Zero /\ build[b].ended = Zero => ScanPhase(b) = "scanning"
           /\ build[b].began # Zero /\ build[b].ended # Zero => ScanPhase(b) = "finished"
           /\ build'[b].began = Zero => ScanPhase(b)' = "unseen"
           /\ build'[b].began # Zero /\ build'[b].ended = Zero => ScanPhase(b)' = "scanning"
           /\ build'[b].began # Zero /\ build'[b].ended # Zero => ScanPhase(b)' = "finished"
BY DEF ScanPhase

\* A scan looks the same from outside when its times and, once it began, its override do.
LEMMA SameScan ==
    ASSUME NEW b, build'[b].began = build[b].began, build'[b].ended = build[b].ended,
           build[b].began # Zero => build'[b].probe = build[b].probe
    PROVE  ScanOf(b)' = ScanOf(b)
BY ScanPhases DEF ScanOf

LEMMA InitRefines == Init => Service!Init
<1> SUFFICES ASSUME Init PROVE Service!Init
    OBVIOUS
<1>1. \A r \in Requests : AskOf(r) = [phase |-> "idle", forced |-> FALSE, probe |-> Unset,
                                       arrived |-> 0, answer |-> None]
      BY CallPhases DEF Init, AskOf, Zero
<1>2. \A b \in Requests : ScanOf(b) = [phase |-> "unseen", probe |-> Unset,
                                        began |-> 0, ended |-> 0]
      BY ScanPhases DEF Init, ScanOf, Zero
<1> QED BY <1>1, <1>2 DEF Init, Service!Init, AskOf, ScanOf

\* The clock, who asks and what is scanned: a step that changes none of it is a stutter.
LEMMA Stutters ==
    ASSUME UNCHANGED <<now, current>>, \A r \in Requests : AskOf(r)' = AskOf(r),
           \A b \in Requests : ScanOf(b)' = ScanOf(b)
    PROVE  UNCHANGED Service!vars
BY DEF Service!vars, AskOf, ScanOf

LEMMA AskChanges ==
    ASSUME NEW r \in Requests, NEW q, AskOf(r)' = q,
           \A x \in Requests : x # r => AskOf(x)' = AskOf(x)
    PROVE  [x \in Requests |-> AskOf(x)]' = [[x \in Requests |-> AskOf(x)] EXCEPT ![r] = q]
OBVIOUS

LEMMA ScanChanges ==
    ASSUME NEW b \in Requests, NEW q, ScanOf(b)' = q,
           \A x \in Requests : x # b => ScanOf(x)' = ScanOf(x)
    PROVE  [x \in Requests |-> ScanOf(x)]' = [[x \in Requests |-> ScanOf(x)] EXCEPT ![b] = q]
OBVIOUS

LEMMA ArriveRefines ==
    ASSUME IInv, NEW r \in Requests, NEW ask \in Asks, Arrive(r, ask)
    PROVE  Service!Next
<1> DEFINE asked == [phase |-> "asked", forced |-> ask.forced, probe |-> ask.probe,
                     arrived |-> now, answer |-> AskOf(r).answer]
<1>1. ask.forced \in BOOLEAN /\ ask.probe \in Service!Override
      BY ConstantsAssumption DEF Service!Override
<1>2. /\ call[r].pc = "idle" /\ call'[r].pc = "locking" /\ call'[r].forced = ask.forced
      /\ call'[r].probe = ask.probe /\ call'[r].arrived = now
      /\ call'[r].answer = call[r].answer
      /\ \A x \in Requests : x # r => call'[x] = call[x]
      /\ UNCHANGED <<now, build, current>>
      BY DEF Arrive, IInv, TypeOK, CallRecord, cacheVars
<1>3. AskOf(r)' = asked /\ \A x \in Requests : x # r => AskOf(x)' = AskOf(x)
      BY <1>2, CallPhases DEF AskOf
<1>4. \A b \in Requests : ScanOf(b)' = ScanOf(b)
      BY <1>2, SameScan
<1>5. [x \in Requests |-> AskOf(x)]' = [[x \in Requests |-> AskOf(x)] EXCEPT ![r] = asked]
  <2> HIDE DEF asked
  <2> QED BY <1>3, AskChanges
<1>6. CallPhase(call[r].pc) = "idle"
      BY <1>2, CallPhases
<1>7. Service!Ask(r, ask.forced, ask.probe)
      BY <1>2, <1>4, <1>5, <1>6 DEF Service!Ask, AskOf, ScanOf
<1> QED BY <1>1, <1>7 DEF Service!Next

\* A request that waits, for a build there is or one it made, has still only asked.
LEMMA WaitRefines ==
    ASSUME IInv, NEW r \in Requests,
           JoinQueued(r) \/ JoinRunning(r) \/ QueueBuild(r) \/ StartBuild(r)
    PROVE  UNCHANGED Service!vars
<1>1. CASE JoinQueued(r) \/ JoinRunning(r)
  <2>1. PICK b \in Requests : Join(r, b) /\ call[r].pc = "locking"
        BY <1>1, JoinsABuild DEF IInv
  <2>2. /\ call'[r].pc = "waiting" /\ call'[r].forced = call[r].forced
        /\ call'[r].probe = call[r].probe /\ call'[r].arrived = call[r].arrived
        /\ call'[r].answer = call[r].answer
        /\ \A x \in Requests : x # r => call'[x] = call[x]
        /\ \A x \in Requests : /\ build'[x].began = build[x].began
                               /\ build'[x].ended = build[x].ended
                               /\ build'[x].probe = build[x].probe
        /\ UNCHANGED <<now, current>>
        BY <2>1 DEF Join, IInv, TypeOK, CallRecord, BuildRecord, cacheVars
  <2>3. \A x \in Requests : AskOf(x)' = AskOf(x)
        BY <2>1, <2>2, CallPhases DEF AskOf
  <2> QED BY <2>2, <2>3, SameScan, Stutters
<1>2. CASE QueueBuild(r) \/ StartBuild(r)
  <2>1. /\ call[r].pc = "locking"
        /\ call'[r].pc = "waiting" /\ call'[r].forced = call[r].forced
        /\ call'[r].probe = call[r].probe /\ call'[r].arrived = call[r].arrived
        /\ call'[r].answer = call[r].answer
        /\ \A x \in Requests : x # r => call'[x] = call[x] /\ build'[x] = build[x]
        /\ build'[r].began = build[r].began /\ build'[r].ended = build[r].ended
        /\ UNCHANGED <<now, current>>
        BY <1>2 DEF QueueBuild, StartBuild, MustBuild, IInv, TypeOK, CallRecord, BuildRecord
  <2>2. build[r].began = Zero
        BY <2>1 DEF IInv, BuildInv
  <2>3. \A x \in Requests : AskOf(x)' = AskOf(x)
        BY <2>1, CallPhases DEF AskOf
  <2>4. \A x \in Requests : ScanOf(x)' = ScanOf(x)
        BY <2>1, <2>2, SameScan
  <2> QED BY <2>1, <2>3, <2>4, Stutters
<1> QED BY <1>1, <1>2

\* A call that returns with a build, or leaves with what is held.
LEMMA ToldRefines ==
    ASSUME IInv, NEW r \in Requests, NEW pc \in {"answered", "cancelled"}, NEW a,
           call[r].pc \in {"locking", "waiting"},
           call'[r].pc = pc, call'[r].answer = a, call'[r].forced = call[r].forced,
           call'[r].probe = call[r].probe, call'[r].arrived = call[r].arrived,
           \A x \in Requests : x # r => call'[x] = call[x],
           UNCHANGED <<now, build, current>>
    PROVE  /\ [x \in Requests |-> AskOf(x)]' =
                 [[x \in Requests |-> AskOf(x)] EXCEPT
                     ![r] = Service!Told(@, CallPhase(pc), a)]
           /\ AskOf(r).phase = "asked"
           /\ [x \in Requests |-> ScanOf(x)]' = [x \in Requests |-> ScanOf(x)]
<1> DEFINE q == Service!Told(AskOf(r), CallPhase(pc), a)
<1>1. AskOf(r)' = q /\ \A x \in Requests : x # r => AskOf(x)' = AskOf(x)
      BY DEF AskOf, Service!Told
<1>2. [x \in Requests |-> AskOf(x)]' = [[x \in Requests |-> AskOf(x)] EXCEPT ![r] = q]
  <2> HIDE DEF q
  <2> QED BY <1>1, AskChanges
<1>3. \A b \in Requests : ScanOf(b)' = ScanOf(b)
      BY SameScan
<1>4. AskOf(r).phase = "asked"
      BY CallPhases DEF AskOf
<1>5. [x \in Requests |-> AskOf(x)][r] = AskOf(r)
      OBVIOUS
<1> QED BY <1>2, <1>3, <1>4, <1>5

\* What an answered request was owed (CallInv) is what ScanService entitles it to.
LEMMA ReplyRefines ==
    ASSUME IInv, IInv', NEW r \in Requests, ServeHeld(r) \/ Answer(r)
    PROVE  Service!Next
<1>0. PICK s : s = call'[r].answer
      OBVIOUS
<1>1. /\ call[r].pc \in {"locking", "waiting"} /\ call'[r].pc = "answered"
      /\ call'[r].forced = call[r].forced
      /\ call'[r].probe = call[r].probe /\ call'[r].arrived = call[r].arrived
      /\ \A x \in Requests : x # r => call'[x] = call[x]
      /\ UNCHANGED <<now, build, current>>
  <2>1. CASE ServeHeld(r)
        BY <2>1 DEF ServeHeld, IInv, TypeOK, CallRecord, cacheVars
  <2>2. CASE Answer(r)
        BY <2>2 DEF Answer, IInv, TypeOK, CallRecord, cacheVars
  <2> QED BY <2>1, <2>2
<1>2. /\ s \in Requests /\ build[s].ended # Zero
      /\ Suits(call[r].probe, build[s].probe)
      /\ IF call[r].forced THEN build[s].startedAt >= call[r].arrived
         ELSE build[s].ended >= call[r].arrived \/ call[r].arrived - build[s].startedAt < TTL
      BY <1>0, <1>1 DEF IInv, CallInv, TypeOK, CallRecord, Build
<1>3. /\ build[s].began # Zero /\ build[s].startedAt <= build[s].began
      /\ build[s].startedAt \in Nat /\ build[s].began \in Nat /\ build[s].ended \in Nat
      /\ call[r].arrived \in Nat /\ TTL \in Int
      BY <1>2, ConstantsAssumption DEF IInv, BuildInv, TypeOK, BuildRecord, CallRecord
<1>4. ScanOf(s).phase = "finished"
      BY <1>2, <1>3, ScanPhases DEF ScanOf
<1>5. Service!Entitled(AskOf(r), ScanOf(s))
  <2>1. /\ AskOf(r).probe = call[r].probe /\ AskOf(r).forced = call[r].forced
        /\ AskOf(r).arrived = call[r].arrived
        /\ ScanOf(s).probe = build[s].probe /\ ScanOf(s).began = build[s].began
        /\ ScanOf(s).ended = build[s].ended
        BY <1>3 DEF AskOf, ScanOf
  <2> QED BY <1>2, <1>3, <2>1 DEF Service!Entitled, Suits
<1>6. /\ [x \in Requests |-> AskOf(x)]' =
            [[x \in Requests |-> AskOf(x)] EXCEPT ![r] = Service!Told(@, "answered", s)]
      /\ AskOf(r).phase = "asked"
      /\ [x \in Requests |-> ScanOf(x)]' = [x \in Requests |-> ScanOf(x)]
      BY <1>0, <1>1, ToldRefines, CallPhases
<1>7. Service!Reply(r, s)
      BY <1>1, <1>2, <1>4, <1>5, <1>6 DEF Service!Reply, AskOf, ScanOf
<1> QED BY <1>2, <1>7 DEF Service!Next

LEMMA LeaveRefines ==
    ASSUME IInv, NEW r \in Requests, Cancel(r)
    PROVE  Service!Next
<1>1. /\ call[r].pc = "waiting" /\ call'[r].pc = "cancelled" /\ call'[r].answer = current
      /\ call'[r].forced = call[r].forced
      /\ call'[r].probe = call[r].probe /\ call'[r].arrived = call[r].arrived
      /\ \A x \in Requests : x # r => call'[x] = call[x]
      /\ UNCHANGED <<now, build, current>>
      BY DEF Cancel, IInv, TypeOK, CallRecord, cacheVars
<1>2. /\ [x \in Requests |-> AskOf(x)]' =
            [[x \in Requests |-> AskOf(x)] EXCEPT ![r] = Service!Told(@, "left", current)]
      /\ AskOf(r).phase = "asked"
      /\ [x \in Requests |-> ScanOf(x)]' = [x \in Requests |-> ScanOf(x)]
      BY <1>1, ToldRefines, CallPhases
<1>3. Service!Leave(r)
      BY <1>1, <1>2 DEF Service!Leave, AskOf, ScanOf
<1> QED BY <1>3 DEF Service!Next

LEMMA BeginRefines ==
    ASSUME IInv, ScanInv, NEW d \in Requests, BeginScan(d)
    PROVE  Service!Next
<1>1. PICK s \in Requests : s = drain[d].work
      BY BeginsAlone
<1>2. PICK p : p = build[s].probe
      OBVIOUS
<1> DEFINE q == [phase |-> "scanning", probe |-> p, began |-> now, ended |-> ScanOf(s).ended]
<1>3. ScanOf(s)' = q
      BY <1>1, <1>2, BeginsAlone, BeginEffect, ScanPhases DEF ScanOf
<1>4. \A x \in Requests : x # s => ScanOf(x)' = ScanOf(x)
      BY <1>1, BeginsAlone, BeginEffect, SameScan
<1>5. [x \in Requests |-> ScanOf(x)]' = [[x \in Requests |-> ScanOf(x)] EXCEPT ![s] = q]
  <2> HIDE DEF q
  <2> QED BY <1>3, <1>4, ScanChanges
<1>6. UNCHANGED <<now, call, current>>
      BY <1>1, BeginEffect
<1>7. /\ ScanOf(s).phase = "unseen"
      /\ \A t \in Requests : ScanOf(t).phase # "scanning"
  <2>1. \A t \in Requests : ScanPhase(t) # "scanning"
        BY BeginsAlone, ScanPhases
  <2>2. ScanPhase(s) = "unseen"
        BY <1>1, BeginsAlone, ScanPhases
  <2> QED BY <2>1, <2>2 DEF ScanOf
<1>8. p \in Service!Override
      BY <1>2 DEF IInv, TypeOK, BuildRecord, Override, Service!Override
<1>9. Service!Begin(s, p)
      BY <1>5, <1>6, <1>7 DEF Service!Begin, AskOf, ScanOf
<1> QED BY <1>8, <1>9 DEF Service!Next

LEMMA PublishRefines ==
    ASSUME IInv, NEW d \in Requests, Publish(d)
    PROVE  Service!Next
<1>1. PICK s \in Requests : s = drain[d].work
      BY PublishEffect
<1> DEFINE q == [phase |-> "finished", probe |-> ScanOf(s).probe,
                 began |-> ScanOf(s).began, ended |-> now]
<1>2. ScanOf(s)' = q
      BY <1>1, PublishEffect, ScanPhases DEF ScanOf
<1>3. \A x \in Requests : x # s => ScanOf(x)' = ScanOf(x)
      BY <1>1, PublishEffect, SameScan
<1>4. [x \in Requests |-> ScanOf(x)]' = [[x \in Requests |-> ScanOf(x)] EXCEPT ![s] = q]
  <2> HIDE DEF q
  <2> QED BY <1>2, <1>3, ScanChanges
<1>5. UNCHANGED <<now, call>> /\ current' = s
      BY <1>1, PublishEffect
<1>6. ScanOf(s).phase = "scanning"
      BY <1>1, PublishEffect, ScanPhases DEF ScanOf
<1>7. Service!Finish(s)
      BY <1>4, <1>5, <1>6 DEF Service!Finish, AskOf, ScanOf
<1> QED BY <1>7 DEF Service!Next

LEMMA StepRefines ==
    IInv /\ IInv' /\ ScanInv /\ [Next]_vars => [Service!Next]_(Service!vars)
<1> SUFFICES ASSUME IInv, IInv', ScanInv, [Next]_vars
             PROVE  Service!Next \/ UNCHANGED Service!vars
    OBVIOUS
<1>1. CASE Tick
  <2>1. Service!Tick
        BY <1>1 DEF Tick, cacheVars, Service!Tick, ScanPhase
  <2> QED BY <2>1 DEF Service!Next
<1>2. ASSUME NEW r \in Requests, NEW ask \in Asks, Arrive(r, ask)
      PROVE  Service!Next
      BY <1>2, ArriveRefines
<1>3. ASSUME NEW r \in Requests, Lookup(r) \/ Answer(r)
      PROVE  Service!Next \/ UNCHANGED Service!vars
      BY <1>3, WaitRefines, ReplyRefines DEF Lookup
<1>4. ASSUME NEW r \in Requests, Cancel(r)
      PROVE  Service!Next
      BY <1>4, LeaveRefines
<1>5. ASSUME NEW d \in Requests, DrainStep(d) \/ Tell(d)
      PROVE  Service!Next \/ UNCHANGED Service!vars
  <2>1. CASE BeginScan(d)
        BY <2>1, BeginRefines
  <2>2. CASE Publish(d)
        BY <2>2, PublishRefines
  <2>3. CASE \/ CloseDone(d) \/ LockNotify(d) \/ TakeNotice(d) \/ Tell(d)
             \/ NothingOwed(d) \/ UnlockNotify(d)
    <3>1. /\ UNCHANGED <<now, call, current>>
          /\ \A x \in Requests : ScanOf(x)' = ScanOf(x)
          BY <2>3, TellingEffect, SameScan
    <3>2. \A x \in Requests : AskOf(x)' = AskOf(x)
          BY <3>1 DEF AskOf
    <3> QED BY <3>1, <3>2, Stutters
  <2> QED BY <1>5, <2>1, <2>2, <2>3, DrainCases
<1>6. CASE UNCHANGED vars
  <2>1. UNCHANGED <<now, call, build, current>>
        BY <1>6 DEF vars
  <2>2. \A x \in Requests : AskOf(x)' = AskOf(x) /\ ScanOf(x)' = ScanOf(x)
        BY <2>1, SameScan DEF AskOf
  <2> QED BY <2>1, <2>2, Stutters
<1> QED BY <1>1, <1>2, <1>3, <1>4, <1>5, <1>6, ConstantsAssumption DEF Next, Finished

-----------------------------------------------------------------------------
(* The queue. *)

LEMMA InitQueue == Init => QueueOnlyDisagrees
BY DEF Init, QueueOnlyDisagrees

LEMMA SameQueue ==
    ASSUME QueueOnlyDisagrees, IInv, queued' = queued,
           \A x \in Requests : call[x].pc # "locking" => build'[x].probe = build[x].probe
    PROVE  QueueOnlyDisagrees'
<1>1. \A i \in DOMAIN queued : queued[i] \in Requests /\ call[queued[i]].pc # "locking"
      BY DEF IInv, TypeOK, BuildInv
<1> QED BY <1>1 DEF QueueOnlyDisagrees, Suits

LEMMA StepQueue == IInv /\ QueueOnlyDisagrees /\ [Next]_vars => QueueOnlyDisagrees'
<1> SUFFICES ASSUME IInv, QueueOnlyDisagrees, [Next]_vars PROVE QueueOnlyDisagrees'
    OBVIOUS
<1>1. CASE UNCHANGED <<build, queued>>
      BY <1>1, SameQueue
<1>2. ASSUME NEW r \in Requests, Lookup(r) PROVE QueueOnlyDisagrees'
  <2>1. CASE JoinQueued(r) \/ JoinRunning(r)
    <3>1. PICK b \in Requests : Join(r, b)
          BY <2>1, JoinsABuild DEF IInv
    <3>2. queued' = queued /\ \A x \in Requests : build'[x].probe = build[x].probe
          BY <3>1 DEF Join, IInv, TypeOK, BuildRecord, cacheVars
    <3> QED BY <3>2, SameQueue
  <2>2. CASE ServeHeld(r)
        BY <1>1, <2>2 DEF ServeHeld, cacheVars
  <2>3. CASE StartBuild(r)
    <3>1. /\ queued' = queued /\ call[r].pc = "locking"
          /\ \A x \in Requests : x # r => build'[x] = build[x]
          BY <2>3 DEF StartBuild, MustBuild, IInv, TypeOK
    <3> QED BY <3>1, SameQueue
  <2>4. CASE QueueBuild(r)
    <3>1. /\ queued' = Append(queued, r) /\ queued \in Seq(Requests) /\ SuitingInQueue(r) = {}
          /\ call[r].pc = "locking" /\ build'[r].probe = call[r].probe
          /\ \A x \in Requests : x # r => build'[x] = build[x]
          BY <2>4 DEF QueueBuild, MustBuild, IInv, TypeOK, BuildRecord
    <3>2. /\ Len(queued) \in Nat /\ DOMAIN queued = 1..Len(queued)
          /\ DOMAIN queued' = 1..(Len(queued) + 1)
          /\ \A i \in DOMAIN queued : queued'[i] = queued[i]
          /\ queued'[Len(queued) + 1] = r
          BY <3>1
    <3>3. \A i \in DOMAIN queued :
             /\ queued[i] \in Requests /\ queued[i] # r
             /\ build'[queued[i]].probe = build[queued[i]].probe
             /\ ~Suits(call[r].probe, build[queued[i]].probe)
          BY <3>1 DEF IInv, TypeOK, BuildInv, SuitingInQueue
    <3>4. ASSUME NEW i \in DOMAIN queued', NEW j \in DOMAIN queued', i < j
          PROVE  ~Suits(build'[queued'[j]].probe, build'[queued'[i]].probe)
      <4>1. i \in DOMAIN queued
            BY <3>2, <3>4
      <4>2. CASE j = Len(queued) + 1
            BY <3>1, <3>2, <3>3, <4>1, <4>2
      <4>3. CASE j \in DOMAIN queued
            BY <3>2, <3>3, <3>4, <4>1, <4>3 DEF QueueOnlyDisagrees
      <4> QED BY <3>2, <4>2, <4>3
    <3> QED BY <3>4 DEF QueueOnlyDisagrees, Suits
  <2> QED BY <1>2, <2>1, <2>2, <2>3, <2>4 DEF Lookup
<1>3. ASSUME NEW d \in Requests, DrainStep(d) \/ Tell(d) PROVE QueueOnlyDisagrees'
  <2>1. CASE BeginScan(d)
    <3>1. /\ queued' = queued /\ drain[d].work \in Requests
          BY <2>1 DEF BeginScan, cacheVars, IInv, ChainInv, TypeOK, DrainRecord, Build
    <3>2. \A x \in Requests : build'[x].probe = build[x].probe
          BY <2>1, <3>1, BeginEffect
    <3> QED BY <3>1, <3>2, SameQueue
  <2>2. CASE Publish(d)
    <3>1. /\ queued \in Seq(Requests)
          /\ queued' = IF queued = <<>> THEN queued ELSE Tail(queued)
          /\ \A x \in Requests : build'[x].probe = build[x].probe
          BY <2>2, PublishEffect DEF Publish, IInv, TypeOK
    <3>2. CASE queued = <<>>
          BY <3>1, <3>2, SameQueue
    <3>3. CASE queued # <<>>
      <4>1. \A i \in DOMAIN queued' : /\ i + 1 \in DOMAIN queued
                                      /\ queued'[i] = queued[i + 1]
                                      /\ queued[i + 1] \in Requests
            BY <3>1, <3>3
      <4>2. \A i, j \in DOMAIN queued' : i < j => i + 1 < j + 1
            BY <3>1, <3>3
      <4>3. ASSUME NEW i \in DOMAIN queued', NEW j \in DOMAIN queued', i < j
            PROVE  ~Suits(build'[queued'[j]].probe, build'[queued'[i]].probe)
        <5>1. ~Suits(build[queued[j + 1]].probe, build[queued[i + 1]].probe)
              BY <4>1, <4>2, <4>3 DEF QueueOnlyDisagrees
        <5> QED BY <3>1, <4>1, <5>1
      <4> QED BY <4>3 DEF QueueOnlyDisagrees, Suits
    <3> QED BY <3>2, <3>3
  <2>3. CASE \/ CloseDone(d) \/ LockNotify(d) \/ TakeNotice(d) \/ Tell(d)
             \/ NothingOwed(d) \/ UnlockNotify(d)
        BY <2>3, TellingEffect, SameQueue
  <2> QED BY <1>3, <2>1, <2>2, <2>3, DrainCases
<1> QED BY <1>1, <1>2, <1>3 DEF Next, Finished, vars, Tick, Arrive, Answer, Cancel, cacheVars

-----------------------------------------------------------------------------
(* The theorems. *)

\* A scan going on is one goroutine's, and none has looked at the fleet before its turn.
THEOREM ScansHaveGoroutines == Spec => []ScanInv
<1>1. Init => ScanInv
      BY InitScan
<1>2. IInv /\ IInv' /\ ScanInv /\ [Next]_vars => ScanInv'
      BY StepScan
<1> QED BY <1>1, <1>2, CacheInvariant, PTL DEF Spec

\* Get with its lock, queue, goroutines and listener does nothing ScanService does not:
\* callers are answered by finished scans they are entitled to and scans happen one at a
\* time (cache.go).
THEOREM CacheImplementsService == Spec => ServiceSafety
<1>1. Init => Service!Init
      BY InitRefines
<1>2. IInv /\ IInv' /\ ScanInv /\ [Next]_vars => [Service!Next]_(Service!vars)
      BY StepRefines
<1> QED BY <1>1, <1>2, CacheInvariant, ScansHaveGoroutines, PTL
        DEF Spec, ServiceSafety, Service!Safety

\* No two builds wait in the queue of which the older could have answered the caller of
\* the younger.
THEOREM QueueDisagrees == Spec => []QueueOnlyDisagrees
<1>1. Init => QueueOnlyDisagrees
      BY InitQueue
<1>2. IInv /\ QueueOnlyDisagrees /\ [Next]_vars => QueueOnlyDisagrees'
      BY StepQueue
<1> QED BY <1>1, <1>2, CacheInvariant, PTL DEF Spec
-----------------------------------------------------------------------------
logged == <<vars, reports, logVars>>

-----------------------------------------------------------------------------
(* The listener and the cache. *)

\* Every step with the listener is a step of the cache.
LEMMA LogStepsAreSteps == [LogNext]_logged => [Next]_vars
<1> SUFFICES ASSUME [LogNext]_logged PROVE [Next]_vars
    OBVIOUS
<1>1. CASE UNCHANGED logged
      BY <1>1 DEF logged
<1>2. ASSUME NEW d \in Requests, Built(d) PROVE Next
      BY <1>2 DEF Built, Next
<1> QED BY <1>1, <1>2 DEF LogNext

\* wire.go, built: whatever the listener does, the cache under it is the cache of the theorems.
THEOREM ListenerLeavesTheCache == LogSpec => Spec
<1>1. LogInit => Init
      BY DEF LogInit
<1> QED BY <1>1, LogStepsAreSteps, PTL DEF LogSpec, Spec, logged

\* So its invariants hold here.
LEMMA CacheUnderListener == LogSpec => [](IInv /\ NoticesInv)
<1>1. Init => IInv /\ NoticesInv
      BY InitIInv, InitNotices
<1>2. IInv /\ NoticesInv /\ [Next]_vars => IInv' /\ NoticesInv'
      BY StepIInv, NoticesSteps
<1> QED BY <1>1, <1>2, ListenerLeavesTheCache, PTL DEF Spec

\* cache.go, flush: under this listener too, every published build is told of once, in order.
THEOREM ListenerIsToldOnce == LogSpec => []NoticesFormOneChain
<1>1. NoticesInv => NoticesFormOneChain
      BY DEF NoticesInv
<1> QED BY <1>1, CacheUnderListener, PTL

-----------------------------------------------------------------------------
(* Who forced a build. *)

\* A build somebody forced and waits for, or waited for, is marked as forced.
MarkedInv ==
    \A r \in Requests :
        /\ call[r].pc \in {"idle", "locking"} => call[r].on = None
        /\ call[r].on # None /\ call[r].forced = TRUE => build[call[r].on].forced = TRUE

\* What a notice says of its build: it is over, and was forced by whoever forced it.
Truthful(n) ==
    /\ n.current \in Requests /\ build[n.current].ended # Zero
    /\ build[n.current].forced = TRUE => n.forced = TRUE

\* Every notice says so, wherever it is, and whoever it names was given a line.
OwedInv ==
    /\ \A i \in DOMAIN pending : Truthful(pending[i])
    /\ \A d \in Requests : \A i \in DOMAIN drain[d].hand : Truthful(drain[d].hand[i])
    /\ \A d \in Requests : drain[d].pc = "telling" => drain[d].hand # <<>>
SpokenInv ==
    \A i \in DOMAIN log : Truthful(log[i].note) /\ (log[i].note.forced = TRUE => log[i].said = TRUE)

\* What the reports of the next scan are held against, once nothing is owed.
CaughtUp == current # None /\ pending = <<>> /\ InHand = <<>> => previous = reports[current]

\* One entry of the log.
Written == [note : Notice, seen : Requests, lines : SUBSET Targets, said : BOOLEAN]

LogInv == log \in Seq(Written) /\ MarkedInv /\ OwedInv /\ SpokenInv /\ CaughtUp

\* A build that is over is marked for good: nobody joins it any more.
Settled ==
    \A b \in Requests :
        build[b].ended # Zero =>
            build'[b].ended # Zero /\ build'[b].forced = build[b].forced

MarksGrow == \A b \in Requests : build[b].forced = TRUE => build'[b].forced = TRUE

\* A step of one request, which only adds marks.
LEMMA MarksKept ==
    ASSUME TypeOK, MarkedInv, MarksGrow, NEW r \in Requests,
           \A x \in Requests \ {r} : call'[x] = call[x],
           call'[r].pc \in {"idle", "locking"} => call'[r].on = None,
           call'[r].on # None /\ call'[r].forced = TRUE => build'[call'[r].on].forced = TRUE
    PROVE  MarkedInv'
<1> SUFFICES ASSUME NEW x \in Requests
             PROVE  /\ call'[x].pc \in {"idle", "locking"} => call'[x].on = None
                    /\ call'[x].on # None /\ call'[x].forced = TRUE =>
                           build'[call'[x].on].forced = TRUE
    BY DEF MarkedInv
<1>1. CASE x = r
      BY <1>1
<1>2. CASE x # r
  <2>1. call'[x] = call[x] /\ (call[x].on # None => call[x].on \in Requests)
        BY <1>2 DEF TypeOK, CallRecord, Build
  <2> QED BY <2>1 DEF MarkedInv, MarksGrow
<1> QED BY <1>1, <1>2

LEMMA CallMarks ==
    ASSUME IInv, MarkedInv, NEW r \in Requests,
           (\E ask \in Asks : Arrive(r, ask)) \/ ServeHeld(r) \/ Answer(r) \/ Cancel(r)
    PROVE  MarkedInv' /\ Settled
<1>1. build' = build /\ \A x \in Requests \ {r} : call'[x] = call[x]
      BY DEF Arrive, ServeHeld, Answer, Cancel, IInv, TypeOK
<1>2. CASE \E ask \in Asks : Arrive(r, ask)
  <2>1. call[r].pc = "idle" /\ call'[r].on = call[r].on
    <3>1. PICK ask \in Asks : Arrive(r, ask)
          BY <1>2
    <3>2. call \in [Requests -> CallRecord]
          BY DEF IInv, TypeOK
    <3> QED BY <3>1, <3>2 DEF Arrive, CallRecord
  <2>2. call'[r].on = None
        BY <2>1 DEF MarkedInv
  <2> QED BY <1>1, <2>2, MarksKept DEF MarksGrow, Settled, IInv
<1>3. CASE ServeHeld(r) \/ Answer(r) \/ Cancel(r)
  <2>1. /\ call'[r].pc \in {"answered", "cancelled"}
        /\ call'[r].on = call[r].on /\ call'[r].forced = call[r].forced
        BY <1>3 DEF ServeHeld, Answer, Cancel, IInv, TypeOK, CallRecord
  <2> QED BY <1>1, <2>1, MarksKept DEF MarkedInv, MarksGrow, Settled, IInv
<1> QED BY <1>2, <1>3

LEMMA JoinMarks ==
    ASSUME IInv, MarkedInv, NEW r \in Requests, JoinQueued(r) \/ JoinRunning(r)
    PROVE  MarkedInv' /\ Settled
<1>1. PICK b \in Requests : /\ Join(r, b)
                            /\ b = running \/ \E i \in DOMAIN queued : b = queued[i]
      BY JoinsABuild DEF IInv
<1>2. build[b].ended = Zero
      BY <1>1, ConstantsAssumption DEF IInv, BuildInv
<1>3. /\ \A x \in Requests \ {r} : call'[x] = call[x]
      /\ call'[r].pc = "waiting" /\ call'[r].on = b /\ call'[r].forced = call[r].forced
      BY <1>1 DEF Join, IInv, TypeOK, CallRecord
<1>4. /\ build[b].forced = TRUE \/ call[r].forced = TRUE => build'[b].forced = TRUE
      /\ \A x \in Requests \ {b} : build'[x] = build[x]
      BY <1>1 DEF Join, IInv, TypeOK, BuildRecord
<1>5. MarksGrow /\ Settled
      BY <1>2, <1>4 DEF MarksGrow, Settled
<1> QED BY <1>3, <1>4, <1>5, MarksKept DEF IInv

LEMMA CreateMarks ==
    ASSUME IInv, MarkedInv, NEW r \in Requests, QueueBuild(r) \/ StartBuild(r)
    PROVE  MarkedInv' /\ Settled
<1>1. /\ \A x \in Requests \ {r} : call'[x] = call[x] /\ build'[x] = build[x]
      /\ call[r].pc = "locking" /\ call'[r].pc = "waiting"
      /\ call'[r].on = r /\ call'[r].forced = call[r].forced
      /\ build'[r].forced = call[r].forced
      BY DEF QueueBuild, StartBuild, MustBuild, IInv, TypeOK, CallRecord, BuildRecord
<1>2. /\ build[r].ended = Zero /\ \A x \in Requests : call[x].on # r
      BY <1>1 DEF IInv, BuildInv
<1>3. Settled
      BY <1>1, <1>2 DEF Settled
<1>4. MarkedInv'
  <2> SUFFICES ASSUME NEW x \in Requests
               PROVE  /\ call'[x].pc \in {"idle", "locking"} => call'[x].on = None
                      /\ call'[x].on # None /\ call'[x].forced = TRUE =>
                             build'[call'[x].on].forced = TRUE
      BY DEF MarkedInv
  <2>1. CASE x = r
        BY <1>1, <2>1
  <2>2. CASE x # r
    <3>1. call'[x] = call[x] /\ (call[x].on # None => call[x].on \in Requests \ {r})
          BY <1>1, <1>2, <2>2 DEF IInv, TypeOK, CallRecord, Build
    <3> QED BY <1>1, <3>1 DEF MarkedInv
  <2> QED BY <2>1, <2>2
<1> QED BY <1>3, <1>4

LEMMA DrainMarks ==
    ASSUME IInv, MarkedInv, NEW d \in Requests, BeginScan(d) \/ Publish(d) \/ CloseDone(d)
    PROVE  MarkedInv' /\ Settled
<1>1. call' = call /\ build \in [Requests -> BuildRecord] /\ now >= 1 /\ now \in Nat
      BY DEF BeginScan, Publish, CloseDone, IInv, TypeOK
<1>2. ASSUME NEW b \in Requests
      PROVE  /\ build'[b].forced = build[b].forced
             /\ build[b].ended # Zero => build'[b].ended # Zero
  <2>1. CASE BeginScan(d)
        BY <1>1, <2>1 DEF BeginScan, BuildRecord
  <2>2. CASE CloseDone(d)
        BY <1>1, <2>2 DEF CloseDone, BuildRecord
  <2>3. CASE Publish(d)
    <3>1. \/ build'[b] = [build[b] EXCEPT !.ended = now]
          \/ build'[b] = [build[b] EXCEPT !.startedAt = now]
          \/ build'[b] = build[b]
          BY <2>3 DEF Publish
    <3> QED BY <1>1, <3>1 DEF BuildRecord, Zero
  <2> QED BY <2>1, <2>2, <2>3
<1>3. Settled /\ MarksGrow
      BY <1>2 DEF Settled, MarksGrow
<1> QED BY <1>1, <1>3 DEF MarkedInv, MarksGrow, IInv, TypeOK, CallRecord, Build

-----------------------------------------------------------------------------
(* What the listener is owed. *)

LEMMA TruthStays ==
    ASSUME Settled, NEW n, Truthful(n)
    PROVE  Truthful(n)'
BY DEF Truthful, Settled

\* The listener is behind, or nothing it has not been told of was published.
Behind == pending # <<>> \/ InHand # <<>>
FallsBehind == Behind' \/ (current' = current /\ ~Behind)

LEMMA InHandIsHeld ==
    ASSUME TypeOK, FlushInv, NEW d \in Requests, drain[d].pc \in FlushPC
    PROVE  notifyMu = d /\ d # None /\ InHand = drain[d].hand
BY ConstantsAssumption DEF FlushInv, InHand

\* A step that moves no notice.
LEMMA OwedKept ==
    ASSUME TypeOK, OwedInv, Settled, pending' = pending,
           \A d \in Requests : /\ drain'[d].hand = drain[d].hand
                               /\ drain'[d].pc = "telling" => drain[d].pc = "telling"
    PROVE  OwedInv'
<1>1. ASSUME NEW i \in DOMAIN pending' PROVE Truthful(pending[i])'
  <2>1. PICK n : n = pending[i]
        OBVIOUS
  <2>2. Truthful(n)
        BY <1>1, <2>1 DEF OwedInv
  <2>3. Truthful(n)'
        BY <2>2, TruthStays
  <2> QED BY <2>1, <2>3 DEF Truthful
<1>2. ASSUME NEW d \in Requests, NEW i \in DOMAIN drain'[d].hand
      PROVE  Truthful(drain[d].hand[i])'
  <2>1. PICK n : n = drain[d].hand[i]
        OBVIOUS
  <2>2. Truthful(n) /\ n = drain'[d].hand[i]
        BY <1>2, <2>1 DEF OwedInv
  <2>3. Truthful(n)'
        BY <2>2, TruthStays
  <2> QED BY <2>2, <2>3 DEF Truthful
<1>3. \A d \in Requests : drain'[d].pc = "telling" => drain'[d].hand # <<>>
      BY DEF OwedInv
<1> QED BY <1>1, <1>2, <1>3 DEF OwedInv

LEMMA QuietBehind ==
    ASSUME TypeOK, UNCHANGED <<pending, notifyMu, current>>,
           \A d \in Requests : drain'[d].hand = drain[d].hand
    PROVE  FallsBehind
<1>1. InHand' = InHand
  <2>1. CASE notifyMu = None
        BY <2>1 DEF InHand
  <2>2. CASE notifyMu \in Requests
        BY <2>2, ConstantsAssumption DEF InHand
  <2> QED BY <2>1, <2>2 DEF TypeOK, Build
<1> QED BY <1>1 DEF FallsBehind, Behind

\* Get, the clock, and drain outside its critical section.
LEMMA OutsideOwed ==
    ASSUME IInv, OwedInv, Settled,
           \/ Tick \/ UNCHANGED vars
           \/ \E r \in Requests : \/ \E ask \in Asks : Arrive(r, ask)
                                  \/ Lookup(r) \/ Answer(r) \/ Cancel(r)
                                  \/ BeginScan(r) \/ CloseDone(r)
    PROVE  OwedInv' /\ FallsBehind
<1>1. UNCHANGED <<pending, notifyMu, current>> /\ TypeOK
  <2>1. ASSUME NEW r \in Requests, Lookup(r) PROVE UNCHANGED <<pending, notifyMu, current>>
        BY <2>1 DEF Lookup, JoinQueued, JoinRunning, Join, ServeHeld, QueueBuild, StartBuild,
                    cacheVars, listenerVars
  <2> QED BY <2>1 DEF Tick, Arrive, Answer, Cancel, BeginScan, CloseDone, vars, cacheVars,
                      listenerVars, IInv
<1>2. ASSUME NEW d \in Requests
      PROVE  /\ drain'[d].hand = drain[d].hand
             /\ drain'[d].pc = "telling" => drain[d].pc = "telling"
  <2>1. CASE drain' = drain
        BY <2>1
  <2>2. ASSUME NEW r \in Requests, StartBuild(r)
        PROVE  /\ drain'[d].hand = drain[d].hand
               /\ drain'[d].pc = "telling" => drain[d].pc = "telling"
        BY <1>1, <2>2 DEF StartBuild, TypeOK, DrainRecord
  <2>3. ASSUME NEW r \in Requests, BeginScan(r)
        PROVE  /\ drain'[d].hand = drain[d].hand
               /\ drain'[d].pc = "telling" => drain[d].pc = "telling"
        BY <1>1, <2>3 DEF BeginScan, TypeOK, DrainRecord
  <2>4. ASSUME NEW r \in Requests, CloseDone(r)
        PROVE  /\ drain'[d].hand = drain[d].hand
               /\ drain'[d].pc = "telling" => drain[d].pc = "telling"
    <3>1. drain' = [drain EXCEPT ![r].pc = "notify"]
          BY <2>4, ListenerAssumption DEF CloseDone
    <3> QED BY <1>1, <3>1 DEF TypeOK, DrainRecord
  <2>5. ASSUME NEW r \in Requests, Lookup(r) PROVE drain' = drain \/ StartBuild(r)
        BY <2>5 DEF Lookup, JoinQueued, JoinRunning, Join, ServeHeld, QueueBuild
  <2> QED BY <2>1, <2>2, <2>3, <2>4, <2>5 DEF Tick, Arrive, Answer, Cancel, vars
<1> QED BY <1>1, <1>2, OwedKept, QuietBehind

\* A published build is owed: a true notice of it is the last one pending.
LEMMA PublishOwed ==
    ASSUME IInv, OwedInv, Settled, FlushInv, NEW d \in Requests, Publish(d)
    PROVE  OwedInv' /\ FallsBehind
<1>1. PICK b : b = drain[d].work
      OBVIOUS
<1>2. /\ b \in Requests /\ build \in [Requests -> BuildRecord] /\ now # Zero
      /\ pending \in Seq(Notice)
      BY <1>1 DEF Publish, IInv, ChainInv, TypeOK, DrainRecord, Build, Zero
<1>3. build'[b] = [build[b] EXCEPT !.ended = now]
  <2>1. running = b
    <3>1. Charge(d) = b /\ b # None
          BY <1>1, <1>2, ConstantsAssumption DEF Publish, Charge
    <3> QED BY <3>1 DEF IInv, ChainInv
  <2>2. b # NextBuild
        BY <1>2, <2>1, ConstantsAssumption DEF NextBuild, IInv, BuildInv, TypeOK
  <2>3. build' = [x \in Requests |->
                   CASE x = b         -> [build[x] EXCEPT !.ended = now]
                     [] x = NextBuild -> [build[x] EXCEPT !.startedAt = now]
                     [] OTHER         -> build[x]]
        BY <1>1 DEF Publish
  <2> QED BY <1>2, <2>2, <2>3
<1>4. PICK n : n = NoticeOf(b)
      OBVIOUS
<1>5. /\ n \in Notice /\ n.current = b /\ n.forced = build[b].forced
      BY <1>2, <1>4 DEF NoticeOf, Notice, BuildRecord, IInv, TypeOK
<1>6. Truthful(n)'
      BY <1>2, <1>3, <1>5 DEF Truthful, BuildRecord
<1>7. PICK P \in Seq(Notice) : P = pending
      BY <1>2
<1>8. pending' = Append(P, n)
      BY <1>1, <1>4, <1>7, ListenerAssumption DEF Publish
<1>9. \A i \in DOMAIN P : Truthful(P[i])'
      BY <1>7, TruthStays DEF OwedInv
<1>10. \A i \in DOMAIN pending' : Truthful(pending[i])'
  <2>1. \A i \in DOMAIN Append(P, n) : (i \in DOMAIN P /\ Append(P, n)[i] = P[i]) \/ Append(P, n)[i] = n
        BY <1>5
  <2> QED BY <2>1, <1>6, <1>8, <1>9 DEF Truthful
<1>11. \A e \in Requests : drain'[e].hand = drain[e].hand /\ drain'[e].pc \in {drain[e].pc, "closing"}
       BY DEF Publish, IInv, TypeOK, DrainRecord
<1>12. \A e \in Requests : \A i \in DOMAIN drain'[e].hand : Truthful(drain[e].hand[i])'
  <2> SUFFICES ASSUME NEW e \in Requests, NEW i \in DOMAIN drain'[e].hand
               PROVE  Truthful(drain[e].hand[i])'
      OBVIOUS
  <2>1. PICK m : m = drain[e].hand[i]
        OBVIOUS
  <2>2. Truthful(m) /\ m = drain'[e].hand[i]
        BY <2>1, <1>11 DEF OwedInv
  <2>3. Truthful(m)'
        BY <2>2, TruthStays
  <2> QED BY <2>2, <2>3 DEF Truthful
<1>13. \A e \in Requests : drain'[e].pc = "telling" => drain'[e].hand # <<>>
       BY <1>11 DEF OwedInv
<1>14. pending' # <<>>
       BY <1>5, <1>8
<1> QED BY <1>10, <1>12, <1>13, <1>14 DEF OwedInv, FallsBehind, Behind

LEMMA EmptyHandBehind ==
    ASSUME InHand = <<>>, pending' = pending, current' = current
    PROVE  FallsBehind
<1>1. CASE pending = <<>>
  <2>1. ~Behind
        BY <1>1 DEF Behind
  <2> QED BY <2>1 DEF FallsBehind
<1>2. CASE pending # <<>>
  <2>1. Behind'
        BY <1>2 DEF Behind
  <2> QED BY <2>1 DEF FallsBehind
<1> QED BY <1>1, <1>2

\* flush: the lock, the end of what is owed, and the way out move no notice.
LEMMA FlushOwed ==
    ASSUME IInv, OwedInv, FlushInv, NEW d \in Requests,
           LockNotify(d) \/ NothingOwed(d) \/ UnlockNotify(d)
    PROVE  OwedInv' /\ FallsBehind
<1>1. pending' = pending /\ current' = current /\ build' = build /\ TypeOK
      BY DEF LockNotify, NothingOwed, UnlockNotify, cacheVars, listenerVars, IInv
<1>2. /\ drain'[d].hand = drain[d].hand /\ drain'[d].pc # "telling"
      /\ \A e \in Requests \ {d} : drain'[e] = drain[e]
  <2>1. CASE LockNotify(d) \/ NothingOwed(d)
        BY <1>1, <2>1 DEF LockNotify, NothingOwed, TypeOK, DrainRecord
  <2>2. CASE UnlockNotify(d)
        BY <1>1, <2>2, AdvanceLeavesFlush DEF UnlockNotify
  <2> QED BY <2>1, <2>2
<1>3. OwedInv'
      BY <1>1, <1>2, OwedKept DEF Settled
<1>4. drain[d].pc # "telling" /\ drain[d].hand = <<>> /\ d # None
      BY ConstantsAssumption DEF LockNotify, NothingOwed, UnlockNotify, FlushInv
<1>5. CASE LockNotify(d)
  <2>1. notifyMu = None
        BY <1>5 DEF LockNotify
  <2>2. InHand = <<>>
        BY <2>1 DEF InHand
  <2> QED BY <1>1, <1>3, <2>2, EmptyHandBehind
<1>6. CASE NothingOwed(d) \/ UnlockNotify(d)
  <2>1. notifyMu = d
        BY <1>6 DEF NothingOwed, UnlockNotify, FlushInv, FlushPC
  <2>2. InHand = <<>>
        BY <1>4, <2>1 DEF InHand
  <2> QED BY <1>1, <1>3, <2>2, EmptyHandBehind
<1> QED BY <1>3, <1>5, <1>6

LEMMA TakeOwed ==
    ASSUME IInv, OwedInv, FlushInv, NEW d \in Requests, TakeNotice(d)
    PROVE  OwedInv' /\ FallsBehind
<1>1. PICK P : P = pending
      OBVIOUS
<1>2. /\ P \in Seq(Notice) /\ P # <<>> /\ pending' = Tail(P)
      /\ UNCHANGED <<notifyMu, build>>
      BY <1>1 DEF TakeNotice, IInv, TypeOK
<1>3. /\ drain[d].pc = "take" /\ drain'[d].hand = <<Head(P)>>
      /\ \A e \in Requests \ {d} : drain'[e] = drain[e]
      BY <1>1 DEF TakeNotice, IInv, TypeOK, DrainRecord
<1>4. \A i \in DOMAIN P : Truthful(P[i])'
      BY <1>1, <1>2, TruthStays DEF OwedInv, Settled
<1>5. \A i \in DOMAIN pending' : Truthful(pending[i])'
  <2>1. \A i \in DOMAIN Tail(P) : i + 1 \in DOMAIN P /\ Tail(P)[i] = P[i + 1]
        BY <1>2
  <2> QED BY <2>1, <1>2, <1>4 DEF Truthful
<1>6. ASSUME NEW e \in Requests, NEW i \in DOMAIN drain'[e].hand
      PROVE  Truthful(drain[e].hand[i])'
  <2>1. CASE e = d
    <3>1. 1 \in DOMAIN P /\ Head(P) = P[1]
          BY <1>2
    <3>2. Truthful(Head(P))'
          BY <3>1, <1>4 DEF Truthful
    <3>3. drain'[e].hand[i] = Head(P)
          BY <1>3, <1>6, <2>1
    <3> QED BY <3>2, <3>3, <1>2 DEF Truthful
  <2>2. CASE e # d
    <3>1. PICK m : m = drain[e].hand[i]
          OBVIOUS
    <3>2. Truthful(m) /\ m = drain'[e].hand[i]
          BY <3>1, <1>3, <1>6, <2>2 DEF OwedInv
    <3>3. Truthful(m)'
          BY <3>2, <1>2, TruthStays DEF Settled
    <3> QED BY <3>2, <3>3 DEF Truthful
  <2> QED BY <2>1, <2>2
<1>7. ASSUME NEW e \in Requests, drain'[e].pc = "telling" PROVE drain'[e].hand # <<>>
  <2>1. CASE e = d
    <3>1. <<Head(P)>> # <<>>
          OBVIOUS
    <3> QED BY <1>3, <2>1, <3>1
  <2>2. CASE e # d
        BY <1>3, <1>7, <2>2 DEF OwedInv
  <2> QED BY <2>1, <2>2
<1>8. InHand' # <<>>
  <2>1. notifyMu = d /\ d # None
        BY <1>3, InHandIsHeld DEF FlushPC, IInv
  <2> QED BY <2>1, <1>2, <1>3 DEF InHand
<1> QED BY <1>5, <1>6, <1>7, <1>8 DEF OwedInv, FallsBehind, Behind

LEMMA TellOwed ==
    ASSUME IInv, OwedInv, FlushInv, NEW d \in Requests, Tell(d)
    PROVE  /\ OwedInv' /\ UNCHANGED <<build, call, current>>
           /\ drain[d].hand \in Seq(Notice) /\ drain[d].hand # <<>>
           /\ Head(drain[d].hand) \in Notice /\ Truthful(Head(drain[d].hand))
<1>1. UNCHANGED <<pending, build, call, current>> /\ drain[d].pc = "telling"
      BY DEF Tell, cacheVars
<1>2. /\ drain'[d].hand = <<>> /\ drain'[d].pc = "take"
      /\ \A e \in Requests \ {d} : drain'[e] = drain[e]
      BY DEF Tell, IInv, TypeOK, DrainRecord
<1>3. PICK h : h = drain[d].hand
      OBVIOUS
<1>4. h \in Seq(Notice) /\ h # <<>> /\ \A i \in DOMAIN h : Truthful(h[i])
      BY <1>1, <1>3 DEF OwedInv, IInv, TypeOK, DrainRecord
<1>5. 1 \in DOMAIN h /\ Head(h) = h[1] /\ Head(h) \in Notice
      BY <1>4
<1>6. Truthful(Head(h))
      BY <1>4, <1>5
<1>7. OwedInv'
      BY <1>1, <1>2 DEF OwedInv, Truthful
<1> QED BY <1>1, <1>3, <1>4, <1>5, <1>6, <1>7

\* What a step of the cache alone does to what is owed and marked.
LEMMA CacheStepOwed ==
    ASSUME IInv, FlushInv, MarkedInv, OwedInv, [Next]_vars
    PROVE  MarkedInv' /\ Settled /\ OwedInv' /\ ((\A d \in Requests : ~Tell(d)) => FallsBehind)
<1>1. ASSUME NEW r \in Requests,
             (\E ask \in Asks : Arrive(r, ask)) \/ Answer(r) \/ Cancel(r) \/ Lookup(r)
      PROVE  MarkedInv' /\ Settled /\ OwedInv' /\ FallsBehind
  <2>1. MarkedInv' /\ Settled
        BY <1>1, CallMarks, JoinMarks, CreateMarks DEF Lookup
  <2> QED BY <1>1, <2>1, OutsideOwed
<1>2. ASSUME NEW d \in Requests, BeginScan(d) \/ Publish(d) \/ CloseDone(d)
      PROVE  MarkedInv' /\ Settled /\ OwedInv' /\ FallsBehind
      BY <1>2, DrainMarks, OutsideOwed, PublishOwed
<1>3. ASSUME UNCHANGED <<call, build>>
      PROVE  MarkedInv' /\ Settled
      BY <1>3 DEF MarkedInv, Settled
<1>4. ASSUME NEW d \in Requests,
             LockNotify(d) \/ NothingOwed(d) \/ UnlockNotify(d) \/ TakeNotice(d)
      PROVE  MarkedInv' /\ Settled /\ OwedInv' /\ FallsBehind
  <2>1. UNCHANGED <<call, build>>
        BY <1>4 DEF LockNotify, NothingOwed, UnlockNotify, TakeNotice
  <2> QED BY <1>3, <1>4, <2>1, FlushOwed, TakeOwed
<1>5. ASSUME NEW d \in Requests, Tell(d)
      PROVE  MarkedInv' /\ Settled /\ OwedInv'
      BY <1>3, <1>5, TellOwed
<1>6. CASE Tick \/ UNCHANGED vars
  <2>1. UNCHANGED <<call, build>>
        BY <1>6 DEF Tick, vars
  <2> QED BY <1>3, <1>6, <2>1, OutsideOwed
<1> QED BY <1>1, <1>2, <1>4, <1>5, <1>6, ConstantsAssumption DEF Next, DrainStep, Finished

-----------------------------------------------------------------------------
(* What the listener does with it. *)

LEMMA SpokenKept ==
    ASSUME SpokenInv, Settled, log' = log
    PROVE  SpokenInv'
<1> SUFFICES ASSUME NEW i \in DOMAIN log
             PROVE  (Truthful(log[i].note) /\ (log[i].note.forced = TRUE => log[i].said = TRUE))'
    BY DEF SpokenInv
<1>1. PICK e : e = log[i]
      OBVIOUS
<1>2. Truthful(e.note) /\ (e.note.forced = TRUE => e.said = TRUE)
      BY <1>1 DEF SpokenInv
<1>3. Truthful(e.note)'
      BY <1>2, TruthStays
<1> QED BY <1>1, <1>2, <1>3 DEF Truthful

\* A line is written about every scan that anybody forced.
LEMMA BuiltSpeaks ==
    ASSUME IInv, FlushInv, OwedInv, Settled, SpokenInv, NEW S, log \in Seq(S),
           NEW d \in Requests, Built(d)
    PROVE  SpokenInv'
<1>1. Tell(d)
      BY DEF Built
<1>2. PICK n : n = Head(drain[d].hand)
      OBVIOUS
<1>3. Truthful(n) /\ n \in Notice
      BY <1>1, <1>2, TellOwed
<1>4. CASE log' = log
      BY <1>4, SpokenKept
<1>5. CASE current # None
  <2>1. PICK elsewhere \in BOOLEAN :
            log' = Append(log, [note  |-> n,
                                seen  |-> current,
                                lines |-> LinesFor(current),
                                said  |-> ~Quiet(n, elsewhere) \/ n.forced])
        BY <1>2, <1>5 DEF Built, Seen
  <2>2. PICK said : said = (~Quiet(n, elsewhere) \/ n.forced)
        OBVIOUS
  <2>3. n.forced = TRUE => said = TRUE
        BY <2>2
  <2>4. PICK e : e = [note |-> n, seen |-> current, lines |-> LinesFor(current), said |-> said]
        OBVIOUS
  <2>5. e.note = n /\ e.said = said
        BY <2>4
  <2>6. PICK L \in Seq(S) : L = log
        OBVIOUS
  <2>7. log' = Append(L, e)
        BY <2>1, <2>2, <2>4, <2>6
  <2>8. \A i \in DOMAIN Append(L, e) :
            (i \in DOMAIN L /\ Append(L, e)[i] = L[i]) \/ Append(L, e)[i] = e
    <3>1. L \in Seq(S \cup {e}) /\ e \in S \cup {e}
          OBVIOUS
    <3> QED BY <3>1
  <2>9. Truthful(n)'
        BY <1>3, TruthStays
  <2> SUFFICES ASSUME NEW i \in DOMAIN Append(L, e)
               PROVE  (Truthful(log[i].note) /\ (log[i].note.forced = TRUE => log[i].said = TRUE))'
      BY <2>7 DEF SpokenInv
  <2>10. CASE Append(L, e)[i] = e
    <3>1. log'[i] = e
          BY <2>7, <2>10
    <3> QED BY <3>1, <2>3, <2>5, <2>9 DEF Truthful
  <2>11. CASE i \in DOMAIN L /\ Append(L, e)[i] = L[i]
    <3>1. PICK f : f = L[i]
          OBVIOUS
    <3>2. log'[i] = f
          BY <2>7, <2>11, <3>1
    <3>3. Truthful(f.note) /\ (f.note.forced = TRUE => f.said = TRUE)
          BY <2>6, <2>11, <3>1 DEF SpokenInv
    <3>4. Truthful(f.note)'
          BY <3>3, TruthStays
    <3> QED BY <3>2, <3>3, <3>4 DEF Truthful
  <2> QED BY <2>8, <2>10, <2>11
<1> QED BY <1>4, <1>5 DEF Built, Seen, logVars

\* What it read is what the next scan is held against, whenever nothing else is owed.
LEMMA BuiltCatchesUp ==
    ASSUME IInv, IInv', NoticesInv, OwedInv, NEW d \in Requests, Built(d)
    PROVE  CaughtUp'
<1>1. Tell(d) /\ reports' = reports
      BY DEF Built
<1>2. current' = current
      BY <1>1, TellOwed DEF NoticesInv
<1>3. CASE current # None
  <2>1. previous' = reports[current]
        BY <1>3 DEF Built, Seen, Remember
  <2> QED BY <1>1, <1>2, <2>1 DEF CaughtUp
<1>4. CASE current = None
      BY <1>2, <1>4 DEF CaughtUp
<1> QED BY <1>3, <1>4

-----------------------------------------------------------------------------
(* The invariant, and what it is for. *)

LEMMA InitLogged == LogInit => LogInv
<1> SUFFICES ASSUME LogInit PROVE LogInv
    OBVIOUS
<1>1. Init /\ log = <<>> /\ log \in Seq(Written)
      BY DEF LogInit
<1>2. MarkedInv
      BY <1>1 DEF Init, MarkedInv
<1>3. OwedInv
      BY <1>1 DEF Init, OwedInv
<1>4. SpokenInv
      BY <1>1 DEF SpokenInv
<1>5. CaughtUp
      BY <1>1 DEF Init, CaughtUp
<1> QED BY <1>1, <1>2, <1>3, <1>4, <1>5 DEF LogInv

LEMMA BuiltTyped ==
    ASSUME IInv, OwedInv, FlushInv, log \in Seq(Written), NEW d \in Requests, Built(d)
    PROVE  log' \in Seq(Written)
<1>1. PICK n : n = Head(drain[d].hand)
      OBVIOUS
<1>2. n \in Notice
      BY <1>1, TellOwed DEF Built
<1>3. CASE current # None
  <2>1. PICK elsewhere \in BOOLEAN :
            log' = Append(log, [note  |-> n,
                                seen  |-> current,
                                lines |-> LinesFor(current),
                                said  |-> ~Quiet(n, elsewhere) \/ n.forced])
        BY <1>1, <1>3 DEF Built, Seen
  <2>2. current \in Requests
        BY <1>3 DEF IInv, TypeOK, Build
  <2>3. LinesFor(current) \in SUBSET Targets
        BY DEF LinesFor
  <2>4. (~Quiet(n, elsewhere) \/ n.forced) \in BOOLEAN
        OBVIOUS
  <2> QED BY <1>2, <2>1, <2>2, <2>3, <2>4 DEF Written
<1>4. CASE current = None
      BY <1>4 DEF Built, Seen, logVars
<1> QED BY <1>3, <1>4

\* Outside the listener no notice leaves the cache: told only grows when one is in hand.
LEMMA NobodyTold ==
    ASSUME IInv, OwedInv, FlushInv, told' = told, NEW d \in Requests
    PROVE  ~Tell(d)
<1> SUFFICES ASSUME Tell(d) PROVE FALSE
    OBVIOUS
<1>1. PICK h : h = drain[d].hand
      OBVIOUS
<1>2. PICK t \in Seq(Notice) : t = told
      BY DEF IInv, TypeOK
<1>3. h \in Seq(Notice) /\ h # <<>>
      BY <1>1, TellOwed
<1>4. t \o h = t
      BY <1>1, <1>2 DEF Tell
<1>5. Len(t \o h) = Len(t) + Len(h)
      BY <1>2, <1>3
<1> QED BY <1>2, <1>3, <1>4, <1>5

LEMMA StepLogged ==
    ASSUME IInv, IInv', NoticesInv, LogInv, [LogNext]_logged
    PROVE  LogInv'
<1>1. [Next]_vars /\ FlushInv
      BY LogStepsAreSteps DEF NoticesInv
<1>2. MarkedInv' /\ Settled /\ OwedInv' /\ ((\A d \in Requests : ~Tell(d)) => FallsBehind)
      BY <1>1, CacheStepOwed DEF LogInv
<1>3. ASSUME NEW d \in Requests, Built(d) PROVE LogInv'
      BY <1>1, <1>2, <1>3, BuiltTyped, BuiltSpeaks, BuiltCatchesUp DEF LogInv
<1>4. CASE told' = told /\ UNCHANGED <<reports, logVars>>
  <2>1. FallsBehind
        BY <1>1, <1>2, <1>4, NobodyTold DEF LogInv
  <2>2. CaughtUp'
        BY <1>4, <2>1 DEF LogInv, CaughtUp, FallsBehind, Behind, logVars
  <2>3. log' = log
        BY <1>4 DEF logVars
  <2>4. SpokenInv'
        BY <1>2, <2>3, SpokenKept DEF LogInv
  <2> QED BY <1>2, <2>2, <2>3, <2>4 DEF LogInv
<1> QED BY <1>3, <1>4 DEF LogNext, logged, vars, listenerVars

LEMMA ListenerInvariant == LogSpec => [](IInv /\ NoticesInv /\ LogInv)
<1>1. LogInit => LogInv
      BY InitLogged
<1>2. (IInv /\ NoticesInv) /\ (IInv /\ NoticesInv)' /\ LogInv /\ [LogNext]_logged => LogInv'
      BY StepLogged
<1> QED BY <1>1, <1>2, CacheUnderListener, PTL DEF LogSpec, logged

\* wire.go, built and logConnections: the listener reads what the cache holds when it runs,
\* not what it was called about, so it may skip scans, and once it is owed nothing it has
\* kept the reports of the scan that is held.
THEOREM ListenerCatchesUp == LogSpec => []LogCatchesUp
<1>1. IInv /\ LogInv => LogCatchesUp
  <2> SUFFICES ASSUME IInv, LogInv, current # None, Len(told) = Len(Notices)
               PROVE  previous = reports[current]
      BY DEF LogCatchesUp
  <2>1. /\ told \in Seq(Notice) /\ pending \in Seq(Notice) /\ InHand \in Seq(Notice)
        /\ Notices = (told \o InHand) \o pending
        BY NoticesType DEF IInv
  <2>2. PICK t \in Seq(Notice), h \in Seq(Notice), p \in Seq(Notice) :
            t = told /\ h = InHand /\ p = pending
        BY <2>1
  <2>3. Len((t \o h) \o p) = Len(t)
        BY <2>1, <2>2
  <2>4. t \o h \in Seq(Notice) /\ Len(t \o h) = Len(t) + Len(h)
        BY ConcatProperties
  <2>5. Len((t \o h) \o p) = Len(t \o h) + Len(p)
        BY <2>4, ConcatProperties
  <2>6. Len(h) = 0 /\ Len(p) = 0
        BY <2>3, <2>4, <2>5
  <2>7. h = <<>> /\ p = <<>>
        BY <2>6
  <2> QED BY <2>2, <2>7 DEF LogInv, CaughtUp
<1> QED BY <1>1, ListenerInvariant, PTL

\* wire.go, built, with Note.Forced of cache.go: whoever forced a scan, or joined one that
\* was queued or running, finds a line about it, whether anything moved or not.
THEOREM WhoeverRescansIsAnswered == LogSpec => []EveryRescanSpeaks
<1>1. IInv /\ LogInv => EveryRescanSpeaks
  <2> SUFFICES ASSUME IInv, LogInv, NEW i \in DOMAIN log, NEW r \in Requests,
                      call[r].forced, call[r].on = log[i].note.current
               PROVE  log[i].said
      BY DEF EveryRescanSpeaks
  <2>1. call[r].forced = TRUE
        BY DEF IInv, TypeOK, CallRecord
  <2>2. /\ log[i].note.current \in Requests
        /\ build[log[i].note.current].forced = TRUE => log[i].note.forced = TRUE
        /\ log[i].note.forced = TRUE => log[i].said = TRUE
        BY DEF LogInv, SpokenInv, Truthful
  <2>3. call[r].on # None
        BY <2>2, ConstantsAssumption
  <2>4. build[log[i].note.current].forced = TRUE
        BY <2>1, <2>3 DEF LogInv, MarkedInv
  <2> QED BY <2>2, <2>4
<1> QED BY <1>1, ListenerInvariant, PTL
=============================================================================
