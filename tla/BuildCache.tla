----------------------------- MODULE BuildCache -----------------------------
(***************************************************************************)
(* internal/cache: one scan of the fleet shared by every reader, and the   *)
(* rule that decides when a new one has to be run.                         *)
(*                                                                         *)
(* A request is one call of Get.  The build a request creates is named     *)
(* after it, since a request creates at most one; the goroutine running    *)
(* drain is named after the request that spawned it, for the same reason.  *)
(* Every section of code under c.mu is one action; the lock itself is      *)
(* never held across a blocking call, so it is not a variable.  notifyMu   *)
(* is held across the listener and is one.                                 *)
(***************************************************************************)
EXTENDS Integers, Sequences, FiniteSets

CONSTANTS
    Requests,     \* the calls of Get the model makes, Warm's among them
    Overrides,    \* the explicit probe overrides
    Unset,        \* the nil probe override
    Asks,         \* what the callers of Get pass: forced and probe
    Leavers,      \* the requests whose context may end while they wait
    None,         \* the nil *build and the nil *payload.Overview
    TTL,          \* c.ttl, in ticks
    MaxTime,      \* bound on the clock
    HasListener   \* whether Options.Built is not nil

ASSUME ConstantsAssumption ==
    /\ None \notin Requests
    /\ Unset \notin Overrides
    /\ Asks \subseteq [forced : BOOLEAN, probe : Overrides \cup {Unset}]
    /\ Leavers \subseteq Requests
    /\ TTL \in Int
    /\ MaxTime \in Nat
    /\ HasListener \in BOOLEAN

VARIABLES
    now,          \* what c.now() would return
    call,         \* per request, the local state of its Get
    build,        \* per build, its fields and when its scan ran
    running,      \* c.running
    queued,       \* c.queued, oldest first
    current,      \* c.current, as the build that produced it
    at,           \* c.at
    heldProbe,    \* c.probe
    pending,      \* c.pending, oldest first
    notifyMu,     \* the goroutine holding c.notifyMu
    drain,        \* per goroutine, the local state of drain and flush
    told          \* history: the notices the listener was called with

vars == <<now, call, build, running, queued, current, at, heldProbe,
          pending, notifyMu, drain, told>>
cacheVars == <<running, queued, current, at, heldProbe>>
listenerVars == <<pending, notifyMu, told>>

Zero == 0                               \* the zero time.Time, before any reading
Override == Overrides \cup {Unset}
Build == Requests \cup {None}
Notice == [previous : Build, current : Requests, forced : BOOLEAN]

CallPC == {"idle", "locking", "waiting", "answered", "cancelled"}
DrainPC == {"none", "begin", "scanning", "closing", "notify", "take",
            "telling", "release", "ended"}

\* One call of Get: what it asked, when it arrived, what it waits on, what it returned.
CallRecord == [pc : CallPC, forced : BOOLEAN, probe : Override,
               arrived : Nat, on : Build, answer : Build]

\* build of cache.go; began and ended are when its scan ran, which the code does not keep.
BuildRecord == [startedAt : Nat, forced : BOOLEAN, probe : Override,
                done : BOOLEAN, began : Nat, ended : Nat]

\* One goroutine of drain: b and next of the loop, and the notice in flush's hands.
DrainRecord == [pc : DrainPC, work : Build, next : Build, hand : Seq(Notice)]

TypeOK ==
    /\ now \in Nat
    /\ call \in [Requests -> CallRecord]
    /\ build \in [Requests -> BuildRecord]
    /\ running \in Build
    /\ queued \in Seq(Requests)
    /\ current \in Build
    /\ at \in Nat
    /\ heldProbe \in Override
    /\ pending \in Seq(Notice)
    /\ notifyMu \in Build
    /\ drain \in [Requests -> DrainRecord]
    /\ told \in Seq(Notice)

Init ==
    /\ now = 1
    /\ call = [r \in Requests |->
                [pc |-> "idle", forced |-> FALSE, probe |-> Unset,
                 arrived |-> Zero, on |-> None, answer |-> None]]
    /\ build = [r \in Requests |->
                 [startedAt |-> Zero, forced |-> FALSE, probe |-> Unset,
                  done |-> FALSE, began |-> Zero, ended |-> Zero]]
    /\ running = None
    /\ queued = <<>>
    /\ current = None
    /\ at = Zero
    /\ heldProbe = Unset
    /\ pending = <<>>
    /\ notifyMu = None
    /\ drain = [r \in Requests |->
                 [pc |-> "none", work |-> None, next |-> None, hand |-> <<>>]]
    /\ told = <<>>

-----------------------------------------------------------------------------
(* The two decisions Get makes by comparing. *)

\* Mutant: a build made with no override is taken to answer an explicit one.
NilSuitsAll(want, has) == Unset \in {want, has} \/ want = has

\* probeSuits: a nil override is no requirement, an explicit one is matched.
Suits(want, has) == want = Unset \/ want = has

\* Mutant: the last instant of the TTL counts as inside it.
FreshInclusive(t) == current # None /\ TTL > 0 /\ t - at <= TTL

\* fresh: measured from when the held build started, off when TTL is not positive.
Fresh(t) == current # None /\ TTL > 0 /\ t - at < TTL

-----------------------------------------------------------------------------
(* The clock. *)

Tick ==
    /\ now < MaxTime
    /\ now' = now + 1
    /\ UNCHANGED <<call, build, cacheVars, listenerVars, drain>>

-----------------------------------------------------------------------------
(* Get.  The arrival is read before the lock is taken. *)

Arrive(r, ask) ==
    /\ call[r].pc = "idle"
    /\ call' = [call EXCEPT ![r].pc = "locking", ![r].forced = ask.forced,
                            ![r].probe = ask.probe, ![r].arrived = now]
    /\ UNCHANGED <<now, build, cacheVars, listenerVars, drain>>

\* Mutant: the arguments of probeSuits the wrong way round.
SuitedByQueue(r) ==
    {i \in DOMAIN queued : Suits(build[queued[i]].probe, call[r].probe)}

SuitingInQueue(r) ==
    {i \in DOMAIN queued : Suits(call[r].probe, build[queued[i]].probe)}

\* Mutant: a forced request joins whatever is running.
MayJoinAnyRunning(r) ==
    running # None /\ Suits(call[r].probe, build[running].probe)

MayJoinRunning(r) ==
    /\ running # None
    /\ Suits(call[r].probe, build[running].probe)
    /\ call[r].forced => build[running].startedAt >= call[r].arrived

MayServeHeld(r) ==
    /\ ~call[r].forced
    /\ Fresh(call[r].arrived)
    /\ Suits(call[r].probe, heldProbe)

\* Mutant: joining does not mark the build forced.
JoinQuietly(r, b) ==
    /\ call' = [call EXCEPT ![r].pc = "waiting", ![r].on = b]
    /\ UNCHANGED <<now, build, cacheVars, listenerVars, drain>>

\* A request that joins a build marks it forced if it is forced itself.
Join(r, b) ==
    /\ call' = [call EXCEPT ![r].pc = "waiting", ![r].on = b]
    /\ build' = [build EXCEPT ![b].forced = @ \/ call[r].forced]
    /\ UNCHANGED <<now, cacheVars, listenerVars, drain>>

JoinQueued(r) ==
    /\ call[r].pc = "locking"
    /\ \E i \in SuitingInQueue(r) :
          /\ \A j \in SuitingInQueue(r) : i <= j
          /\ Join(r, queued[i])

JoinRunning(r) ==
    /\ call[r].pc = "locking"
    /\ SuitingInQueue(r) = {}
    /\ MayJoinRunning(r)
    /\ Join(r, running)

ServeHeld(r) ==
    /\ call[r].pc = "locking"
    /\ SuitingInQueue(r) = {}
    /\ ~MayJoinRunning(r)
    /\ MayServeHeld(r)
    /\ call' = [call EXCEPT ![r].pc = "answered", ![r].answer = current]
    /\ UNCHANGED <<now, build, cacheVars, listenerVars, drain>>

MustBuild(r) ==
    /\ call[r].pc = "locking"
    /\ SuitingInQueue(r) = {}
    /\ ~MayJoinRunning(r)
    /\ ~MayServeHeld(r)

\* Mutant: what is queued decides, not what is running.
BusyIfQueued == queued # <<>>

Busy == running # None

\* Queued behind the running build rather than run beside it.
QueueBuild(r) ==
    /\ MustBuild(r)
    /\ Busy
    /\ build' = [build EXCEPT ![r].forced = call[r].forced,
                              ![r].probe = call[r].probe]
    /\ queued' = Append(queued, r)
    /\ call' = [call EXCEPT ![r].pc = "waiting", ![r].on = r]
    /\ UNCHANGED <<now, running, current, at, heldProbe, listenerVars, drain>>

\* Nothing is running: the build starts, stamped with the arrival, on a
\* goroutine of its own.
StartBuild(r) ==
    /\ MustBuild(r)
    /\ ~Busy
    /\ build' = [build EXCEPT ![r].forced = call[r].forced,
                              ![r].probe = call[r].probe,
                              ![r].startedAt = call[r].arrived]
    /\ running' = r
    /\ drain' = [drain EXCEPT ![r].pc = "begin", ![r].work = r]
    /\ call' = [call EXCEPT ![r].pc = "waiting", ![r].on = r]
    /\ UNCHANGED <<now, queued, current, at, heldProbe, listenerVars>>

Lookup(r) ==
    \/ JoinQueued(r) \/ JoinRunning(r) \/ ServeHeld(r)
    \/ QueueBuild(r) \/ StartBuild(r)

-----------------------------------------------------------------------------
(* wait.  Done and cancelled may both be ready; select picks either. *)

\* Mutant: a woken waiter reads the held build rather than the one it waited for.
AnswerHeld(r) ==
    /\ call[r].pc = "waiting"
    /\ build[call[r].on].done
    /\ call' = [call EXCEPT ![r].pc = "answered", ![r].answer = current]
    /\ UNCHANGED <<now, build, cacheVars, listenerVars, drain>>

Answer(r) ==
    /\ call[r].pc = "waiting"
    /\ build[call[r].on].done
    /\ call' = [call EXCEPT ![r].pc = "answered", ![r].answer = call[r].on]
    /\ UNCHANGED <<now, build, cacheVars, listenerVars, drain>>

\* The caller's context ends: it gets what Peek holds, None for the empty payload.
Cancel(r) ==
    /\ call[r].pc = "waiting"
    /\ call' = [call EXCEPT ![r].pc = "cancelled", ![r].answer = current]
    /\ UNCHANGED <<now, build, cacheVars, listenerVars, drain>>

-----------------------------------------------------------------------------
(* drain. *)

\* c.build is called: from here on the scan looks at the fleet.
BeginScan(d) ==
    /\ drain[d].pc = "begin"
    /\ build' = [build EXCEPT ![drain[d].work].began = now]
    /\ drain' = [drain EXCEPT ![d].pc = "scanning"]
    /\ UNCHANGED <<now, call, cacheVars, listenerVars>>

\* Mutant: a finished chain never takes over what queued behind it.
NoNextBuild == None

NextBuild == IF queued = <<>> THEN None ELSE Head(queued)

NoticeOf(b) == [previous |-> current, current |-> b, forced |-> build[b].forced]

\* The one critical section after a scan: publish, owe the notice, take the
\* oldest queued build and stamp its start.
Publish(d) ==
    /\ drain[d].pc = "scanning"
    /\ LET b == drain[d].work
       IN  /\ build' = [r \in Requests |->
                         CASE r = b         -> [build[r] EXCEPT !.ended = now]
                           [] r = NextBuild -> [build[r] EXCEPT !.startedAt = now]
                           [] OTHER         -> build[r]]
           /\ current' = b
           /\ at' = build[b].startedAt
           /\ heldProbe' = build[b].probe
           /\ pending' = IF HasListener THEN Append(pending, NoticeOf(b)) ELSE pending
    /\ queued' = IF queued = <<>> THEN queued ELSE Tail(queued)
    /\ running' = NextBuild
    /\ drain' = [drain EXCEPT ![d].pc = "closing", ![d].next = NextBuild]
    /\ UNCHANGED <<now, call, notifyMu, told>>

\* Mutant: the goroutine returns without looking at next.
EndChain(d) == drain' = [drain EXCEPT ![d].pc = "ended", ![d].work = None]

\* b = next, and round again or out of the goroutine.
Advance(d) ==
    drain' = [drain EXCEPT ![d].pc = IF drain[d].next = None
                                     THEN "ended" ELSE "begin",
                           ![d].work = drain[d].next,
                           ![d].next = None]

\* close(b.done), and straight on when nobody is listening.
CloseDone(d) ==
    /\ drain[d].pc = "closing"
    /\ build' = [build EXCEPT ![drain[d].work].done = TRUE]
    /\ IF HasListener THEN drain' = [drain EXCEPT ![d].pc = "notify"]
                      ELSE Advance(d)
    /\ UNCHANGED <<now, call, cacheVars, listenerVars>>

-----------------------------------------------------------------------------
(* flush. *)

\* Mutant: a goroutine that finds notifyMu held leaves the telling to its holder.
TryLockNotify(d) ==
    /\ drain[d].pc = "notify"
    /\ IF notifyMu = None
       THEN notifyMu' = d /\ drain' = [drain EXCEPT ![d].pc = "take"]
       ELSE UNCHANGED notifyMu /\ Advance(d)
    /\ UNCHANGED <<now, call, build, cacheVars, pending, told>>

LockNotify(d) ==
    /\ drain[d].pc = "notify"
    /\ notifyMu = None
    /\ notifyMu' = d
    /\ drain' = [drain EXCEPT ![d].pc = "take"]
    /\ UNCHANGED <<now, call, build, cacheVars, pending, told>>

\* Mutant: the newest notice goes first.
TakeNewest(d) ==
    /\ drain[d].pc = "take"
    /\ pending # <<>>
    /\ pending' = SubSeq(pending, 1, Len(pending) - 1)
    /\ drain' = [drain EXCEPT ![d].pc = "telling",
                              ![d].hand = <<pending[Len(pending)]>>]
    /\ UNCHANGED <<now, call, build, cacheVars, notifyMu, told>>

TakeNotice(d) ==
    /\ drain[d].pc = "take"
    /\ pending # <<>>
    /\ pending' = Tail(pending)
    /\ drain' = [drain EXCEPT ![d].pc = "telling",
                              ![d].hand = <<Head(pending)>>]
    /\ UNCHANGED <<now, call, build, cacheVars, notifyMu, told>>

\* The listener returns.
Tell(d) ==
    /\ drain[d].pc = "telling"
    /\ told' = told \o drain[d].hand
    /\ drain' = [drain EXCEPT ![d].pc = "take", ![d].hand = <<>>]
    /\ UNCHANGED <<now, call, build, cacheVars, pending, notifyMu>>

\* Nothing is owed: the check is under c.mu, the unlock of notifyMu after it.
NothingOwed(d) ==
    /\ drain[d].pc = "take"
    /\ pending = <<>>
    /\ drain' = [drain EXCEPT ![d].pc = "release"]
    /\ UNCHANGED <<now, call, build, cacheVars, listenerVars>>

UnlockNotify(d) ==
    /\ drain[d].pc = "release"
    /\ notifyMu' = None
    /\ Advance(d)
    /\ UNCHANGED <<now, call, build, cacheVars, pending, told>>

-----------------------------------------------------------------------------
DrainStep(d) ==
    \/ BeginScan(d) \/ Publish(d) \/ CloseDone(d)
    \/ LockNotify(d) \/ TakeNotice(d) \/ NothingOwed(d) \/ UnlockNotify(d)

\* The model has made every request it is going to make and all of them are over.
Finished ==
    /\ now = MaxTime
    /\ \A r \in Requests : /\ call[r].pc \in {"answered", "cancelled"}
                           /\ drain[r].pc \in {"none", "ended"}
    /\ UNCHANGED vars

Next ==
    \/ Tick
    \/ \E r \in Requests, ask \in Asks : Arrive(r, ask)
    \/ \E r \in Requests : Lookup(r) \/ Answer(r)
    \/ \E r \in Leavers : Cancel(r)
    \/ \E d \in Requests : DrainStep(d) \/ Tell(d)
    \/ Finished

\* A request that is looking takes the lock in the end, a woken waiter runs, and a
\* goroutine of drain goes on: its scan ends, since every read of a scan has a budget, and
\* the listener, which writes lines, returns.  Nobody has to arrive or to leave.
Fairness ==
    /\ \A r \in Requests : WF_vars(Lookup(r)) /\ WF_vars(Answer(r))
    /\ \A d \in Requests : WF_vars(DrainStep(d) \/ Tell(d))

Spec == Init /\ [][Next]_vars
FairSpec == Spec /\ Fairness

-----------------------------------------------------------------------------
(* What must never happen. *)

Answered(r) == call[r].pc = "answered"

\* A forced request is answered only by a build that started, and whose scan first looked
\* at the fleet, at or after the moment the request arrived.  Get compares startedAt with
\* an arrival read before the lock; the scan itself begins later, on another goroutine.
ForcedAnsweredByLaterScan ==
    \A r \in Requests :
        Answered(r) /\ call[r].forced =>
            LET b == build[call[r].answer]
            IN  b.startedAt >= call[r].arrived /\ b.began >= call[r].arrived

\* However many requests, chains and goroutines there are, one scan runs at a time, and
\* it is the one c.running names: the Docker socket is not read twice at once.
OneScanAtATime ==
    \A d, e \in Requests :
        drain[d].pc \in {"begin", "scanning"} =>
            /\ running = drain[d].work
            /\ drain[e].pc \in {"begin", "scanning"} => d = e

\* An answer a request did not force is one that was still being made when it arrived, or
\* is younger than the TTL counting from when its scan looked at the fleet.
UnforcedAnswerFresh ==
    \A r \in Requests :
        Answered(r) /\ ~call[r].forced =>
            LET b == build[call[r].answer]
            IN  b.ended >= call[r].arrived \/ call[r].arrived - b.began < TTL

\* A caller that named a probe override gets a payload built with it, by whichever of the
\* four ways Get answers; one that named none takes any.
OverrideHonoured ==
    \A r \in Requests :
        Answered(r) => call[r].probe \in {Unset, build[call[r].answer].probe}

\* Two requests that could share a build that has not started never wait on two of them:
\* the queue is longer than one only when its builds disagree about the probe.
QueueOnlyDisagrees ==
    \A i, j \in DOMAIN queued :
        i < j => ~Suits(build[queued[j]].probe, build[queued[i]].probe)

Notices ==
    told \o (IF notifyMu = None THEN <<>> ELSE drain[notifyMu].hand) \o pending

\* The listener is owed every published build exactly once, in the order they were
\* published, each against the one before it: told, in hand and pending form one chain
\* from nothing to the held build, whichever goroutine is doing the telling.
NoticesFormOneChain ==
    HasListener =>
        /\ current = None <=> Notices = <<>>
        /\ \A i \in DOMAIN Notices :
              Notices[i].previous = IF i = 1 THEN None ELSE Notices[i - 1].current
        /\ current # None => Notices[Len(Notices)].current = current
        /\ \A i, j \in DOMAIN Notices :
              i # j => Notices[i].current # Notices[j].current

-----------------------------------------------------------------------------
(* Why the answers are right: the invariant that every step preserves. *)

\* The build a goroutine will run or is running; None once it only has telling to do.
Charge(d) == IF drain[d].pc \in {"begin", "scanning"} THEN drain[d].work
                                                     ELSE drain[d].next

\* c.running is some goroutine's charge and nobody else has one; nothing waits in the
\* queue without it.
ChainInv ==
    /\ \A d \in Requests :
          /\ Charge(d) # None => running = Charge(d)
          /\ drain[d].pc \in {"begin", "scanning", "closing"} => drain[d].work # None
          /\ drain[d].pc \in {"none", "begin", "scanning", "ended"} => drain[d].next = None
    /\ \A d, e \in Requests : Charge(d) # None /\ Charge(e) # None => d = e
    /\ running = None => queued = <<>>
    /\ running # None => \E d \in Requests : Charge(d) = running

\* Builds go from the queue to running to held, each once, their times in that order.
BuildInv ==
    /\ \A i, j \in DOMAIN queued : queued[i] = queued[j] => i = j
    /\ \A i \in DOMAIN queued :
          /\ queued[i] # running
          /\ build[queued[i]].startedAt = Zero
          /\ build[queued[i]].began = Zero
          /\ build[queued[i]].ended = Zero
          /\ call[queued[i]].pc \notin {"idle", "locking"}
    /\ running # None =>
          /\ build[running].startedAt # Zero
          /\ build[running].ended = Zero
          /\ call[running].pc \notin {"idle", "locking"}
    /\ \A b \in Requests :
          /\ build[b].startedAt <= now /\ build[b].ended <= now
          /\ build[b].began # Zero =>
                build[b].startedAt # Zero /\ build[b].startedAt <= build[b].began
          /\ build[b].ended # Zero => build[b].began # Zero
          /\ build[b].done => build[b].ended # Zero
          /\ call[b].pc \in {"idle", "locking"} =>
                /\ build[b].startedAt = Zero
                /\ \A r \in Requests : call[r].on # b
    /\ \A d \in Requests :
          /\ drain[d].pc = "scanning" => build[drain[d].work].began # Zero
          /\ drain[d].pc = "closing" => build[drain[d].work].ended # Zero

HeldInv ==
    current # None => /\ build[current].ended # Zero
                      /\ at = build[current].startedAt
                      /\ heldProbe = build[current].probe

\* A waiter waits only for a build it may be answered by, and an answer is final.
CallInv ==
    \A r \in Requests :
        /\ call[r].pc # "idle" => call[r].arrived \in 1..now
        /\ call[r].pc = "waiting" =>
              LET b == build[call[r].on]
              IN  /\ call[r].on # None
                  /\ Suits(call[r].probe, b.probe)
                  /\ b.ended = Zero \/ b.ended >= call[r].arrived
                  /\ call[r].forced =>
                        b.startedAt = Zero \/ b.startedAt >= call[r].arrived
        /\ call[r].pc = "answered" =>
              LET b == build[call[r].answer]
              IN  /\ call[r].answer # None
                  /\ b.ended # Zero
                  /\ Suits(call[r].probe, b.probe)
                  /\ IF call[r].forced
                     THEN b.startedAt >= call[r].arrived
                     ELSE \/ b.ended >= call[r].arrived
                          \/ call[r].arrived - b.startedAt < TTL

IInv == now >= 1 /\ TypeOK /\ ChainInv /\ BuildInv /\ HeldInv /\ CallInv

-----------------------------------------------------------------------------
(* What a step must never do, and what must come to pass. *)

\* A build somebody asked for is run to its end and the listener told of it, even when
\* every caller waiting for it has left.
EveryBuildIsRunAndTold ==
    \A b \in Requests :
        call[b].on = b ~>
            build[b].done /\ (HasListener =>
                                \E i \in DOMAIN told : told[i].current = b)

-----------------------------------------------------------------------------
(* The cache implements the service. *)

CallPhase(pc) ==
    CASE pc \in {"locking", "waiting"} -> "asked"
      [] pc = "cancelled"              -> "left"
      [] OTHER                         -> pc

ScanPhase(b) ==
    IF build[b].began = Zero THEN "unseen"
    ELSE IF build[b].ended = Zero THEN "scanning" ELSE "finished"

Service == INSTANCE ScanService WITH
    Scans <- Requests,
    ask   <- [r \in Requests |-> [phase   |-> CallPhase(call[r].pc),
                                  forced  |-> call[r].forced,
                                  probe   |-> call[r].probe,
                                  arrived |-> call[r].arrived,
                                  answer  |-> call[r].answer]],
    scan  <- [b \in Requests |-> [phase |-> ScanPhase(b),
                                  probe |-> IF build[b].began = Zero
                                            THEN Unset ELSE build[b].probe,
                                  began |-> build[b].began,
                                  ended |-> build[b].ended]],
    held  <- current

\* Behind its lock, its queue and its chain of scans the cache does what ScanService says.
ServiceSafety == Service!Safety

\* And it does so in the end.
\* Every call of Get returns, and every scan that began is published.
ServiceProgress == Service!Progress
=============================================================================
