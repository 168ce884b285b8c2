------------------------------- MODULE Fanout -------------------------------
(***************************************************************************)
(* internal/pipeline, with internal/dockerapi and internal/probe: the      *)
(* goroutines of one scan.  Reads that have their endpoint start before    *)
(* the Docker snapshot, the others after the origins are resolved; one     *)
(* wait joins both; the probe asks only after that.  The snapshot hands    *)
(* one inspect per listed container to a fixed number of workers, the      *)
(* probe walks each service's addresses in a goroutine of its own.         *)
(*                                                                         *)
(* What the two readers ask, and in which order, is module Readers; here a *)
(* reader is a goroutine that makes a few requests.                        *)
(***************************************************************************)
EXTENDS Transport, Sequences, FiniteSetsExt

CONSTANTS
    MaxContainers,   \* bound on what the Engine lists
    KeysOf,          \* per place in the list, the keys that container is found by
    Subjects,        \* the services of the fleet
    Addresses,       \* how many addresses each of them has; AddressCap at most
    StatePaths,      \* how many current-user addresses there are
    ReaderRequests   \* bound on the requests of one reader

ASSUME FanoutAssumption ==
    /\ MaxContainers \in Nat
    /\ DOMAIN KeysOf = 1..MaxContainers
    /\ Addresses \in 1..4
    /\ StatePaths \in Nat
    /\ ReaderRequests \in Nat \ {0}
    /\ {"docker", "authentik", "traefik", "probe"} \subseteq Clients

VARIABLES
    stage,      \* how far Run is
    socket,     \* what of the configuration and the pre-check lets the Engine be asked
    listed,     \* how many containers the list has
    next,       \* the index inspectAll sends next
    worker,     \* per inspect goroutine, the index it has; 0 between two
    states,     \* per index, what its inspect left: "state", why it was refused, or "none"
    finished,   \* history: the indexes in the order their inspects ended
    snapshot,   \* dockerapi.Snapshot
    mode,       \* per reader, whether it is off, has its endpoint, or discovers it
    reader,     \* per reader, its goroutine
    probing,    \* whether the probe is enabled for this scan
    kind,       \* per service, what Eligible says of it
    prober,     \* per service, the goroutine that asks it
    tally       \* probe.Read, as far as it counts

dockerVars == <<socket, listed, next, worker, states, finished, snapshot>>
readerVars == <<mode, reader>>
probeVars == <<probing, kind, prober, tally>>
vars == <<transportVars, stage, dockerVars, readerVars, probeVars>>

Keys == UNION {KeysOf[i] : i \in 1..MaxContainers}
Readers == {<<"identity", 0>>, <<"proxy", 0>>}
ClientOf(r) == IF r[1] = "identity" THEN "authentik" ELSE "traefik"
Inspector(w) == <<"inspect", w>>
Asker(s) == <<"probe", s>>

Main == <<"main", 0>>
Stages == {"start", "ping", "list", "inspect", "resolve", "join", "probe", "done"}

\* CheckSocket and the two configuration checks in front of it.
Sockets == {"disabled", "nowhere", "absent", "not-a-socket", "unreadable", "present"}
PreCheck(s) ==
    FirstHolding(<< <<s = "disabled",   "disabled">>,
                    <<s = "nowhere",    "not-configured">>,
                    <<s = "unreadable", "authorize">>,
                    <<TRUE,             "not-found">> >>)

\* What an inspect left behind: a state, or the phase it was refused with.
Reasons == ConnectionPhases \cup {""}
NoSnapshot == [phase |-> "disabled", refused |-> 0, reason |-> "", order |-> <<>>,
               owner |-> [k \in Keys |-> 0]]

NotAsked == [pc |-> "off", at |-> 1, phase |-> "not-configured", gate |-> FALSE,
             heard |-> <<>>, stated |-> <<>>]

\* The fan-out of inspectAll: at least one worker, no more than there is work.
Workers == IF MaxConcurrency["docker"] <= 0
             THEN 1..Min({1, listed})
             ELSE 1..Min({MaxConcurrency["docker"], listed})

AllWorkers == 1..Max({1, MaxContainers})

\* Every goroutine of a scan that makes requests.
ASSUME ActorsAssumption ==
    /\ Main \in Actors
    /\ \A w \in AllWorkers : Inspector(w) \in Actors
    /\ Readers \subseteq Actors
    /\ \A s \in Subjects : Asker(s) \in Actors

TypeOK ==
    /\ TransportTypeOK
    /\ stage \in Stages
    /\ socket \in Sockets
    /\ listed \in 0..MaxContainers
    /\ next \in 1..(MaxContainers + 1)
    /\ worker \in [AllWorkers -> 0..MaxContainers]
    /\ states \in [1..MaxContainers -> Reasons \cup {"state", "none"}]
    /\ snapshot.phase \in ConnectionPhases
    /\ mode \in [Readers -> {"off", "configured", "discovers"}]
    /\ reader \in [Readers -> [pc : {"idle", "reading", "over"}, asks : 0..ReaderRequests]]
    /\ kind \in [Subjects -> {"asked", "skipped", "no address"}]
    /\ probing \in BOOLEAN
    /\ \A s \in Subjects : /\ prober[s].pc \in {"off", "addresses", "state", "over"}
                         /\ prober[s].at \in 1..(Max({Addresses, StatePaths}) + 1)
                         /\ prober[s].phase \in ConnectionPhases
                         /\ prober[s].gate \in BOOLEAN
    /\ stage # "inspect" => \A w \in AllWorkers : worker[w] = 0

Init ==
    /\ TransportInit
    /\ stage = "start"
    /\ socket \in Sockets
    /\ listed = 0
    /\ next = 1
    /\ worker = [w \in AllWorkers |-> 0]
    /\ states = [i \in 1..MaxContainers |-> "none"]
    /\ finished = <<>>
    /\ snapshot = NoSnapshot
    /\ mode \in [Readers -> {"off", "configured", "discovers"}]
    /\ reader = [r \in Readers |-> [pc |-> "idle", asks |-> 0]]
    /\ probing \in BOOLEAN
    /\ kind \in [Subjects -> {"asked", "skipped", "no address"}]
    /\ prober = [s \in Subjects |-> NotAsked]
    /\ tally = [phase |-> "disabled", gated |-> 0, open |-> 0, silent |-> 0]

-----------------------------------------------------------------------------
\* One goroutine's requests, one at a time: it asks, and later takes the outcome.
Over(a) == call[a].pc = "over"
Idle(a) == call[a].pc = "none"
Took(a) == call' = [call EXCEPT ![a] = NoCall]
TookAndAsk(a, c) == call' = [call EXCEPT ![a] = Enter(c)]
Good(a) == OK(call[a].outcome.phase)

\* Run's first lines: readers that have their endpoint, or that are off, start at once; then
\* Read asks the Engine, unless the configuration or the socket stops it.
Begin ==
    /\ stage = "start"
    /\ reader' = [r \in Readers |-> [reader[r] EXCEPT
                     !.pc = IF mode[r] = "discovers" THEN "idle" ELSE "reading"]]
    /\ IF socket = "present"
         THEN /\ stage' = "ping"
              /\ Ask(Main, "docker")
              /\ UNCHANGED snapshot
         ELSE /\ stage' = "resolve"
              /\ snapshot' = [snapshot EXCEPT !.phase = PreCheck(socket)]
              /\ UNCHANGED call
    /\ UNCHANGED <<gone, limit, socket, listed, next, worker, states, finished, mode, probeVars>>

\* ping and list: a status, a body that is not the Engine's, or the next request.
Refused(phase) ==
    /\ Took(Main)
    /\ stage' = "resolve"
    /\ snapshot' = [snapshot EXCEPT !.phase = phase]

Ping ==
    /\ stage = "ping"
    /\ Over(Main)
    /\ \/ ~Good(Main) /\ Refused(call[Main].outcome.phase)
       \/ Good(Main) /\ Refused("protocol")
       \/ /\ Good(Main)
          /\ TookAndAsk(Main, "docker")
          /\ stage' = "list"
          /\ UNCHANGED snapshot
    /\ UNCHANGED <<gone, limit, socket, listed, next, worker, states, finished, readerVars,
                   probeVars>>

List ==
    /\ stage = "list"
    /\ Over(Main)
    /\ \/ ~Good(Main) /\ Refused(call[Main].outcome.phase) /\ UNCHANGED listed
       \/ Good(Main) /\ Refused(ReadJSON("other")) /\ UNCHANGED listed
       \/ /\ Good(Main)
          /\ Took(Main)
          /\ stage' = "inspect"
          /\ listed' \in 0..MaxContainers
          /\ UNCHANGED snapshot
    /\ UNCHANGED <<gone, limit, socket, next, worker, states, finished, readerVars, probeVars>>

\* inspectAll: the next index goes over an unbuffered channel to a worker that has none.
HandOut(w) ==
    /\ stage = "inspect"
    /\ next <= listed
    /\ w \in Workers
    /\ worker[w] = 0
    /\ worker' = [worker EXCEPT ![w] = next]
    /\ next' = next + 1
    /\ Ask(Inspector(w), "docker")
    /\ UNCHANGED <<gone, limit, stage, socket, listed, states, finished, snapshot, readerVars,
                   probeVars>>

\* Mutant: a refused inspect ends the worker's loop instead of going on with the next index.
EndsWhenRefused(w, got) == IF got = "state" THEN 0 ELSE worker[w]

\* The worker's loop: whatever the inspect gave, the worker asks for another index.
AfterInspect(w, got) == 0

InspectOver(w) ==
    LET a == Inspector(w)
    IN  /\ worker[w] # 0
        /\ Over(a)
        /\ \E got \in IF Good(a) THEN {"state", ReadJSON("other")} ELSE {call[a].outcome.phase} :
             /\ states' = [states EXCEPT ![worker[w]] = got]
             /\ worker' = [worker EXCEPT ![w] = AfterInspect(w, got)]
        /\ finished' = Append(finished, worker[w])
        /\ Took(a)
        /\ UNCHANGED <<gone, limit, stage, socket, listed, next, snapshot, readerVars, probeVars>>

\* Mutant: containers are entered as their inspects come back.
InOrderOfAnswers == Picked(finished, {i \in DOMAIN finished : states[finished[i]] = "state"})

\* Read: containers are entered in the order of the list, a later one over an earlier one.
InOrderOfList == Picked([i \in 1..listed |-> i], {i \in 1..listed : states[i] = "state"})

\* wg.Wait: nothing left to hand out, and nobody still asking.
InspectsDone == next > listed /\ \A w \in AllWorkers : worker[w] = 0

Index ==
    LET order == InOrderOfList
        bad == {i \in 1..listed : states[i] # "state"}
    IN  /\ stage = "inspect"
        /\ InspectsDone
        /\ stage' = "resolve"
        /\ snapshot' =
             [phase   |-> IF bad = {} THEN "connected" ELSE "partial",
              refused |-> Cardinality(bad),
              reason  |-> IF bad = {} THEN "" ELSE states[Min(bad)],
              order   |-> order,
              owner   |-> [k \in Keys |->
                             LET at == {n \in DOMAIN order : k \in KeysOf[order[n]]}
                             IN  IF at = {} THEN 0 ELSE order[Max(at)]]]
        /\ UNCHANGED <<transportVars, socket, listed, next, worker, states, finished,
                       readerVars, probeVars>>

\* Stages 4 to 6b, and then the readers that discover their endpoint from what these found.
Resolve ==
    /\ stage = "resolve"
    /\ stage' = "join"
    /\ reader' = [r \in Readers |-> [reader[r] EXCEPT
                     !.pc = IF mode[r] = "discovers" THEN "reading" ELSE @]]
    /\ UNCHANGED <<transportVars, dockerVars, mode, probeVars>>

\* A reader: requests one after another, until it has what it wants or has to stop.
ReaderAsks(r) ==
    /\ reader[r].pc = "reading"
    /\ mode[r] # "off"
    /\ Idle(r)
    /\ reader[r].asks < ReaderRequests
    /\ reader' = [reader EXCEPT ![r].asks = @ + 1]
    /\ Ask(r, ClientOf(r))
    /\ UNCHANGED <<gone, limit, stage, dockerVars, mode, probeVars>>

ReaderHears(r) ==
    /\ reader[r].pc = "reading"
    /\ Over(r)
    /\ Took(r)
    /\ UNCHANGED <<gone, limit, stage, dockerVars, readerVars, probeVars>>

ReaderReturns(r) ==
    /\ reader[r].pc = "reading"
    /\ Idle(r)
    /\ reader' = [reader EXCEPT ![r].pc = "over"]
    /\ UNCHANGED <<transportVars, stage, dockerVars, mode, probeVars>>

-----------------------------------------------------------------------------
\* Mutant: the wait is for the readers that were started first.
EarlyReadersDone == \A r \in Readers : mode[r] # "discovers" => reader[r].pc = "over"

\* wg.Wait: both readers, whenever they were started.
ReadersDone == \A r \in Readers : reader[r].pc = "over"

Asked == {s \in Subjects : kind[s] = "asked"}
Skipped == {s \in Subjects : kind[s] = "skipped"}

\* The join, and probe.Do as far as its goroutines: four ways not to ask anybody.
Join ==
    /\ stage = "join"
    /\ ReadersDone
    /\ IF probing /\ Asked # {}
         THEN /\ stage' = "probe"
              /\ prober' = [s \in Subjects |-> [prober[s] EXCEPT
                               !.pc = IF s \in Asked THEN "addresses" ELSE "off"]]
              /\ UNCHANGED tally
         ELSE /\ stage' = "done"
              /\ tally' = [tally EXCEPT !.phase =
                     FirstHolding(<< <<~probing,     "disabled">>,
                                     <<Skipped = {}, "not-found">>,
                                     <<TRUE,         "connected">> >>)]
              /\ UNCHANGED prober
    /\ UNCHANGED <<transportVars, dockerVars, readerVars, probing, kind>>

\* ask: the service's addresses, one after another.
AddressAsks(s) ==
    /\ prober[s].pc = "addresses"
    /\ Idle(Asker(s))
    /\ prober[s].at <= Addresses
    /\ Ask(Asker(s), "probe")
    /\ UNCHANGED <<gone, limit, stage, dockerVars, readerVars, probeVars>>

\* Mutant: only a good answer is an answer.
HeardGood(o) == OK(o.phase)

\* ask: any status at all is an answer, and so is one whose body broke off.
Heard(o) == o.by \in {"answer", "body"}

\* No status: the next address, or the service is silent with the last one's phase. A
\* status: its page has a gate, has none, or is a shell whose client is to be followed.
AddressAnswers(s) ==
    LET o == call[Asker(s)].outcome
        p == prober[s]
    IN  /\ p.pc = "addresses"
        /\ Over(Asker(s))
        /\ Took(Asker(s))
        /\ IF Heard(o)
             THEN \E page \in {"gate", "open", "shell"} :
                    /\ (page = "shell" => o.phase = "connected")
                    /\ prober' = [prober EXCEPT ![s] =
                         [p EXCEPT !.phase = "connected", !.at = 1, !.gate = (page = "gate"),
                                   !.heard = Append(@, page),
                                   !.pc = IF page = "shell" THEN "state" ELSE "over"]]
             ELSE prober' = [prober EXCEPT ![s] =
                    [p EXCEPT !.phase = o.phase, !.at = @ + 1,
                              !.heard = Append(@, IF o.by \in {"answer", "body"} THEN "open"
                                                                            ELSE "none"),
                              !.pc = IF p.at < Addresses THEN "addresses" ELSE "over"]]
        /\ UNCHANGED <<gone, limit, stage, dockerVars, readerVars, probing, kind, tally>>

\* AskState: it looks at the context before each path, and stops at the first refusal.
StateAsks(s) ==
    /\ prober[s].pc = "state"
    /\ Idle(Asker(s))
    /\ IF gone \/ prober[s].at > StatePaths
         THEN /\ prober' = [prober EXCEPT ![s].pc = "over"]
              /\ UNCHANGED call
         ELSE /\ Ask(Asker(s), "probe")
              /\ UNCHANGED prober
    /\ UNCHANGED <<gone, limit, stage, dockerVars, readerVars, probing, kind, tally>>

StateAnswers(s) ==
    LET o == call[Asker(s)].outcome
        p == prober[s]
    IN  /\ p.pc = "state"
        /\ Over(Asker(s))
        /\ Took(Asker(s))
        /\ \E said \in IF ~Heard(o) THEN {"none"}
                       ELSE {"served"} \cup (IF o.phase = "authenticate"
                                              THEN {"bare", "challenge"} ELSE {}) :
             /\ (o.phase = "authenticate" => said # "served")
             /\ prober' = [prober EXCEPT ![s] =
                  [p EXCEPT !.at = @ + 1, !.stated = Append(@, said),
                            !.gate = (said = "challenge"),
                            !.pc = IF said \in {"bare", "challenge"} THEN "over" ELSE "state"]]
        /\ UNCHANGED <<gone, limit, stage, dockerVars, readerVars, probing, kind, tally>>

\* VerdictOf.
VerdictOf(p) ==
    FirstHolding(<< <<~OK(p.phase), "no-answer">>, <<p.gate, "gated">>, <<TRUE, "open">> >>)

With(verdict) == Cardinality({s \in Asked : VerdictOf(prober[s]) = verdict})

Tally ==
    /\ stage = "probe"
    /\ \A s \in Asked : prober[s].pc = "over"
    /\ stage' = "done"
    /\ tally' = [phase  |-> IF With("no-answer") > 0 THEN "partial" ELSE "connected",
                 gated  |-> With("gated"), open |-> With("open"),
                 silent |-> With("no-answer")]
    /\ UNCHANGED <<transportVars, dockerVars, readerVars, probing, kind, prober>>

-----------------------------------------------------------------------------
RunSteps == Begin \/ Ping \/ List \/ Index \/ Resolve \/ Join \/ Tally
InspectSteps == \E w \in AllWorkers : HandOut(w) \/ InspectOver(w)
ReaderSteps == \E r \in Readers : ReaderAsks(r) \/ ReaderHears(r) \/ ReaderReturns(r)
ProbeSteps == \E s \in Subjects :
    AddressAsks(s) \/ AddressAnswers(s) \/ StateAsks(s) \/ StateAnswers(s)
RequestSteps == \E a \in Actors : TransportStep(a)

Finished == stage = "done" /\ UNCHANGED vars

Next ==
    \/ RunSteps \/ InspectSteps \/ ReaderSteps \/ ProbeSteps
    \/ RequestSteps /\ UNCHANGED <<stage, dockerVars, readerVars, probeVars>>
    \/ Cancel /\ UNCHANGED <<stage, dockerVars, readerVars, probeVars>>
    \/ Finished

Spec == Init /\ [][Next]_vars

\* Every goroutine runs on; a request ends because its budget does, if not sooner, and a free
\* slot goes to somebody.
Fairness ==
    /\ WF_vars(RunSteps)
    /\ \A w \in AllWorkers : WF_vars(HandOut(w) \/ InspectOver(w))
    /\ \A r \in Readers : WF_vars(ReaderAsks(r) \/ ReaderHears(r) \/ ReaderReturns(r))
    /\ \A s \in Subjects : WF_vars(AddressAsks(s) \/ AddressAnswers(s)
                                     \/ StateAsks(s) \/ StateAnswers(s))
    /\ \A a \in Actors :
         WF_vars(TransportStep(a) /\ UNCHANGED <<stage, dockerVars, readerVars, probeVars>>)

FairSpec == Spec /\ Fairness

-----------------------------------------------------------------------------
\* pipeline.go:208-214: when the stages after the join read what the two readers left, no
\* goroutine of the snapshot or of a reader is still at work, whichever of them were started
\* before the snapshot and which after; and a finished scan leaves no request behind.
StagesReadSettledResults ==
    /\ stage \in {"probe", "done"} => \A r \in Readers : reader[r].pc = "over" /\ Idle(r)
    /\ stage \notin {"inspect"} => \A w \in AllWorkers : Idle(Inspector(w))
    /\ stage = "done" => \A a \in Actors : Idle(a)

\* dockerapi.go:158-187: the snapshot is a function of the list and of what each inspect said,
\* never of the order the inspects came back in: containers stand in list order, a key two of
\* them share belongs to the later one, every listed container is counted as read or as
\* refused, and the report is partial exactly when one was refused.
SnapshotIsTheList ==
    LET read == {i \in 1..listed : states[i] = "state"}
    IN  stage \in {"resolve", "join", "probe", "done"} /\ listed > 0 =>
        /\ \A m, n \in DOMAIN snapshot.order : m < n => snapshot.order[m] < snapshot.order[n]
        /\ {snapshot.order[n] : n \in DOMAIN snapshot.order} = read
        /\ \A k \in Keys : LET holders == {i \in read : k \in KeysOf[i]}
                           IN  snapshot.owner[k] = IF holders = {} THEN 0 ELSE Max(holders)
        /\ snapshot.refused + Len(snapshot.order) = listed
        /\ (snapshot.phase = "partial") = (snapshot.refused > 0)

\* probe.go:182-204: a service is judged by the first of its addresses that answered at all,
\* a refusal or a broken page included, and by nothing asked after it; it is called silent
\* only when every address was tried and none answered.
VerdictIsFirstAnswer ==
    \A s \in Subjects :
        LET p == prober[s]
            answered == {i \in DOMAIN p.heard : p.heard[i] # "none"}
        IN  p.pc = "over" =>
            /\ answered = {} <=> VerdictOf(p) = "no-answer"
            /\ answered = {} => Len(p.heard) = Addresses
            /\ answered # {} => answered = {Len(p.heard)}
            /\ VerdictOf(p) = "gated" <=>
                 \/ answered # {} /\ p.heard[Min(answered)] = "gate"
                 \/ p.stated # <<>> /\ p.stated[Len(p.stated)] = "challenge"

\* pipeline.go:82-345: every scan ends, through refused inspects, silent services, full
\* semaphores and a context that goes at any moment.
ScanFinishes == <>(stage = "done")

=============================================================================
