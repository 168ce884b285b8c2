---------------------------- MODULE FanoutProofs ----------------------------
(***************************************************************************)
(* Theorems about the goroutines of a scan: any number of containers,      *)
(* services and requests, any limit per client, and a context that may go  *)
(* at any step.  Every step of a goroutine is one of three things to the   *)
(* requests: none of its business, a call begun or taken by its own        *)
(* goroutine, or a step of the transport.  And what a service is called    *)
(* follows from the first of its addresses that answered.                  *)
(***************************************************************************)
EXTENDS Fanout, FiniteSetTheorems, SequenceTheorems, WellFoundedInduction, TLAPS

-----------------------------------------------------------------------------
(* The inductive invariant. *)

InFlight(c) == {a \in Actors : call[a].client = c /\ call[a].pc = "inflight"}

\* The slots of a client are the requests it has out.
SlotsInv ==
    /\ DOMAIN call = Actors
    /\ call = [a \in Actors |-> call[a]]
    /\ limit \in [Clients -> Int]
    /\ \A a \in Actors : call[a].pc \in {"waiting", "inflight"} => call[a].client \in Clients
    /\ \A c \in Clients : /\ limit[c] = Cardinality(InFlight(c))
                          /\ Bounded(c) => limit[c] <= Slots(c)

\* A goroutine has a request only while it is at work, and none is at work outside its stage.
MainInv == stage \in {"ping", "list"} \/ Idle(Main)

WorkerInv ==
    /\ next \in Nat \ {0}
    /\ DOMAIN worker = AllWorkers
    /\ \A w \in AllWorkers : /\ worker[w] = 0 => Idle(Inspector(w))
                             /\ worker[w] # 0 => stage = "inspect"

ReaderInv ==
    /\ DOMAIN reader = Readers
    /\ \A r \in Readers : /\ "pc" \in DOMAIN reader[r]
                          /\ reader[r].pc # "reading" => Idle(r)
                          /\ stage = "start" => reader[r].pc = "idle"
                          /\ stage \in {"probe", "done"} => reader[r].pc = "over"

ProberInv ==
    /\ DOMAIN prober = Subjects
    /\ \A s \in Subjects :
          /\ "pc" \in DOMAIN prober[s]
          /\ prober[s].pc \in {"off", "addresses", "state", "over"}
          /\ prober[s].pc \in {"off", "over"} => Idle(Asker(s))
          /\ prober[s].pc \in {"addresses", "state"} => stage = "probe" /\ s \in Asked

\* Nobody else makes a request.
Goroutines ==
    {Main} \cup {Inspector(w) : w \in AllWorkers} \cup Readers \cup {Asker(s) : s \in Subjects}

OthersInv == \A a \in Actors \ Goroutines : Idle(a)

FanoutInv == SlotsInv /\ MainInv /\ WorkerInv /\ ReaderInv /\ ProberInv /\ OthersInv

-----------------------------------------------------------------------------
(* The slots. *)

LEMMA InFlightIsFinite ==
    ASSUME NEW c
    PROVE  IsFiniteSet(InFlight(c)) /\ Cardinality(InFlight(c)) \in Nat
<1>1. InFlight(c) \in SUBSET Actors /\ IsFiniteSet(Actors)
      BY TransportAssumption DEF InFlight
<1> QED BY <1>1, FS_Subset, FS_CardinalityType

\* The slots do not move when a goroutine goes from one call that is not out to another.
LEMMA QuietCallKeepsSlots ==
    ASSUME SlotsInv, NEW a \in Actors, NEW new,
           call[a].pc # "inflight", new.pc # "inflight",
           new.pc = "waiting" => new.client \in Clients,
           call' = [call EXCEPT ![a] = new], limit' = limit
    PROVE  SlotsInv'
<1>1. /\ DOMAIN call' = Actors /\ call' = [b \in Actors |-> call'[b]]
      /\ \A b \in Actors : call'[b] = IF b = a THEN new ELSE call[b]
      BY DEF SlotsInv
<1>2. ASSUME NEW c PROVE InFlight(c)' = InFlight(c)
      BY <1>1 DEF InFlight
<1>3. \A b \in Actors : call'[b].pc \in {"waiting", "inflight"} => call'[b].client \in Clients
      BY <1>1 DEF SlotsInv
<1> QED BY <1>1, <1>2, <1>3 DEF SlotsInv, Bounded, Slots

LEMMA UntouchedSlots ==
    ASSUME SlotsInv, call' = call, limit' = limit
    PROVE  SlotsInv'
BY DEF SlotsInv, InFlight, Bounded, Slots

\* acquire: one more slot, one more request.
LEMMA TakeSlotKeepsSlots ==
    ASSUME SlotsInv, NEW a \in Actors, TakeSlot(a)
    PROVE  SlotsInv'
<1>1. PICK c : c = call[a].client
      OBVIOUS
<1>2. /\ c \in Clients /\ call[a].pc = "waiting" /\ limit[c] \in Int
      /\ Bounded(c) => limit[c] < Slots(c)
      BY <1>1 DEF TakeSlot, SlotsInv, HasSlot
<1>3. /\ limit' = [limit EXCEPT ![c] = limit[c] + 1]
      /\ call' = [call EXCEPT ![a] = CallAt("inflight", c, NoOutcome)]
      BY <1>1 DEF TakeSlot
<1>4. /\ DOMAIN call' = Actors /\ call' = [b \in Actors |-> call'[b]]
      /\ \A b \in Actors : call'[b] = IF b = a THEN CallAt("inflight", c, NoOutcome) ELSE call[b]
      BY <1>3 DEF SlotsInv
<1>5. /\ limit' \in [Clients -> Int]
      /\ \A d \in Clients : limit'[d] = IF d = c THEN limit[c] + 1 ELSE limit[d]
      BY <1>2, <1>3 DEF SlotsInv
<1>6. \A b \in Actors : call'[b].pc \in {"waiting", "inflight"} => call'[b].client \in Clients
      BY <1>2, <1>4 DEF SlotsInv, CallAt
<1>7. InFlight(c)' = InFlight(c) \cup {a} /\ a \notin InFlight(c)
      BY <1>2, <1>4 DEF InFlight, CallAt
<1>8. Cardinality(InFlight(c)') = Cardinality(InFlight(c)) + 1
      BY <1>7, InFlightIsFinite, FS_AddElement
<1>9. ASSUME NEW d \in Clients, d # c PROVE InFlight(d)' = InFlight(d)
      BY <1>2, <1>4, <1>9 DEF InFlight, CallAt
<1>10. ASSUME NEW d \in Clients
       PROVE  limit'[d] = Cardinality(InFlight(d)') /\ (Bounded(d) => limit'[d] <= Slots(d))
  <2>1. CASE d = c
    <3>1. limit'[d] = Cardinality(InFlight(d)')
          BY <2>1, <1>5, <1>8 DEF SlotsInv
    <3>2. Bounded(d) => limit'[d] <= Slots(d)
          BY <2>1, <1>2, <1>5, TransportAssumption DEF Slots, DefaultConcurrency
    <3> QED BY <3>1, <3>2
  <2>2. CASE d # c
        BY <2>2, <1>5, <1>9 DEF SlotsInv
  <2> QED BY <2>1, <2>2
<1> QED BY <1>4, <1>5, <1>6, <1>10 DEF SlotsInv, Bounded, Slots

\* release: whatever the outcome, the slot goes back.
LEMMA ReturnKeepsSlots ==
    ASSUME SlotsInv, NEW a \in Actors, Return(a)
    PROVE  SlotsInv'
<1>1. PICK c : c = call[a].client
      OBVIOUS
<1>2. PICK o : /\ limit' = [limit EXCEPT ![c] = limit[c] - 1]
               /\ call' = [call EXCEPT ![a] = CallAt("over", c, o)]
      BY <1>1 DEF Return, Freed
<1>3. c \in Clients /\ call[a].pc = "inflight" /\ limit[c] \in Int
      BY <1>1 DEF Return, SlotsInv
<1>4. /\ DOMAIN call' = Actors /\ call' = [b \in Actors |-> call'[b]]
      /\ \A b \in Actors : call'[b] = IF b = a THEN CallAt("over", c, o) ELSE call[b]
      BY <1>2 DEF SlotsInv
<1>5. /\ limit' \in [Clients -> Int]
      /\ \A d \in Clients : limit'[d] = IF d = c THEN limit[c] - 1 ELSE limit[d]
      BY <1>2, <1>3 DEF SlotsInv
<1>6. \A b \in Actors : call'[b].pc \in {"waiting", "inflight"} => call'[b].client \in Clients
      BY <1>4 DEF SlotsInv, CallAt
<1>7. InFlight(c)' = InFlight(c) \ {a} /\ a \in InFlight(c)
      BY <1>1, <1>3, <1>4 DEF InFlight, CallAt
<1>8. Cardinality(InFlight(c)') = Cardinality(InFlight(c)) - 1
      BY <1>7, InFlightIsFinite, FS_RemoveElement
<1>9. ASSUME NEW d \in Clients, d # c PROVE InFlight(d)' = InFlight(d)
      BY <1>1, <1>4, <1>9 DEF InFlight, CallAt
<1>10. ASSUME NEW d \in Clients
       PROVE  limit'[d] = Cardinality(InFlight(d)') /\ (Bounded(d) => limit'[d] <= Slots(d))
  <2>1. CASE d = c
    <3>1. limit'[d] = Cardinality(InFlight(d)')
          BY <2>1, <1>5, <1>8 DEF SlotsInv
    <3>2. Bounded(d) => limit[d] <= Slots(d)
          BY DEF SlotsInv
    <3>3. Slots(d) \in Int
          BY TransportAssumption DEF Slots, DefaultConcurrency
    <3> QED BY <3>1, <3>2, <3>3, <2>1, <1>3, <1>5
  <2>2. CASE d # c
        BY <2>2, <1>5, <1>9 DEF SlotsInv
  <2> QED BY <2>1, <2>2
<1> QED BY <1>4, <1>5, <1>6, <1>10 DEF SlotsInv, Bounded, Slots

LEMMA LeaveQueueKeepsSlots ==
    ASSUME SlotsInv, NEW a \in Actors, LeaveQueue(a)
    PROVE  SlotsInv'
<1>1. call' = [call EXCEPT ![a] = CallAt("over", call[a].client, Left)] /\ limit' = limit
      BY DEF LeaveQueue
<1>2. call[a].pc # "inflight" /\ CallAt("over", call[a].client, Left).pc = "over"
      BY DEF LeaveQueue, CallAt
<1> QED BY <1>1, <1>2, QuietCallKeepsSlots

LEMMA TransportKeepsSlots ==
    ASSUME SlotsInv, NEW a \in Actors, TransportStep(a)
    PROVE  SlotsInv'
BY TakeSlotKeepsSlots, ReturnKeepsSlots, LeaveQueueKeepsSlots DEF TransportStep

\* A goroutine asks: it has no request, and is given one that waits or is over at once.
LEMMA AskKeepsSlots ==
    ASSUME SlotsInv, NEW a \in Actors, NEW c \in Clients,
           call[a].pc # "inflight", call' = [call EXCEPT ![a] = Enter(c)], limit' = limit
    PROVE  SlotsInv'
<1>1. /\ Enter(c).pc \in {"waiting", "over"}
      /\ Enter(c).pc = "waiting" => Enter(c).client \in Clients
      BY DEF Enter, CallAt
<1>2. Enter(c).pc # "inflight"
      BY <1>1
<1> QED BY <1>1, <1>2, QuietCallKeepsSlots

LEMMA TookKeepsSlots ==
    ASSUME SlotsInv, NEW a \in Actors, call[a].pc # "inflight", Took(a), limit' = limit
    PROVE  SlotsInv'
<1>1. call' = [call EXCEPT ![a] = NoCall] /\ NoCall.pc = "none"
      BY DEF Took, NoCall, CallAt
<1> QED BY <1>1, QuietCallKeepsSlots

-----------------------------------------------------------------------------
(* Who has a request. *)

\* A call begun or taken is one goroutine's own.
LEMMA OwnCall ==
    ASSUME SlotsInv, NEW a \in Actors, NEW new, call' = [call EXCEPT ![a] = new]
    PROVE  /\ \A b \in Actors : b # a => (Idle(b)' <=> Idle(b))
           /\ new.pc = "none" => Idle(a)'
BY DEF SlotsInv, Idle

LEMMA TookIsIdle ==
    ASSUME SlotsInv, NEW a \in Actors, Took(a)
    PROVE  Idle(a)' /\ \A b \in Actors : b # a => (Idle(b)' <=> Idle(b))
<1>1. call' = [call EXCEPT ![a] = NoCall] /\ NoCall.pc = "none"
      BY DEF Took, NoCall, CallAt
<1> QED BY <1>1, OwnCall

\* The transport begins no call and takes none.
LEMMA TransportIdle ==
    ASSUME SlotsInv, NEW a \in Actors, TransportStep(a)
    PROVE  \A b \in Actors : Idle(b)' <=> Idle(b)
<1>1. PICK new : call' = [call EXCEPT ![a] = new] /\ new.pc # "none"
      BY DEF TransportStep, TakeSlot, LeaveQueue, Return, CallAt
<1>2. call[a].pc # "none"
      BY DEF TransportStep, TakeSlot, LeaveQueue, Return
<1> QED BY <1>1, <1>2 DEF SlotsInv, Idle

\* The goroutines of a scan are as many as their names.
LEMMA Names ==
    /\ \A w \in AllWorkers : Inspector(w) # Main /\ Inspector(w) \notin Readers
    /\ \A s \in Subjects : Asker(s) # Main /\ Asker(s) \notin Readers
    /\ \A w \in AllWorkers, s \in Subjects : Inspector(w) # Asker(s)
    /\ \A v, w \in AllWorkers : Inspector(v) = Inspector(w) => v = w
    /\ \A s, t \in Subjects : Asker(s) = Asker(t) => s = t
    /\ Main \notin Readers
BY DEF Inspector, Asker, Main, Readers

LEMMA TheirClients ==
    /\ {"docker", "probe"} \subseteq Clients
    /\ \A r \in Readers : ClientOf(r) \in Clients
BY FanoutAssumption DEF ClientOf

-----------------------------------------------------------------------------
(* The initial states, and the steps that leave every goroutine where it is. *)

LEMMA InitFanout == Init => FanoutInv
<1> SUFFICES ASSUME Init PROVE FanoutInv
    OBVIOUS
<1>1. \A a \in Actors : call[a] = NoCall /\ call[a].pc = "none"
      BY DEF Init, TransportInit, NoCall, CallAt
<1>2. \A c \in Clients : InFlight(c) = {}
      BY <1>1 DEF InFlight
<1>3. \A c \in Clients : limit[c] = 0 /\ Cardinality(InFlight(c)) = 0
      BY <1>2, FS_EmptySet DEF Init, TransportInit
<1>4. \A c \in Clients : Bounded(c) => 0 <= Slots(c)
      BY TransportAssumption DEF Bounded, Slots, DefaultConcurrency
<1>5. SlotsInv
  <2>1. call = [a \in Actors |-> NoCall] /\ limit = [c \in Clients |-> 0]
        BY DEF Init, TransportInit
  <2>2. DOMAIN call = Actors /\ call = [a \in Actors |-> call[a]]
        BY <2>1
  <2>3. limit \in [Clients -> Int]
        BY <2>1
  <2>4. \A a \in Actors : call[a].pc \notin {"waiting", "inflight"}
        BY <1>1
  <2>5. \A c \in Clients : /\ limit[c] = Cardinality(InFlight(c))
                           /\ Bounded(c) => limit[c] <= Slots(c)
        BY <1>3, <1>4
  <2> QED BY <2>2, <2>3, <2>4, <2>5 DEF SlotsInv
<1>6. \A a \in Actors : Idle(a)
      BY <1>1 DEF Idle
<1>7. MainInv /\ OthersInv
      BY <1>6, ActorsAssumption DEF MainInv, OthersInv
<1>8. WorkerInv
  <2>1. next = 1 /\ worker = [w \in AllWorkers |-> 0]
        BY DEF Init
  <2> QED BY <1>6, <2>1, ActorsAssumption DEF WorkerInv
<1>9. ReaderInv
      BY <1>6, ActorsAssumption DEF ReaderInv, Init
<1>10. ProberInv
       BY <1>6, ActorsAssumption DEF ProberInv, Init, NotAsked
<1> QED BY <1>5, <1>7, <1>8, <1>9, <1>10 DEF FanoutInv

LEMMA QuietStep ==
    ASSUME FanoutInv, SlotsInv', \A a \in Actors : Idle(a)' <=> Idle(a),
           stage' = stage, worker' = worker, next' = next,
           reader' = reader, prober' = prober, kind' = kind
    PROVE  FanoutInv'
<1>1. MainInv' /\ OthersInv'
      BY ActorsAssumption DEF FanoutInv, MainInv, OthersInv, Goroutines
<1>2. WorkerInv'
      BY ActorsAssumption DEF FanoutInv, WorkerInv
<1>3. ReaderInv'
      BY ActorsAssumption DEF FanoutInv, ReaderInv
<1>4. ProberInv'
      BY ActorsAssumption DEF FanoutInv, ProberInv, Asked
<1> QED BY <1>1, <1>2, <1>3, <1>4 DEF FanoutInv

LEMMA RequestKeeps ==
    ASSUME FanoutInv, RequestSteps, UNCHANGED <<stage, dockerVars, readerVars, probeVars>>
    PROVE  FanoutInv'
<1>1. SlotsInv
      BY DEF FanoutInv
<1>2. PICK a \in Actors : TransportStep(a)
      BY DEF RequestSteps
<1>3. SlotsInv' /\ \A b \in Actors : Idle(b)' <=> Idle(b)
      BY <1>1, <1>2, TransportKeepsSlots, TransportIdle
<1> QED BY <1>3, QuietStep DEF dockerVars, readerVars, probeVars

LEMMA CancelKeeps ==
    ASSUME FanoutInv, Cancel, UNCHANGED <<stage, dockerVars, readerVars, probeVars>>
    PROVE  FanoutInv'
<1>1. call' = call /\ limit' = limit
      BY DEF Cancel
<1>2. SlotsInv' /\ \A b \in Actors : Idle(b)' <=> Idle(b)
      BY <1>1, UntouchedSlots DEF FanoutInv, Idle
<1> QED BY <1>2, QuietStep DEF dockerVars, readerVars, probeVars

LEMMA StutterKeeps ==
    ASSUME FanoutInv, UNCHANGED vars
    PROVE  FanoutInv'
<1>1. /\ call' = call /\ limit' = limit
      /\ UNCHANGED <<stage, worker, next, reader, prober, kind>>
      BY DEF vars, transportVars, dockerVars, readerVars, probeVars
<1>2. SlotsInv' /\ \A b \in Actors : Idle(b)' <=> Idle(b)
      BY <1>1, UntouchedSlots DEF FanoutInv, Idle
<1> QED BY <1>1, <1>2, QuietStep

-----------------------------------------------------------------------------
(* The goroutine of Run. *)

\* What a step of Run leaves alone when the others' requests are not its business.
LEMMA OthersKept ==
    ASSUME FanoutInv, \A a \in Actors : a # Main => (Idle(a)' <=> Idle(a))
    PROVE  /\ OthersInv'
           /\ \A w \in AllWorkers : Idle(Inspector(w))' <=> Idle(Inspector(w))
           /\ \A r \in Readers : Idle(r)' <=> Idle(r)
           /\ \A s \in Subjects : Idle(Asker(s))' <=> Idle(Asker(s))
<1>1. OthersInv'
      BY DEF FanoutInv, OthersInv, Goroutines
<1> QED BY <1>1, ActorsAssumption, Names

LEMMA BeginKeeps ==
    ASSUME FanoutInv, Begin
    PROVE  FanoutInv'
<1>1. /\ stage = "start" /\ stage' \in {"ping", "resolve"} /\ limit' = limit
      /\ worker' = worker /\ next' = next /\ prober' = prober /\ kind' = kind
      /\ reader' = [r \in Readers |-> [reader[r] EXCEPT
                       !.pc = IF mode[r] = "discovers" THEN "idle" ELSE "reading"]]
      BY DEF Begin, probeVars
<1>2. Main \in Actors /\ "docker" \in Clients /\ Idle(Main) /\ call[Main].pc # "inflight"
      BY <1>1, ActorsAssumption, FanoutAssumption DEF FanoutInv, MainInv, Idle
<1>3. \/ stage' = "ping" /\ Ask(Main, "docker")
      \/ stage' = "resolve" /\ call' = call
      BY DEF Begin
<1>4. SlotsInv' /\ MainInv' /\ \A a \in Actors : a # Main => (Idle(a)' <=> Idle(a))
  <2>1. CASE stage' = "ping" /\ Ask(Main, "docker")
    <3>1. SlotsInv'
          BY <2>1, <1>1, <1>2, AskKeepsSlots DEF FanoutInv, Ask
    <3>2. \A a \in Actors : a # Main => (Idle(a)' <=> Idle(a))
          BY <2>1, <1>2, OwnCall DEF FanoutInv, Ask
    <3> QED BY <2>1, <3>1, <3>2 DEF MainInv
  <2>2. CASE stage' = "resolve" /\ call' = call
        BY <2>2, <1>1, <1>2, UntouchedSlots DEF FanoutInv, MainInv, Idle
  <2> QED BY <1>3, <2>1, <2>2
<1>5. /\ OthersInv'
      /\ \A w \in AllWorkers : Idle(Inspector(w))' <=> Idle(Inspector(w))
      /\ \A r \in Readers : Idle(r)' <=> Idle(r)
      /\ \A s \in Subjects : Idle(Asker(s))' <=> Idle(Asker(s))
      BY <1>4, OthersKept
<1>6. WorkerInv'
      BY <1>1, <1>5 DEF FanoutInv, WorkerInv
<1>7. ReaderInv'
      BY <1>1, <1>5 DEF FanoutInv, ReaderInv
<1>8. ProberInv'
      BY <1>1, <1>5 DEF FanoutInv, ProberInv
<1> QED BY <1>4, <1>5, <1>6, <1>7, <1>8 DEF FanoutInv

\* A step of Run before the join that takes its request and begins another or none.
LEMMA MainStep ==
    ASSUME FanoutInv, Over(Main), stage \in {"ping", "list"},
           stage' \in {"list", "inspect", "resolve"}, limit' = limit,
           \/ Took(Main)
           \/ stage' = "list" /\ TookAndAsk(Main, "docker"),
           worker' = worker, next' = next, reader' = reader, prober' = prober, kind' = kind
    PROVE  FanoutInv'
<1>1. Main \in Actors /\ "docker" \in Clients /\ call[Main].pc # "inflight"
      BY ActorsAssumption, FanoutAssumption DEF Over
<1>2. SlotsInv' /\ MainInv' /\ \A a \in Actors : a # Main => (Idle(a)' <=> Idle(a))
  <2>1. CASE Took(Main)
    <3>1. SlotsInv'
          BY <2>1, <1>1, TookKeepsSlots DEF FanoutInv
    <3>2. Idle(Main)' /\ \A a \in Actors : a # Main => (Idle(a)' <=> Idle(a))
          BY <2>1, <1>1, TookIsIdle DEF FanoutInv
    <3> QED BY <3>1, <3>2 DEF MainInv
  <2>2. CASE stage' = "list" /\ TookAndAsk(Main, "docker")
    <3>1. SlotsInv'
          BY <2>2, <1>1, AskKeepsSlots DEF FanoutInv, TookAndAsk
    <3>2. \A a \in Actors : a # Main => (Idle(a)' <=> Idle(a))
          BY <2>2, <1>1, OwnCall DEF FanoutInv, TookAndAsk
    <3> QED BY <2>2, <3>1, <3>2 DEF MainInv
  <2> QED BY <2>1, <2>2
<1>3. /\ OthersInv'
      /\ \A w \in AllWorkers : Idle(Inspector(w))' <=> Idle(Inspector(w))
      /\ \A r \in Readers : Idle(r)' <=> Idle(r)
      /\ \A s \in Subjects : Idle(Asker(s))' <=> Idle(Asker(s))
      BY <1>2, OthersKept
<1>4. WorkerInv'
      BY <1>3 DEF FanoutInv, WorkerInv
<1>5. ReaderInv'
      BY <1>3 DEF FanoutInv, ReaderInv
<1>6. ProberInv'
      BY <1>3 DEF FanoutInv, ProberInv
<1> QED BY <1>2, <1>3, <1>4, <1>5, <1>6 DEF FanoutInv

LEMMA PingKeeps ==
    ASSUME FanoutInv, Ping
    PROVE  FanoutInv'
<1>1. /\ Over(Main) /\ stage = "ping" /\ limit' = limit
      /\ UNCHANGED <<worker, next, reader, prober, kind>>
      BY DEF Ping, readerVars, probeVars
<1>2. \/ Took(Main) /\ stage' = "resolve"
      \/ stage' = "list" /\ TookAndAsk(Main, "docker")
      BY DEF Ping, Refused
<1> QED BY <1>1, <1>2, MainStep

LEMMA ListKeeps ==
    ASSUME FanoutInv, List
    PROVE  FanoutInv'
<1>1. /\ Over(Main) /\ stage = "list" /\ limit' = limit
      /\ UNCHANGED <<worker, next, reader, prober, kind>>
      BY DEF List, readerVars, probeVars
<1>2. Took(Main) /\ stage' \in {"inspect", "resolve"}
      BY DEF List, Refused
<1> QED BY <1>1, <1>2, MainStep

\* A step of Run that makes no request.
LEMMA Unasked ==
    ASSUME FanoutInv, call' = call, limit' = limit, stage \notin {"ping", "list"}
    PROVE  SlotsInv' /\ MainInv' /\ OthersInv' /\ \A a \in Actors : Idle(a)' <=> Idle(a)
<1>1. SlotsInv'
      BY UntouchedSlots DEF FanoutInv
<1>2. \A a \in Actors : Idle(a)' <=> Idle(a)
      BY DEF Idle
<1>3. MainInv'
      BY <1>2, ActorsAssumption DEF FanoutInv, MainInv
<1>4. OthersInv'
      BY <1>2 DEF FanoutInv, OthersInv, Goroutines
<1> QED BY <1>1, <1>2, <1>3, <1>4

LEMMA IndexKeeps ==
    ASSUME FanoutInv, Index
    PROVE  FanoutInv'
<1>1. /\ call' = call /\ limit' = limit /\ stage = "inspect" /\ stage' = "resolve"
      /\ UNCHANGED <<worker, next, reader, prober, kind>>
      /\ \A w \in AllWorkers : worker[w] = 0
      BY DEF Index, InspectsDone, transportVars, readerVars, probeVars
<1>2. SlotsInv' /\ MainInv' /\ OthersInv' /\ \A a \in Actors : Idle(a)' <=> Idle(a)
      BY <1>1, Unasked
<1>3. WorkerInv'
      BY <1>1, <1>2, ActorsAssumption DEF FanoutInv, WorkerInv
<1>4. ReaderInv'
      BY <1>1, <1>2, ActorsAssumption DEF FanoutInv, ReaderInv
<1>5. ProberInv'
      BY <1>1, <1>2, ActorsAssumption DEF FanoutInv, ProberInv
<1> QED BY <1>2, <1>3, <1>4, <1>5 DEF FanoutInv

LEMMA ResolveKeeps ==
    ASSUME FanoutInv, Resolve
    PROVE  FanoutInv'
<1>1. /\ call' = call /\ limit' = limit /\ stage = "resolve" /\ stage' = "join"
      /\ UNCHANGED <<worker, next, prober, kind>>
      /\ reader' = [r \in Readers |-> [reader[r] EXCEPT
                       !.pc = IF mode[r] = "discovers" THEN "reading" ELSE reader[r].pc]]
      BY DEF Resolve, transportVars, dockerVars, probeVars
<1>2. SlotsInv' /\ MainInv' /\ OthersInv' /\ \A a \in Actors : Idle(a)' <=> Idle(a)
      BY <1>1, Unasked
<1>3. WorkerInv'
      BY <1>1, <1>2, ActorsAssumption DEF FanoutInv, WorkerInv
<1>4. ReaderInv'
      BY <1>1, <1>2, ActorsAssumption DEF FanoutInv, ReaderInv
<1>5. ProberInv'
      BY <1>1, <1>2, ActorsAssumption DEF FanoutInv, ProberInv
<1> QED BY <1>2, <1>3, <1>4, <1>5 DEF FanoutInv

LEMMA JoinKeeps ==
    ASSUME FanoutInv, Join
    PROVE  FanoutInv'
<1>1. /\ call' = call /\ limit' = limit /\ stage = "join" /\ stage' \in {"probe", "done"}
      /\ UNCHANGED <<worker, next, reader, kind>> /\ \A r \in Readers : reader[r].pc = "over"
      BY DEF Join, ReadersDone, transportVars, dockerVars, readerVars
<1>2. SlotsInv' /\ MainInv' /\ OthersInv' /\ \A a \in Actors : Idle(a)' <=> Idle(a)
      BY <1>1, Unasked
<1>3. WorkerInv'
      BY <1>1, <1>2, ActorsAssumption DEF FanoutInv, WorkerInv
<1>4. ReaderInv'
      BY <1>1, <1>2, ActorsAssumption DEF FanoutInv, ReaderInv
<1>5. ProberInv'
  <2>1. CASE stage' = "probe"
    <3>1. prober' = [s \in Subjects |-> [prober[s] EXCEPT
                               !.pc = IF s \in Asked THEN "addresses" ELSE "off"]]
          BY <2>1 DEF Join
    <3>2. Asked' = Asked
          BY <1>1 DEF Asked
    <3>3. \A s \in Subjects : Idle(Asker(s))'
          BY <1>1, <1>2, ActorsAssumption DEF FanoutInv, ProberInv
    <3> QED BY <2>1, <3>1, <3>2, <3>3 DEF FanoutInv, ProberInv
  <2>2. CASE stage' = "done"
    <3>1. prober' = prober
          BY <2>2 DEF Join
    <3> QED BY <3>1, <1>1, <1>2, ActorsAssumption DEF FanoutInv, ProberInv
  <2> QED BY <1>1, <2>1, <2>2
<1> QED BY <1>2, <1>3, <1>4, <1>5 DEF FanoutInv

LEMMA TallyKeeps ==
    ASSUME FanoutInv, Tally
    PROVE  FanoutInv'
<1>1. /\ call' = call /\ limit' = limit /\ stage = "probe" /\ stage' = "done"
      /\ UNCHANGED <<worker, next, reader, prober, kind>>
      /\ \A s \in Asked : prober[s].pc = "over"
      BY DEF Tally, transportVars, dockerVars, readerVars
<1>2. SlotsInv' /\ MainInv' /\ OthersInv' /\ \A a \in Actors : Idle(a)' <=> Idle(a)
      BY <1>1, Unasked
<1>3. WorkerInv'
      BY <1>1, <1>2, ActorsAssumption DEF FanoutInv, WorkerInv
<1>4. ReaderInv'
      BY <1>1, <1>2, ActorsAssumption DEF FanoutInv, ReaderInv
<1>5. ProberInv'
      BY <1>1, <1>2, ActorsAssumption DEF FanoutInv, ProberInv
<1> QED BY <1>2, <1>3, <1>4, <1>5 DEF FanoutInv

-----------------------------------------------------------------------------
(* The goroutines that Run starts: each has a request of its own. *)

LEMMA InspectorStep ==
    ASSUME FanoutInv, SlotsInv', NEW w \in AllWorkers,
           \A b \in Actors : b # Inspector(w) => (Idle(b)' <=> Idle(b)),
           stage = "inspect", DOMAIN worker' = AllWorkers,
           \A v \in AllWorkers : v # w => worker'[v] = worker[v],
           worker'[w] = 0 => Idle(Inspector(w))', next' \in Nat \ {0},
           stage' = stage, reader' = reader, prober' = prober, kind' = kind
    PROVE  FanoutInv'
<1>1. MainInv'
      BY ActorsAssumption, Names DEF FanoutInv, MainInv
<1>2. OthersInv'
      BY DEF FanoutInv, OthersInv, Goroutines
<1>3. WorkerInv'
      BY ActorsAssumption, Names DEF FanoutInv, WorkerInv
<1>4. ReaderInv'
      BY ActorsAssumption, Names DEF FanoutInv, ReaderInv
<1>5. ProberInv'
      BY ActorsAssumption, Names DEF FanoutInv, ProberInv, Asked
<1> QED BY <1>1, <1>2, <1>3, <1>4, <1>5 DEF FanoutInv

\* What goes over the channel is an index, and 0 is none.
LEMMA HandOutKeeps ==
    ASSUME FanoutInv, NEW w \in AllWorkers, HandOut(w)
    PROVE  FanoutInv'
<1>1. /\ stage = "inspect" /\ worker[w] = 0 /\ limit' = limit
      /\ worker' = [worker EXCEPT ![w] = next] /\ next' = next + 1
      /\ call' = [call EXCEPT ![Inspector(w)] = Enter("docker")]
      /\ UNCHANGED <<stage, reader, prober, kind>>
      BY DEF HandOut, Ask, readerVars, probeVars
<1>2. /\ Inspector(w) \in Actors /\ "docker" \in Clients
      /\ Idle(Inspector(w)) /\ call[Inspector(w)].pc # "inflight"
      BY <1>1, ActorsAssumption, FanoutAssumption DEF FanoutInv, WorkerInv, Idle
<1>3. next # 0 /\ next' \in Nat \ {0}
      BY <1>1 DEF FanoutInv, WorkerInv
<1>4. SlotsInv'
      BY <1>1, <1>2, AskKeepsSlots DEF FanoutInv
<1>5. \A b \in Actors : b # Inspector(w) => (Idle(b)' <=> Idle(b))
      BY <1>1, <1>2, OwnCall DEF FanoutInv
<1>6. /\ DOMAIN worker' = AllWorkers /\ worker'[w] # 0
      /\ \A v \in AllWorkers : v # w => worker'[v] = worker[v]
      BY <1>1, <1>3 DEF FanoutInv, WorkerInv
<1> QED BY <1>1, <1>3, <1>4, <1>5, <1>6, InspectorStep

LEMMA InspectOverKeeps ==
    ASSUME FanoutInv, NEW w \in AllWorkers, InspectOver(w)
    PROVE  FanoutInv'
<1>1. /\ worker[w] # 0 /\ next' = next /\ limit' = limit /\ Took(Inspector(w))
      /\ call[Inspector(w)].pc = "over"
      /\ UNCHANGED <<stage, reader, prober, kind>>
      BY DEF InspectOver, Over, readerVars, probeVars
<1>2. PICK new : worker' = [worker EXCEPT ![w] = new]
      BY DEF InspectOver
<1>3. Inspector(w) \in Actors /\ stage = "inspect"
      BY <1>1, ActorsAssumption DEF FanoutInv, WorkerInv
<1>4. SlotsInv'
      BY <1>1, <1>3, TookKeepsSlots DEF FanoutInv
<1>5. Idle(Inspector(w))' /\ \A b \in Actors : b # Inspector(w) => (Idle(b)' <=> Idle(b))
      BY <1>1, <1>3, TookIsIdle DEF FanoutInv
<1>6. /\ DOMAIN worker' = AllWorkers
      /\ \A v \in AllWorkers : v # w => worker'[v] = worker[v]
      /\ next' \in Nat \ {0}
      BY <1>1, <1>2 DEF FanoutInv, WorkerInv
<1> QED BY <1>1, <1>3, <1>4, <1>5, <1>6, InspectorStep

\* A reader's own step: it keeps its place among the stages.
LEMMA ReaderStep ==
    ASSUME FanoutInv, SlotsInv', NEW r \in Readers,
           \A b \in Actors : b # r => (Idle(b)' <=> Idle(b)),
           reader[r].pc = "reading", DOMAIN reader' = Readers,
           \A q \in Readers : q # r => reader'[q] = reader[q],
           "pc" \in DOMAIN reader'[r], reader'[r].pc # "reading" => Idle(r)',
           stage' = stage, worker' = worker, next' = next, prober' = prober, kind' = kind
    PROVE  FanoutInv'
<1>1. MainInv'
      BY ActorsAssumption, Names DEF FanoutInv, MainInv
<1>2. OthersInv'
      BY DEF FanoutInv, OthersInv, Goroutines
<1>3. WorkerInv'
      BY ActorsAssumption, Names DEF FanoutInv, WorkerInv
<1>4. stage \notin {"start", "probe", "done"}
      BY DEF FanoutInv, ReaderInv
<1>5. ReaderInv'
      BY <1>4, ActorsAssumption, Names DEF FanoutInv, ReaderInv
<1>6. ProberInv'
      BY ActorsAssumption, Names DEF FanoutInv, ProberInv, Asked
<1> QED BY <1>1, <1>2, <1>3, <1>5, <1>6 DEF FanoutInv

LEMMA ReaderAsksKeeps ==
    ASSUME FanoutInv, NEW r \in Readers, ReaderAsks(r)
    PROVE  FanoutInv'
<1>1. /\ reader[r].pc = "reading" /\ call[r].pc = "none" /\ limit' = limit
      /\ call' = [call EXCEPT ![r] = Enter(ClientOf(r))]
      /\ reader' = [reader EXCEPT ![r].asks = @ + 1]
      /\ UNCHANGED <<stage, worker, next, prober, kind>>
      BY DEF ReaderAsks, Ask, Idle, dockerVars, probeVars
<1>2. r \in Actors /\ ClientOf(r) \in Clients
      BY ActorsAssumption, TheirClients
<1>3. SlotsInv'
      BY <1>1, <1>2, AskKeepsSlots DEF FanoutInv
<1>4. \A b \in Actors : b # r => (Idle(b)' <=> Idle(b))
      BY <1>1, <1>2, OwnCall DEF FanoutInv
<1>5. /\ DOMAIN reader' = Readers /\ "pc" \in DOMAIN reader'[r]
      /\ reader'[r].pc = "reading"
      /\ \A q \in Readers : q # r => reader'[q] = reader[q]
      BY <1>1 DEF FanoutInv, ReaderInv
<1> QED BY <1>1, <1>3, <1>4, <1>5, ReaderStep

LEMMA ReaderHearsKeeps ==
    ASSUME FanoutInv, NEW r \in Readers, ReaderHears(r)
    PROVE  FanoutInv'
<1>1. /\ reader[r].pc = "reading" /\ call[r].pc = "over" /\ limit' = limit /\ Took(r)
      /\ UNCHANGED <<stage, reader, worker, next, prober, kind>>
      BY DEF ReaderHears, Over, dockerVars, readerVars, probeVars
<1>2. r \in Actors
      BY ActorsAssumption
<1>3. SlotsInv'
      BY <1>1, <1>2, TookKeepsSlots DEF FanoutInv
<1>4. Idle(r)' /\ \A b \in Actors : b # r => (Idle(b)' <=> Idle(b))
      BY <1>1, <1>2, TookIsIdle DEF FanoutInv
<1>5. /\ DOMAIN reader' = Readers /\ "pc" \in DOMAIN reader'[r]
      BY <1>1 DEF FanoutInv, ReaderInv
<1> QED BY <1>1, <1>3, <1>4, <1>5, ReaderStep

LEMMA ReaderReturnsKeeps ==
    ASSUME FanoutInv, NEW r \in Readers, ReaderReturns(r)
    PROVE  FanoutInv'
<1>1. /\ reader[r].pc = "reading" /\ Idle(r) /\ limit' = limit /\ call' = call
      /\ reader' = [reader EXCEPT ![r].pc = "over"]
      /\ UNCHANGED <<stage, worker, next, prober, kind>>
      BY DEF ReaderReturns, transportVars, dockerVars, probeVars
<1>2. SlotsInv' /\ \A b \in Actors : Idle(b)' <=> Idle(b)
      BY <1>1, UntouchedSlots DEF FanoutInv, Idle
<1>3. /\ DOMAIN reader' = Readers /\ "pc" \in DOMAIN reader'[r]
      /\ \A q \in Readers : q # r => reader'[q] = reader[q]
      BY <1>1 DEF FanoutInv, ReaderInv
<1>4. r \in Actors
      BY ActorsAssumption
<1> QED BY <1>1, <1>2, <1>3, <1>4, ReaderStep

\* An asker's own step, while the probe runs.
LEMMA AskerStep ==
    ASSUME FanoutInv, SlotsInv', NEW s \in Subjects,
           \A b \in Actors : b # Asker(s) => (Idle(b)' <=> Idle(b)),
           prober[s].pc \in {"addresses", "state"}, DOMAIN prober' = Subjects,
           \A t \in Subjects : t # s => prober'[t] = prober[t],
           "pc" \in DOMAIN prober'[s],
           prober'[s].pc \in {"addresses", "state", "over"},
           prober'[s].pc = "over" => Idle(Asker(s))',
           stage' = stage, worker' = worker, next' = next, reader' = reader, kind' = kind
    PROVE  FanoutInv'
<1>1. MainInv'
      BY ActorsAssumption, Names DEF FanoutInv, MainInv
<1>2. OthersInv'
      BY DEF FanoutInv, OthersInv, Goroutines
<1>3. WorkerInv'
      BY ActorsAssumption, Names DEF FanoutInv, WorkerInv
<1>4. ReaderInv'
      BY ActorsAssumption, Names DEF FanoutInv, ReaderInv
<1>5. stage = "probe" /\ s \in Asked /\ Asked' = Asked
      BY DEF FanoutInv, ProberInv, Asked
<1>6. ProberInv'
      BY <1>5, ActorsAssumption, Names DEF FanoutInv, ProberInv
<1> QED BY <1>1, <1>2, <1>3, <1>4, <1>6 DEF FanoutInv

\* An asker begins a request and stays where it is.
LEMMA AskerAsks ==
    ASSUME FanoutInv, NEW s \in Subjects, prober[s].pc \in {"addresses", "state"},
           Idle(Asker(s)), Ask(Asker(s), "probe"), limit' = limit,
           UNCHANGED <<stage, dockerVars, readerVars, prober, kind>>
    PROVE  FanoutInv'
<1>1. call' = [call EXCEPT ![Asker(s)] = Enter("probe")] /\ call[Asker(s)].pc = "none"
      BY DEF Ask, Idle
<1>2. Asker(s) \in Actors /\ "probe" \in Clients
      BY ActorsAssumption, TheirClients
<1>3. SlotsInv'
      BY <1>1, <1>2, AskKeepsSlots DEF FanoutInv
<1>4. \A b \in Actors : b # Asker(s) => (Idle(b)' <=> Idle(b))
      BY <1>1, <1>2, OwnCall DEF FanoutInv
<1>5. DOMAIN prober' = Subjects /\ "pc" \in DOMAIN prober'[s]
      BY DEF FanoutInv, ProberInv
<1> QED BY <1>3, <1>4, <1>5, AskerStep DEF dockerVars, readerVars

\* An asker takes what its request gave and goes on or is over.
LEMMA AskerHears ==
    ASSUME FanoutInv, NEW s \in Subjects, prober[s].pc \in {"addresses", "state"},
           Over(Asker(s)), Took(Asker(s)), limit' = limit,
           NEW new, "pc" \in DOMAIN new, new.pc \in {"addresses", "state", "over"},
           prober' = [prober EXCEPT ![s] = new],
           UNCHANGED <<stage, dockerVars, readerVars, kind>>
    PROVE  FanoutInv'
<1>1. Asker(s) \in Actors /\ call[Asker(s)].pc # "inflight"
      BY ActorsAssumption DEF Over
<1>2. SlotsInv'
      BY <1>1, TookKeepsSlots DEF FanoutInv
<1>3. Idle(Asker(s))' /\ \A b \in Actors : b # Asker(s) => (Idle(b)' <=> Idle(b))
      BY <1>1, TookIsIdle DEF FanoutInv
<1>4. /\ DOMAIN prober' = Subjects /\ prober'[s] = new
      /\ \A t \in Subjects : t # s => prober'[t] = prober[t]
      BY DEF FanoutInv, ProberInv
<1> QED BY <1>2, <1>3, <1>4, AskerStep DEF dockerVars, readerVars

LEMMA AddressAsksKeeps ==
    ASSUME FanoutInv, NEW s \in Subjects, AddressAsks(s)
    PROVE  FanoutInv'
BY AskerAsks DEF AddressAsks, probeVars

LEMMA AddressAnswersKeeps ==
    ASSUME FanoutInv, NEW s \in Subjects, AddressAnswers(s)
    PROVE  FanoutInv'
<1>1. /\ prober[s].pc = "addresses" /\ Over(Asker(s)) /\ Took(Asker(s)) /\ limit' = limit
      /\ UNCHANGED <<stage, dockerVars, readerVars, kind>>
      BY DEF AddressAnswers
<1>2. PICK p : p = prober[s]
      OBVIOUS
<1>3. "pc" \in DOMAIN p
      BY <1>2 DEF FanoutInv, ProberInv
<1>4. \E new : /\ prober' = [prober EXCEPT ![s] = new]
               /\ "pc" \in DOMAIN new /\ new.pc \in {"addresses", "state", "over"}
  <2>1. CASE Heard(call[Asker(s)].outcome)
    <3>1. PICK page \in {"gate", "open", "shell"} :
             prober' = [prober EXCEPT ![s] =
                 [p EXCEPT !.phase = "connected", !.at = 1, !.gate = (page = "gate"),
                           !.heard = Append(@, page),
                           !.pc = IF page = "shell" THEN "state" ELSE "over"]]
          BY <2>1, <1>2 DEF AddressAnswers
    <3>2. PICK new : new = [p EXCEPT !.phase = "connected", !.at = 1, !.gate = (page = "gate"),
                           !.heard = Append(@, page),
                           !.pc = IF page = "shell" THEN "state" ELSE "over"]
          OBVIOUS
    <3>3. "pc" \in DOMAIN new /\ new.pc \in {"state", "over"}
          BY <3>2, <1>3
    <3> QED BY <3>1, <3>2, <3>3
  <2>2. CASE ~Heard(call[Asker(s)].outcome)
    <3>1. PICK o : o = call[Asker(s)].outcome
          OBVIOUS
    <3>2. PICK new : new =
             [p EXCEPT !.phase = o.phase, !.at = @ + 1,
                       !.heard = Append(@, IF o.by \in {"answer", "body"} THEN "open"
                                                                     ELSE "none"),
                       !.pc = IF p.at < Addresses THEN "addresses" ELSE "over"]
          OBVIOUS
    <3>3. prober' = [prober EXCEPT ![s] = new]
          BY <2>2, <1>2, <3>1, <3>2 DEF AddressAnswers
    <3>4. "pc" \in DOMAIN new /\ new.pc \in {"addresses", "over"}
          BY <3>2, <1>3
    <3> QED BY <3>3, <3>4
  <2> QED BY <2>1, <2>2
<1> QED BY <1>1, <1>4, AskerHears

LEMMA StateAsksKeeps ==
    ASSUME FanoutInv, NEW s \in Subjects, StateAsks(s)
    PROVE  FanoutInv'
<1>1. /\ prober[s].pc = "state" /\ Idle(Asker(s)) /\ limit' = limit
      /\ UNCHANGED <<stage, dockerVars, readerVars, kind>>
      BY DEF StateAsks
<1>2. CASE Ask(Asker(s), "probe") /\ UNCHANGED prober
      BY <1>1, <1>2, AskerAsks
<1>3. CASE prober' = [prober EXCEPT ![s].pc = "over"] /\ call' = call
  <2>1. SlotsInv' /\ \A b \in Actors : Idle(b)' <=> Idle(b)
        BY <1>1, <1>3, UntouchedSlots DEF FanoutInv, Idle
  <2>2. /\ DOMAIN prober' = Subjects /\ "pc" \in DOMAIN prober'[s] /\ prober'[s].pc = "over"
        /\ \A t \in Subjects : t # s => prober'[t] = prober[t]
        BY <1>3 DEF FanoutInv, ProberInv
  <2>3. Idle(Asker(s))'
        BY <1>1, <2>1, ActorsAssumption
  <2> QED BY <1>1, <2>1, <2>2, <2>3, AskerStep DEF dockerVars, readerVars
<1> QED BY <1>2, <1>3 DEF StateAsks

LEMMA StateAnswersKeeps ==
    ASSUME FanoutInv, NEW s \in Subjects, StateAnswers(s)
    PROVE  FanoutInv'
<1>1. /\ prober[s].pc = "state" /\ Over(Asker(s)) /\ Took(Asker(s)) /\ limit' = limit
      /\ UNCHANGED <<stage, dockerVars, readerVars, kind>>
      BY DEF StateAnswers
<1>2. PICK p : p = prober[s]
      OBVIOUS
<1>3. "pc" \in DOMAIN p /\ s \in DOMAIN prober
      BY <1>2 DEF FanoutInv, ProberInv
<1>4. PICK said :
         prober' = [prober EXCEPT ![s] =
             [p EXCEPT !.at = @ + 1, !.stated = Append(@, said),
                       !.gate = (said = "challenge"),
                       !.pc = IF said \in {"bare", "challenge"} THEN "over" ELSE "state"]]
      BY <1>2 DEF StateAnswers
<1>5. PICK new : new =
         [p EXCEPT !.at = @ + 1, !.stated = Append(@, said), !.gate = (said = "challenge"),
                   !.pc = IF said \in {"bare", "challenge"} THEN "over" ELSE "state"]
      OBVIOUS
<1>6. prober' = [prober EXCEPT ![s] = new]
      BY <1>2, <1>4, <1>5
<1>7. "pc" \in DOMAIN new /\ new.pc \in {"state", "over"}
      BY <1>3, <1>5
<1> QED BY <1>1, <1>6, <1>7, AskerHears

-----------------------------------------------------------------------------
(* The theorems. *)

LEMMA FanoutSteps == FanoutInv /\ [Next]_vars => FanoutInv'
<1> SUFFICES ASSUME FanoutInv, [Next]_vars PROVE FanoutInv'
    OBVIOUS
<1>1. CASE RunSteps
      BY <1>1, BeginKeeps, PingKeeps, ListKeeps, IndexKeeps, ResolveKeeps, JoinKeeps, TallyKeeps
      DEF RunSteps
<1>2. CASE InspectSteps
      BY <1>2, HandOutKeeps, InspectOverKeeps DEF InspectSteps
<1>3. CASE ReaderSteps
      BY <1>3, ReaderAsksKeeps, ReaderHearsKeeps, ReaderReturnsKeeps DEF ReaderSteps
<1>4. CASE ProbeSteps
      BY <1>4, AddressAsksKeeps, AddressAnswersKeeps, StateAsksKeeps, StateAnswersKeeps
      DEF ProbeSteps
<1>5. CASE RequestSteps /\ UNCHANGED <<stage, dockerVars, readerVars, probeVars>>
      BY <1>5, RequestKeeps
<1>6. CASE Cancel /\ UNCHANGED <<stage, dockerVars, readerVars, probeVars>>
      BY <1>6, CancelKeeps
<1>7. CASE Finished
      BY <1>7, StutterKeeps DEF Finished
<1>8. CASE UNCHANGED vars
      BY <1>8, StutterKeeps
<1> QED BY <1>1, <1>2, <1>3, <1>4, <1>5, <1>6, <1>7, <1>8 DEF Next

\* Whatever the goroutines of a scan interleave, slots and stages agree with their requests.
THEOREM FanoutInvariant == Spec => []FanoutInv
<1>1. Init => FanoutInv
      BY InitFanout
<1>2. FanoutInv /\ [Next]_vars => FanoutInv'
      BY FanoutSteps
<1> QED BY <1>1, <1>2, PTL DEF Spec

\* transport.go: every slot taken is given back on every path, so the slots taken are the
\* requests out, and no more of them than MaxConcurrency.
THEOREM SlotsNeverLeak == Spec => []SlotsAreRequestsInFlight
<1>1. FanoutInv => SlotsAreRequestsInFlight
  <2> SUFFICES ASSUME FanoutInv, NEW c \in Clients
               PROVE  LET out == Cardinality(InFlight(c))
                      IN  limit[c] = out /\ (Bounded(c) => out <= Slots(c))
      BY DEF SlotsAreRequestsInFlight, InFlight
  <2> QED BY DEF FanoutInv, SlotsInv
<1> QED BY <1>1, FanoutInvariant, PTL

\* pipeline.go: the stages after the join read what nobody writes any more, and a scan that is
\* done leaves no request behind.
THEOREM StagesAreSettled == Spec => []StagesReadSettledResults
<1>1. FanoutInv => StagesReadSettledResults
  <2> SUFFICES ASSUME FanoutInv PROVE StagesReadSettledResults
      OBVIOUS
  <2>1. ASSUME stage \in {"probe", "done"}, NEW r \in Readers
        PROVE  reader[r].pc = "over" /\ Idle(r)
        BY <2>1 DEF FanoutInv, ReaderInv
  <2>2. ASSUME stage # "inspect", NEW w \in AllWorkers
        PROVE  Idle(Inspector(w))
        BY <2>2 DEF FanoutInv, WorkerInv
  <2>3. ASSUME stage = "done", NEW a \in Actors
        PROVE  Idle(a)
    <3>1. CASE a \notin Goroutines
          BY <3>1 DEF FanoutInv, OthersInv
    <3>2. CASE a = Main
          BY <2>3, <3>2 DEF FanoutInv, MainInv
    <3>3. ASSUME NEW w \in AllWorkers, a = Inspector(w) PROVE Idle(a)
          BY <2>3, <2>2, <3>3
    <3>4. CASE a \in Readers
          BY <2>3, <2>1, <3>4
    <3>5. ASSUME NEW s \in Subjects, a = Asker(s) PROVE Idle(a)
          BY <2>3, <3>5 DEF FanoutInv, ProberInv
    <3> QED BY <3>1, <3>2, <3>3, <3>4, <3>5 DEF Goroutines
  <2> QED BY <2>1, <2>2, <2>3 DEF StagesReadSettledResults
<1> QED BY <1>1, FanoutInvariant, PTL

-----------------------------------------------------------------------------
(* What a service is called. *)

LEMMA SomeRowHolds ==
    ASSUME NEW rows, DOMAIN rows = 1..9, rows[9][1]
    PROVE  \E i \in DOMAIN rows : rows[i][1] /\ \A j \in 1..(i - 1) : ~rows[j][1]
OBVIOUS

\* FromError: an error is never a read that worked.
LEMMA ErrorsAreNotOK ==
    ASSUME NEW e, NEW t \in Int, NEW b \in Int
    PROVE  ~OK(FromError(e, t, b))
<1>1. PICK rows : rows = <<
            <<"deadline" \in e,                          "timeout">>,
            <<"dns" \in e,                               "resolve">>,
            <<"missing" \in e,                           "not-found">>,
            <<"forbidden" \in e,                         "authorize">>,
            <<"refused" \in e,                           "connect">>,
            <<"tls" \in e,                               "tls">>,
            <<"dial" \in e /\ "teardown" \notin e,       "connect">>,
            <<b > 0 /\ t >= b,                           "timeout">>,
            <<TRUE,                                      "connect">> >>
      OBVIOUS
<1>2. DOMAIN rows = 1..9 /\ rows[9][1]
      BY <1>1
<1>3. PICK i \in 1..9 :
         i = CHOOSE k \in DOMAIN rows : rows[k][1] /\ \A j \in 1..(k - 1) : ~rows[j][1]
      BY <1>2, SomeRowHolds
<1>4. FromError(e, t, b) = rows[i][2]
      BY <1>1, <1>3 DEF FromError, FirstHolding
<1>5. \A k \in 1..9 : rows[k][2] \in {"timeout", "resolve", "not-found", "authorize",
                                       "connect", "tls"}
      BY <1>1
<1> QED BY <1>4, <1>5 DEF OK

\* VerdictOf, row by row.
LEMMA Verdicts ==
    ASSUME NEW p
    PROVE  VerdictOf(p) = IF ~OK(p.phase) THEN "no-answer" ELSE IF p.gate THEN "gated" ELSE "open"
<1>1. PICK rows : rows = << <<~OK(p.phase), "no-answer">>, <<p.gate, "gated">>, <<TRUE, "open">> >>
      OBVIOUS
<1>2. DOMAIN rows = 1..3
      BY <1>1
<1>3. VerdictOf(p) = rows[CHOOSE k \in DOMAIN rows :
                            rows[k][1] /\ \A j \in 1..(k - 1) : ~rows[j][1]][2]
      BY <1>1 DEF VerdictOf, FirstHolding
<1>4. ASSUME NEW n \in 1..3, rows[n][1], \A j \in 1..(n - 1) : ~rows[j][1]
      PROVE  VerdictOf(p) = rows[n][2]
  <2>1. \A k \in DOMAIN rows : rows[k][1] /\ (\A j \in 1..(k - 1) : ~rows[j][1]) => k = n
        BY <1>2, <1>4
  <2> QED BY <2>1, <1>2, <1>3, <1>4
<1>5. /\ rows[1][1] <=> ~OK(p.phase)
      /\ rows[2][1] <=> p.gate
      /\ rows[3][1]
      /\ rows[1][2] = "no-answer" /\ rows[2][2] = "gated" /\ rows[3][2] = "open"
      BY <1>1
<1>6. CASE ~OK(p.phase)
  <2>1. VerdictOf(p) = rows[1][2]
        BY <1>4, <1>5, <1>6
  <2> QED BY <2>1, <1>5, <1>6
<1>7. CASE OK(p.phase) /\ p.gate
  <2>1. \A j \in 1..(2 - 1) : ~rows[j][1]
        BY <1>5, <1>7
  <2>2. VerdictOf(p) = rows[2][2]
        BY <1>4, <1>5, <1>7, <2>1
  <2> QED BY <2>2, <1>5, <1>7
<1>8. CASE OK(p.phase) /\ ~p.gate
  <2>1. \A j \in 1..(3 - 1) : ~rows[j][1]
        BY <1>5, <1>8
  <2>2. VerdictOf(p) = rows[3][2]
        BY <1>4, <1>5, <2>1
  <2> QED BY <2>2, <1>5, <1>8
<1> QED BY <1>6, <1>7, <1>8

-----------------------------------------------------------------------------
(* The outcomes. *)

\* An outcome without a status is not a read that worked.
Sound(o) == ~Heard(o) => ~OK(o.phase)

OutcomesSound == \A a \in Actors : Sound(call[a].outcome)

LEMMA LeftIsSound == Sound(Left) /\ Sound(NoOutcome) /\ Sound([Left EXCEPT !.by = "body"])
<1>1. ~OK(FromError({"canceled"}, 0, 0))
      BY ErrorsAreNotOK
<1>2. Sound(Left)
      BY <1>1 DEF Sound, Left
<1>3. Sound([Left EXCEPT !.by = "body"])
      BY DEF Sound, Left, Heard
<1> QED BY <1>2, <1>3 DEF Sound, NoOutcome, OK

LEMMA OutcomesAreSound ==
    ASSUME NEW o \in Answers \cup Failures \cup Interrupted
    PROVE  Sound(o)
<1>1. CASE o \in Answers
      BY <1>1 DEF Answers, Sound, Heard
<1>2. CASE o \in Failures
  <2>1. PICK b \in {"body", "network"}, e \in NetworkErrors :
            o = [by |-> b, phase |-> FromError(e, 0, 1)]
        BY <1>2 DEF Failures
  <2>2. ~OK(FromError(e, 0, 1))
        BY ErrorsAreNotOK
  <2> QED BY <2>1, <2>2 DEF Sound
<1>3. CASE o \in Interrupted
      BY <1>3, LeftIsSound DEF Interrupted
<1> QED BY <1>1, <1>2, <1>3

LEMMA CallKeepsOutcomes ==
    ASSUME FanoutInv, OutcomesSound, NEW a \in Actors, NEW new, Sound(new.outcome),
           call' = [call EXCEPT ![a] = new]
    PROVE  OutcomesSound'
<1>1. \A b \in Actors : call'[b] = IF b = a THEN new ELSE call[b]
      BY DEF FanoutInv, SlotsInv
<1>2. ASSUME NEW b \in Actors PROVE Sound(call'[b].outcome)
      BY <1>1 DEF OutcomesSound
<1> QED BY <1>2 DEF OutcomesSound, Sound, Heard, OK

LEMMA AskKeepsOutcomes ==
    ASSUME FanoutInv, OutcomesSound, NEW a \in Actors, NEW c, call' = [call EXCEPT ![a] = Enter(c)]
    PROVE  OutcomesSound'
<1>1. Sound(Enter(c).outcome)
      BY LeftIsSound DEF Enter, CallAt
<1> QED BY <1>1, CallKeepsOutcomes

LEMMA TookKeepsOutcomes ==
    ASSUME FanoutInv, OutcomesSound, NEW a \in Actors, Took(a)
    PROVE  OutcomesSound'
<1>1. Sound(NoCall.outcome)
      BY LeftIsSound DEF NoCall, CallAt
<1>2. call' = [call EXCEPT ![a] = NoCall]
      BY DEF Took
<1> QED BY <1>1, <1>2, CallKeepsOutcomes

LEMMA TransportKeepsOutcomes ==
    ASSUME FanoutInv, OutcomesSound, NEW a \in Actors, TransportStep(a)
    PROVE  OutcomesSound'
<1>1. \E new : call' = [call EXCEPT ![a] = new] /\ Sound(new.outcome)
  <2>1. CASE TakeSlot(a)
    <3>1. call' = [call EXCEPT ![a] = CallAt("inflight", call[a].client, NoOutcome)]
          BY <2>1 DEF TakeSlot
    <3>2. CallAt("inflight", call[a].client, NoOutcome).outcome = NoOutcome
          BY DEF CallAt
    <3> QED BY <3>1, <3>2, LeftIsSound
  <2>2. CASE LeaveQueue(a)
    <3>1. call' = [call EXCEPT ![a] = CallAt("over", call[a].client, Left)]
          BY <2>2 DEF LeaveQueue
    <3>2. CallAt("over", call[a].client, Left).outcome = Left
          BY DEF CallAt
    <3> QED BY <3>1, <3>2, LeftIsSound
  <2>3. CASE Return(a)
    <3>1. PICK o \in Answers \cup Failures \cup Interrupted :
              call' = [call EXCEPT ![a] = CallAt("over", call[a].client, o)]
          BY <2>3 DEF Return
    <3>2. CallAt("over", call[a].client, o).outcome = o /\ Sound(o)
          BY OutcomesAreSound DEF CallAt
    <3> QED BY <3>1, <3>2
  <2> QED BY <2>1, <2>2, <2>3 DEF TransportStep
<1> QED BY <1>1, CallKeepsOutcomes

LEMMA OutcomeSteps ==
    ASSUME FanoutInv, OutcomesSound, [Next]_vars
    PROVE  OutcomesSound'
<1>1. CASE call' = call
      BY <1>1 DEF OutcomesSound, Sound, Heard, OK
<1>2. CASE RunSteps
  <2>1. \/ call' = call
        \/ Ask(Main, "docker") \/ Took(Main) \/ TookAndAsk(Main, "docker")
        BY <1>2 DEF RunSteps, Begin, Ping, List, Refused, Index, Resolve, Join, Tally,
                    transportVars
  <2> QED BY <2>1, <1>1, ActorsAssumption, AskKeepsOutcomes, TookKeepsOutcomes
          DEF Ask, TookAndAsk
<1>3. CASE InspectSteps
  <2>1. PICK w \in AllWorkers : HandOut(w) \/ InspectOver(w)
        BY <1>3 DEF InspectSteps
  <2>2. Ask(Inspector(w), "docker") \/ Took(Inspector(w))
        BY <2>1 DEF HandOut, InspectOver
  <2> QED BY <2>2, ActorsAssumption, AskKeepsOutcomes, TookKeepsOutcomes DEF Ask
<1>4. CASE ReaderSteps
  <2>1. PICK r \in Readers : ReaderAsks(r) \/ ReaderHears(r) \/ ReaderReturns(r)
        BY <1>4 DEF ReaderSteps
  <2>2. Ask(r, ClientOf(r)) \/ Took(r) \/ call' = call
        BY <2>1 DEF ReaderAsks, ReaderHears, ReaderReturns, transportVars
  <2> QED BY <2>2, <1>1, ActorsAssumption, AskKeepsOutcomes, TookKeepsOutcomes DEF Ask
<1>5. CASE ProbeSteps
  <2>1. PICK s \in Subjects :
            AddressAsks(s) \/ AddressAnswers(s) \/ StateAsks(s) \/ StateAnswers(s)
        BY <1>5 DEF ProbeSteps
  <2>2. Ask(Asker(s), "probe") \/ Took(Asker(s)) \/ call' = call
        BY <2>1 DEF AddressAsks, AddressAnswers, StateAsks, StateAnswers
  <2> QED BY <2>2, <1>1, ActorsAssumption, AskKeepsOutcomes, TookKeepsOutcomes DEF Ask
<1>6. CASE RequestSteps
      BY <1>6, TransportKeepsOutcomes DEF RequestSteps
<1>7. CASE Cancel \/ Finished \/ UNCHANGED vars
      BY <1>1, <1>7 DEF Cancel, Finished, vars, transportVars
<1> QED BY <1>2, <1>3, <1>4, <1>5, <1>6, <1>7 DEF Next

-----------------------------------------------------------------------------
(* What a service has said. *)

Fields == {"pc", "at", "phase", "gate", "heard", "stated"}
Pages == {"gate", "open", "shell"}
Words == {"none", "served", "bare", "challenge"}
Latest(q) == q[Len(q)]
Challenged(p) == p.stated # <<>> /\ Latest(p.stated) = "challenge"

\* Nobody answered yet, at any of the addresses tried.
Silent(p) ==
    /\ \A i \in DOMAIN p.heard : p.heard[i] = "none"
    /\ ~OK(p.phase) /\ ~p.gate /\ p.stated = <<>>

\* The last address tried answered, and none before it.
Answered(p) ==
    /\ p.heard # <<>> /\ Latest(p.heard) \in Pages
    /\ \A i \in DOMAIN p.heard : i # Len(p.heard) => p.heard[i] = "none"
    /\ OK(p.phase)
    /\ p.gate <=> Latest(p.heard) = "gate" \/ Challenged(p)

Typed(p) ==
    /\ DOMAIN p = Fields /\ p.at \in Nat /\ p.gate \in BOOLEAN
    /\ p.heard \in Seq(Pages \cup {"none"}) /\ p.stated \in Seq(Words)

ProberSound(p) ==
    /\ Typed(p) /\ p.pc \in {"off", "addresses", "state", "over"}
    /\ p.pc = "off" => Silent(p) /\ p.heard = <<>> /\ p.at = 1
    /\ p.pc = "addresses" => Silent(p) /\ p.at = Len(p.heard) + 1 /\ p.at <= Addresses
    /\ p.pc = "state" => Answered(p) /\ Latest(p.heard) = "shell" /\ ~p.gate
    /\ p.pc = "over" => Answered(p) \/ (Silent(p) /\ Len(p.heard) = Addresses)

ProbersSound == \A s \in Subjects : ProberSound(prober[s])

\* An address that did not answer: the next one, or the service is silent.
LEMMA SilenceKept ==
    ASSUME NEW p, ProberSound(p), p.pc = "addresses", NEW ph, ~OK(ph), NEW new,
           new = [p EXCEPT !.phase = ph, !.at = @ + 1, !.heard = Append(@, "none"),
                           !.pc = IF p.at < Addresses THEN "addresses" ELSE "over"]
    PROVE  ProberSound(new)
<1>1. /\ DOMAIN p = Fields /\ p.at \in Nat /\ p.at = Len(p.heard) + 1 /\ p.at <= Addresses
      /\ p.heard \in Seq(Pages \cup {"none"}) /\ p.stated = <<>> /\ ~p.gate
      /\ \A i \in DOMAIN p.heard : p.heard[i] = "none"
      /\ p.gate \in BOOLEAN /\ p.stated \in Seq(Words)
      BY DEF ProberSound, Silent, Typed
<1>2. /\ DOMAIN new = Fields /\ new.at = p.at + 1 /\ new.gate = p.gate /\ new.phase = ph
      /\ new.heard = Append(p.heard, "none") /\ new.stated = p.stated
      /\ new.pc = IF p.at < Addresses THEN "addresses" ELSE "over"
      BY <1>1 DEF Fields
<1>3. /\ new.heard \in Seq(Pages \cup {"none"}) /\ Len(new.heard) = p.at
      /\ \A i \in DOMAIN new.heard : new.heard[i] = "none"
      BY <1>1, <1>2
<1>4. Addresses \in Nat
      BY FanoutAssumption
<1>5. Silent(new)
      BY <1>1, <1>2, <1>3 DEF Silent
<1>6. new.pc = "addresses" => new.at = Len(new.heard) + 1 /\ new.at <= Addresses
      BY <1>1, <1>2, <1>3, <1>4
<1>7. new.pc = "over" => Len(new.heard) = Addresses
      BY <1>1, <1>2, <1>3, <1>4
<1>8. new.pc \in {"addresses", "over"}
      BY <1>2
<1>9. Typed(new)
  <2>1. new.gate \in BOOLEAN
        BY <1>1, <1>2
  <2>2. new.at \in Nat
        BY <1>1, <1>2
  <2>3. new.stated \in Seq(Words)
        BY <1>1, <1>2
  <2> QED BY <1>2, <1>3, <2>1, <2>2, <2>3, Zenon DEF Typed
<1> QED BY <1>5, <1>6, <1>7, <1>8, <1>9 DEF ProberSound

\* An address that answered: the service is judged, or its client is followed.
LEMMA AnswerJudged ==
    ASSUME NEW p, ProberSound(p), p.pc = "addresses", NEW page \in Pages, NEW new,
           new = [p EXCEPT !.phase = "connected", !.at = 1, !.gate = (page = "gate"),
                           !.heard = Append(@, page),
                           !.pc = IF page = "shell" THEN "state" ELSE "over"]
    PROVE  ProberSound(new)
<1>1. /\ DOMAIN p = Fields /\ p.heard \in Seq(Pages \cup {"none"}) /\ p.stated = <<>>
      /\ \A i \in DOMAIN p.heard : p.heard[i] = "none"
      /\ p.stated \in Seq(Words)
      BY DEF ProberSound, Silent, Typed
<1>2. /\ DOMAIN new = Fields /\ new.at = 1 /\ new.phase = "connected"
      /\ new.gate \in BOOLEAN /\ (new.gate <=> page = "gate")
      /\ new.heard = Append(p.heard, page) /\ new.stated = p.stated
      /\ new.pc = IF page = "shell" THEN "state" ELSE "over"
      BY <1>1 DEF Fields
<1>3. /\ new.heard \in Seq(Pages \cup {"none"}) /\ new.heard # <<>> /\ Latest(new.heard) = page
      /\ \A i \in DOMAIN new.heard : i # Len(new.heard) => new.heard[i] = "none"
      BY <1>1, <1>2 DEF Latest
<1>4. ~Challenged(new) /\ OK(new.phase)
      BY <1>1, <1>2 DEF Challenged, OK
<1>5. Answered(new)
      BY <1>2, <1>3, <1>4 DEF Answered
<1>6. new.pc = "state" => Latest(new.heard) = "shell" /\ ~new.gate
      BY <1>2, <1>3
<1>7. new.pc \in {"state", "over"}
      BY <1>2
<1>8. Typed(new)
  <2>1. new.at \in Nat
        BY <1>2
  <2>2. new.stated \in Seq(Words)
        BY <1>1, <1>2
  <2> QED BY <1>2, <1>3, <2>1, <2>2, Zenon DEF Typed
<1> QED BY <1>5, <1>6, <1>7, <1>8 DEF ProberSound

\* A current-user address: a challenge makes the gate, and nothing is asked after it.
LEMMA StatementJudged ==
    ASSUME NEW p, ProberSound(p), p.pc = "state", NEW said \in Words, NEW new,
           new = [p EXCEPT !.at = @ + 1, !.stated = Append(@, said),
                           !.gate = (said = "challenge"),
                           !.pc = IF said \in {"bare", "challenge"} THEN "over" ELSE "state"]
    PROVE  ProberSound(new)
<1>1. /\ DOMAIN p = Fields /\ p.at \in Nat /\ p.heard \in Seq(Pages \cup {"none"})
      /\ p.stated \in Seq(Words) /\ Answered(p) /\ Latest(p.heard) = "shell"
      BY DEF ProberSound, Typed
<1>2. /\ DOMAIN new = Fields /\ new.at = p.at + 1 /\ new.phase = p.phase
      /\ new.gate \in BOOLEAN /\ (new.gate <=> said = "challenge")
      /\ new.heard = p.heard /\ new.stated = Append(p.stated, said)
      /\ new.pc = IF said \in {"bare", "challenge"} THEN "over" ELSE "state"
      BY <1>1 DEF Fields
<1>3. new.stated \in Seq(Words) /\ new.stated # <<>> /\ Latest(new.stated) = said
      BY <1>1, <1>2 DEF Latest
<1>4. Challenged(new) <=> said = "challenge"
      BY <1>3 DEF Challenged
<1>5. Answered(new)
      BY <1>1, <1>2, <1>4 DEF Answered
<1>6. new.pc = "state" => Latest(new.heard) = "shell" /\ ~new.gate
      BY <1>1, <1>2
<1>7. new.pc \in {"state", "over"}
      BY <1>2
<1>8. Typed(new)
      BY <1>1, <1>2, <1>3 DEF Typed
<1> QED BY <1>5, <1>6, <1>7, <1>8 DEF ProberSound

\* No more current-user addresses: the shell was all there was.
LEMMA ShellStands ==
    ASSUME NEW p, ProberSound(p), p.pc = "state", NEW new, new = [p EXCEPT !.pc = "over"]
    PROVE  ProberSound(new)
<1>1. DOMAIN p = Fields /\ Typed(p) /\ Answered(p)
      BY DEF ProberSound, Typed
<1>2. /\ DOMAIN new = Fields /\ new.at = p.at /\ new.phase = p.phase /\ new.gate = p.gate
      /\ new.heard = p.heard /\ new.stated = p.stated /\ new.pc = "over"
      BY <1>1 DEF Fields
<1>3. Answered(new)
      BY <1>1, <1>2 DEF Answered, Challenged
<1>4. Typed(new)
      BY <1>1, <1>2 DEF Typed
<1> QED BY <1>2, <1>3, <1>4 DEF ProberSound

-----------------------------------------------------------------------------
(* The verdicts. *)

\* Nobody is asked before the join.
ProbersWait == stage \notin {"probe", "done"} => \A s \in Subjects : prober[s].pc = "off"

VerdictInv == OutcomesSound /\ ProbersSound /\ ProbersWait

LEMMA InitVerdict == Init => VerdictInv
<1> SUFFICES ASSUME Init PROVE VerdictInv
    OBVIOUS
<1>1. OutcomesSound
  <2>1. \A a \in Actors : call[a] = NoCall
        BY DEF Init, TransportInit
  <2>2. Sound(NoCall.outcome)
        BY LeftIsSound DEF NoCall, CallAt
  <2> QED BY <2>1, <2>2 DEF OutcomesSound
<1>2. \A s \in Subjects : prober[s] = NotAsked
      BY DEF Init
<1>3. NotAsked.pc = "off" /\ NotAsked.heard = <<>> /\ NotAsked.at = 1
      BY DEF NotAsked
<1>4. Silent(NotAsked)
      BY DEF NotAsked, Silent, OK
<1>5. Typed(NotAsked)
      BY DEF NotAsked, Typed, Fields
<1>6. ProberSound(NotAsked)
      BY <1>3, <1>4, <1>5 DEF ProberSound
<1>7. ProbersSound
      BY <1>2, <1>6 DEF ProbersSound
<1>8. ProbersWait
      BY <1>2, <1>3 DEF ProbersWait
<1> QED BY <1>1, <1>7, <1>8 DEF VerdictInv

\* One service's goroutine moves, while the probe runs.
LEMMA ProberMoves ==
    ASSUME FanoutInv, VerdictInv, NEW s \in Subjects, NEW new, ProberSound(new),
           prober' = [prober EXCEPT ![s] = new], stage = "probe", stage' = stage
    PROVE  ProbersSound' /\ ProbersWait'
<1>1. \A t \in Subjects : prober'[t] = IF t = s THEN new ELSE prober[t]
      BY DEF FanoutInv, ProberInv
<1>2. \A t \in Subjects : ProberSound(prober'[t])
      BY <1>1 DEF VerdictInv, ProbersSound
<1>3. ProbersSound'
      BY <1>2 DEF ProbersSound
<1> QED BY <1>3 DEF ProbersWait

LEMMA ProbersStay ==
    ASSUME VerdictInv, prober' = prober,
           stage' \notin {"probe", "done"} => stage \notin {"probe", "done"}
    PROVE  ProbersSound' /\ ProbersWait'
BY DEF VerdictInv, ProbersSound, ProbersWait

LEMMA AddressVerdict ==
    ASSUME FanoutInv, VerdictInv, NEW s \in Subjects, AddressAnswers(s)
    PROVE  ProbersSound' /\ ProbersWait'
<1>1. PICK p : p = prober[s]
      OBVIOUS
<1>2. PICK o : o = call[Asker(s)].outcome
      OBVIOUS
<1>3. /\ p.pc = "addresses" /\ ProberSound(p) /\ stage = "probe" /\ stage' = stage
      /\ Sound(o)
      BY <1>1, <1>2, ActorsAssumption
      DEF AddressAnswers, VerdictInv, ProbersSound, OutcomesSound, FanoutInv, ProberInv
<1>4. \E new : ProberSound(new) /\ prober' = [prober EXCEPT ![s] = new]
  <2>1. CASE Heard(o)
    <3>1. PICK page \in Pages :
             prober' = [prober EXCEPT ![s] =
                 [p EXCEPT !.phase = "connected", !.at = 1, !.gate = (page = "gate"),
                           !.heard = Append(@, page),
                           !.pc = IF page = "shell" THEN "state" ELSE "over"]]
          BY <2>1, <1>1, <1>2 DEF AddressAnswers, Pages
    <3>2. PICK new : new =
                 [p EXCEPT !.phase = "connected", !.at = 1, !.gate = (page = "gate"),
                           !.heard = Append(@, page),
                           !.pc = IF page = "shell" THEN "state" ELSE "over"]
          OBVIOUS
    <3>3. ProberSound(new)
          BY <3>2, <1>3, AnswerJudged
    <3> QED BY <3>1, <3>2, <3>3
  <2>2. CASE ~Heard(o)
    <3>1. PICK new : new =
             [p EXCEPT !.phase = o.phase, !.at = @ + 1, !.heard = Append(@, "none"),
                       !.pc = IF p.at < Addresses THEN "addresses" ELSE "over"]
          OBVIOUS
    <3>2. (IF o.by \in {"answer", "body"} THEN "open" ELSE "none") = "none"
          BY <2>2 DEF Heard
    <3>3. prober' = [prober EXCEPT ![s] = new]
          BY <2>2, <1>1, <1>2, <3>1, <3>2 DEF AddressAnswers
    <3>4. ~OK(o.phase)
          BY <2>2, <1>3 DEF Sound
    <3>5. ProberSound(new)
          BY <3>1, <3>4, <1>3, SilenceKept
    <3> QED BY <3>3, <3>5
  <2> QED BY <2>1, <2>2
<1> QED BY <1>3, <1>4, ProberMoves

LEMMA StateVerdict ==
    ASSUME FanoutInv, VerdictInv, NEW s \in Subjects, StateAsks(s) \/ StateAnswers(s)
    PROVE  ProbersSound' /\ ProbersWait'
<1>1. PICK p : p = prober[s]
      OBVIOUS
<1>2. p.pc = "state" /\ ProberSound(p) /\ stage = "probe" /\ stage' = stage
      BY <1>1 DEF StateAsks, StateAnswers, VerdictInv, ProbersSound, FanoutInv, ProberInv
<1>3. CASE StateAsks(s)
  <2>1. CASE prober' = prober
        BY <2>1, <1>2, ProbersStay
  <2>2. CASE prober' = [prober EXCEPT ![s].pc = "over"]
    <3>1. PICK new : new = [p EXCEPT !.pc = "over"]
          OBVIOUS
    <3>2. prober' = [prober EXCEPT ![s] = new]
          BY <2>2, <3>1, <1>1
    <3>3. ProberSound(new)
          BY <3>1, <1>2, ShellStands
    <3> QED BY <3>2, <3>3, <1>2, ProberMoves
  <2> QED BY <1>3, <2>1, <2>2 DEF StateAsks
<1>4. CASE StateAnswers(s)
  <2>1. PICK said \in Words :
           prober' = [prober EXCEPT ![s] =
               [p EXCEPT !.at = @ + 1, !.stated = Append(@, said),
                         !.gate = (said = "challenge"),
                         !.pc = IF said \in {"bare", "challenge"} THEN "over" ELSE "state"]]
        BY <1>4, <1>1 DEF StateAnswers, Words
  <2>2. PICK new : new =
               [p EXCEPT !.at = @ + 1, !.stated = Append(@, said),
                         !.gate = (said = "challenge"),
                         !.pc = IF said \in {"bare", "challenge"} THEN "over" ELSE "state"]
        OBVIOUS
  <2>3. ProberSound(new)
        BY <2>2, <1>2, StatementJudged
  <2> QED BY <2>1, <2>2, <2>3, <1>2, ProberMoves
<1> QED BY <1>3, <1>4

LEMMA JoinVerdict ==
    ASSUME FanoutInv, VerdictInv, Join
    PROVE  ProbersSound' /\ ProbersWait'
<1>1. \A s \in Subjects : ProberSound(prober[s]) /\ prober[s].pc = "off"
      BY DEF VerdictInv, ProbersSound, ProbersWait, Join
<1>2. CASE prober' = prober
      BY <1>2, ProbersStay DEF Join
<1>3. CASE /\ stage' = "probe"
           /\ prober' = [s \in Subjects |-> [prober[s] EXCEPT
                            !.pc = IF s \in Asked THEN "addresses" ELSE "off"]]
  <2>1. ASSUME NEW s \in Subjects PROVE ProberSound(prober'[s])
    <3>1. PICK p : p = prober[s]
          OBVIOUS
    <3>2. /\ Typed(p) /\ DOMAIN p = Fields /\ Silent(p) /\ p.heard = <<>> /\ p.at = 1
          BY <1>1, <3>1 DEF ProberSound, Typed
    <3>3. PICK new : new = [p EXCEPT !.pc = IF s \in Asked THEN "addresses" ELSE "off"]
          OBVIOUS
    <3>4. /\ DOMAIN new = Fields /\ new.at = p.at /\ new.phase = p.phase /\ new.gate = p.gate
          /\ new.heard = p.heard /\ new.stated = p.stated
          /\ new.pc = IF s \in Asked THEN "addresses" ELSE "off"
          BY <3>2, <3>3 DEF Fields
    <3>5. Typed(new)
          BY <3>2, <3>4 DEF Typed
    <3>6. Silent(new)
          BY <3>2, <3>4 DEF Silent
    <3>7. new.heard = <<>> /\ new.at = 1 /\ Len(new.heard) = 0 /\ 1 <= Addresses
          BY <3>2, <3>4, FanoutAssumption
    <3>8. new.pc \in {"addresses", "off"}
          BY <3>4
    <3>9. ProberSound(new)
          BY <3>5, <3>6, <3>7, <3>8 DEF ProberSound
    <3> QED BY <1>3, <3>1, <3>3, <3>9
  <2>2. ProbersSound'
        BY <2>1 DEF ProbersSound
  <2> QED BY <1>3, <2>2 DEF ProbersWait
<1> QED BY <1>2, <1>3 DEF Join

LEMMA VerdictSteps == FanoutInv /\ VerdictInv /\ [Next]_vars => VerdictInv'
<1> SUFFICES ASSUME FanoutInv, VerdictInv, [Next]_vars PROVE VerdictInv'
    OBVIOUS
<1>1. OutcomesSound'
      BY OutcomeSteps DEF VerdictInv
<1>2. ProbersSound' /\ ProbersWait'
  <2>1. CASE RunSteps
    <3>1. CASE Begin \/ Ping \/ List \/ Index \/ Resolve \/ Tally
      <4>1. prober' = prober /\ (stage' \notin {"probe", "done"} => stage \notin {"probe", "done"})
            BY <3>1 DEF Begin, Ping, List, Index, Resolve, Tally, probeVars
      <4> QED BY <4>1, ProbersStay
    <3> QED BY <2>1, <3>1, JoinVerdict DEF RunSteps
  <2>2. CASE InspectSteps
    <3>1. prober' = prober /\ stage' = stage
          BY <2>2 DEF InspectSteps, HandOut, InspectOver, probeVars
    <3> QED BY <3>1, ProbersStay
  <2>3. CASE ReaderSteps
    <3>1. prober' = prober /\ stage' = stage
          BY <2>3 DEF ReaderSteps, ReaderAsks, ReaderHears, ReaderReturns, probeVars
    <3> QED BY <3>1, ProbersStay
  <2>4. CASE ProbeSteps
    <3>1. PICK s \in Subjects :
              AddressAsks(s) \/ AddressAnswers(s) \/ StateAsks(s) \/ StateAnswers(s)
          BY <2>4 DEF ProbeSteps
    <3>2. CASE AddressAsks(s)
      <4>1. prober' = prober /\ stage' = stage
            BY <3>2 DEF AddressAsks, probeVars
      <4> QED BY <4>1, ProbersStay
    <3> QED BY <3>1, <3>2, AddressVerdict, StateVerdict
  <2>5. CASE UNCHANGED <<stage, dockerVars, readerVars, probeVars>> \/ UNCHANGED vars
    <3>1. prober' = prober /\ stage' = stage
          BY <2>5 DEF vars, probeVars
    <3> QED BY <3>1, ProbersStay
  <2> QED BY <2>1, <2>2, <2>3, <2>4, <2>5 DEF Next, Finished
<1> QED BY <1>1, <1>2 DEF VerdictInv

\* probe.go: a service is judged by the first of its addresses that answered at all, and is
\* silent only when every address was tried and none did.
THEOREM VerdictsAreFirstAnswers == Spec => []VerdictIsFirstAnswer
<1>1. Init => FanoutInv /\ VerdictInv
      BY InitFanout, InitVerdict
<1>2. FanoutInv /\ VerdictInv /\ [Next]_vars => FanoutInv' /\ VerdictInv'
      BY FanoutSteps, VerdictSteps
<1>3. VerdictInv => VerdictIsFirstAnswer
  <2> SUFFICES ASSUME VerdictInv, NEW s \in Subjects, prober[s].pc = "over"
               PROVE  LET p == prober[s]
                          answered == {i \in DOMAIN p.heard : p.heard[i] # "none"}
                      IN  /\ answered = {} <=> VerdictOf(p) = "no-answer"
                          /\ answered = {} => Len(p.heard) = Addresses
                          /\ answered # {} => answered = {Len(p.heard)}
                          /\ VerdictOf(p) = "gated" <=>
                               \/ answered # {} /\ p.heard[Min(answered)] = "gate"
                               \/ p.stated # <<>> /\ p.stated[Len(p.stated)] = "challenge"
      BY DEF VerdictIsFirstAnswer
  <2>1. PICK p : p = prober[s]
        OBVIOUS
  <2>2. PICK answered : answered = {i \in DOMAIN p.heard : p.heard[i] # "none"}
        OBVIOUS
  <2>3. Typed(p) /\ (Answered(p) \/ (Silent(p) /\ Len(p.heard) = Addresses))
        BY <2>1 DEF VerdictInv, ProbersSound, ProberSound
  <2>4. VerdictOf(p) = IF ~OK(p.phase) THEN "no-answer" ELSE IF p.gate THEN "gated" ELSE "open"
        BY Verdicts
  <2>5. /\ answered = {} <=> VerdictOf(p) = "no-answer"
        /\ answered = {} => Len(p.heard) = Addresses
        /\ answered # {} => answered = {Len(p.heard)}
        /\ VerdictOf(p) = "gated" <=>
             \/ answered # {} /\ p.heard[Min(answered)] = "gate"
             \/ p.stated # <<>> /\ p.stated[Len(p.stated)] = "challenge"
    <3>1. CASE Answered(p)
      <4>1. /\ Len(p.heard) \in DOMAIN p.heard /\ Len(p.heard) \in Nat
            /\ p.heard[Len(p.heard)] \in Pages
            /\ \A i \in DOMAIN p.heard : i # Len(p.heard) => p.heard[i] = "none"
            BY <2>3, <3>1 DEF Answered, Typed, Latest
      <4>2. answered = {Len(p.heard)}
            BY <2>2, <4>1 DEF Pages
      <4>3. Min(answered) = Len(p.heard)
            BY <4>1, <4>2 DEF Min
      <4>4. OK(p.phase) /\ (p.gate <=> p.heard[Len(p.heard)] = "gate" \/ Challenged(p))
            BY <3>1 DEF Answered, Latest
      <4>5. VerdictOf(p) # "no-answer" /\ (VerdictOf(p) = "gated" <=> p.gate)
            BY <2>4, <4>4
      <4> QED BY <4>2, <4>3, <4>4, <4>5 DEF Challenged, Latest
    <3>2. CASE Silent(p) /\ Len(p.heard) = Addresses
      <4>1. answered = {}
            BY <2>2, <3>2 DEF Silent
      <4>2. VerdictOf(p) = "no-answer" /\ p.stated = <<>>
            BY <2>4, <3>2 DEF Silent
      <4> QED BY <3>2, <4>1, <4>2
    <3> QED BY <2>3, <3>1, <3>2
  <2> QED BY <2>1, <2>2, <2>5
<1> QED BY <1>1, <1>2, <1>3, PTL DEF Spec

-----------------------------------------------------------------------------
(* The snapshot and the list: what is picked from a list stands where it stood. *)

LEMMA SetInduction ==
    ASSUME NEW S, 0 \in S, \A n \in Nat : n \in S => n + 1 \in S
    PROVE  Nat \subseteq S
<1> DEFINE T == Nat \ S
<1> SUFFICES ASSUME T # {} PROVE FALSE
    OBVIOUS
<1>1. PICK x \in T : \A y \in T : ~ (<<y, x>> \in OpToRel(<, Nat))
  <2>1. T \subseteq Nat
    OBVIOUS
  <2> HIDE DEF T
  <2> QED BY WFMin, NatLessThanWellFounded, <2>1
<1>2. x # 0 /\ x \in Nat /\ x - 1 \in Nat /\ x - 1 < x
  OBVIOUS
<1>3. x - 1 \notin T
  BY <1>1, <1>2 DEF OpToRel
<1> QED BY <1>2, <1>3

\* A set of numbers has a least one.
LEMMA LeastIsThere ==
    ASSUME NEW S, S \subseteq Nat, S # {}
    PROVE  Min(S) \in S /\ \A y \in S : Min(S) <= y
<1>1. PICK x \in S : \A y \in S : ~ (<<y, x>> \in OpToRel(<, Nat))
      BY WFMin, NatLessThanWellFounded
<1>2. \A y \in S : x <= y
  <2> SUFFICES ASSUME NEW y \in S, ~(x <= y) PROVE FALSE
      OBVIOUS
  <2>1. x \in Nat /\ y \in Nat /\ y < x
        OBVIOUS
  <2>2. <<y, x>> \in OpToRel(<, Nat)
        BY <2>1 DEF OpToRel
  <2> QED BY <2>2, <1>1
<1> QED BY <1>2 DEF Min

\* A list is a function from 1 to its length.
LEMMA Lists1 ==
    ASSUME NEW s, IsList(s)
    PROVE  /\ s \in Seq(ToSet(s)) /\ Len(s) \in Nat /\ DOMAIN s = 1..Len(s)
           /\ s = [i \in 1..Len(s) |-> s[i]]
           /\ \A i \in DOMAIN s : s[i] \in ToSet(s)
           /\ \A x \in ToSet(s) : \E i \in DOMAIN s : s[i] = x
BY DEF IsList, ToSet

LEMMA SeqIsList ==
    ASSUME NEW T, NEW s \in Seq(T)
    PROVE  IsList(s) /\ ToSet(s) \subseteq T /\ Len(s) \in Nat /\ DOMAIN s = 1..Len(s)
<1>1. Len(s) \in Nat /\ DOMAIN s = 1..Len(s) /\ s = [i \in 1..Len(s) |-> s[i]]
      OBVIOUS
<1>2. \A i \in 1..Len(s) : s[i] \in ToSet(s) /\ s[i] \in T
      BY <1>1 DEF ToSet
<1>3. s \in Seq(ToSet(s))
      BY <1>1, <1>2
<1> QED BY <1>1, <1>2, <1>3 DEF IsList, ToSet

\* What is put together entry by entry is a list.
LEMMA MadeIsList ==
    ASSUME NEW n \in Nat, NEW s, DOMAIN s = 1..n, s = [i \in 1..n |-> s[i]]
    PROVE  IsList(s) /\ Len(s) = n
<1>1. \A i \in 1..n : s[i] \in ToSet(s)
      BY DEF ToSet
<1> QED BY <1>1 DEF IsList

\* Lists put one after the other, list by list.
LEMMA FlattenByStep ==
    ASSUME NEW T, NEW seqs \in Seq(Seq(T))
    PROVE  \E h : /\ h \in [0..Len(seqs) -> Seq(T)]
                  /\ h[0] = <<>>
                  /\ \A i \in 1..Len(seqs) : h[i] = h[i - 1] \o seqs[i]
                  /\ FlattenSeq(seqs) = h[Len(seqs)]
<1>1. PICK n \in Nat : n = Len(seqs)
      OBVIOUS
<1>2. CASE n = 0
  <2>1. seqs = <<>>
        BY <1>1, <1>2, EmptySeq
  <2>2. FlattenSeq(seqs) = seqs
        BY <1>1, <1>2 DEF FlattenSeq
  <2>3. <<>> \in Seq(T)
        OBVIOUS
  <2>4. PICK h : h = [i \in 0..0 |-> <<>>]
        OBVIOUS
  <2>5. h \in [0..0 -> Seq(T)] /\ h[0] = <<>>
        BY <2>3, <2>4
  <2> QED BY <1>1, <1>2, <2>1, <2>2, <2>5
<1>3. CASE n # 0
  <2> DEFINE Joins(f, m) == f = [i \in 1..m |-> IF i = 1 THEN seqs[i] ELSE f[i - 1] \o seqs[i]]
             S == {m \in Nat : m <= n => \E f \in [1..m -> Seq(T)] : Joins(f, m)}
  <2>1. \A i \in 1..n : seqs[i] \in Seq(T)
        BY <1>1
  <2>2. 0 \in S
    <3>1. PICK f : f = [i \in 1..0 |-> <<>>]
          OBVIOUS
    <3>2. f \in [1..0 -> Seq(T)] /\ Joins(f, 0)
          BY <3>1
    <3> QED BY <3>2
  <2>3. ASSUME NEW m \in Nat, m \in S PROVE m + 1 \in S
    <3>1. CASE m + 1 <= n
      <4>0. m <= n
            BY <3>1
      <4>1. PICK f \in [1..m -> Seq(T)] : Joins(f, m)
            BY <2>3, <4>0
      <4>2. PICK last : last = IF m = 0 THEN seqs[m + 1] ELSE f[m] \o seqs[m + 1]
            OBVIOUS
      <4>3. last \in Seq(T)
        <5>1. seqs[m + 1] \in Seq(T)
              BY <2>1, <3>1
        <5>2. CASE m = 0
              BY <5>1, <5>2, <4>2
        <5>3. CASE m # 0
          <6>1. f[m] \in Seq(T)
                BY <5>3
          <6> QED BY <6>1, <5>1, <5>3, <4>2
        <5> QED BY <5>2, <5>3
      <4>4. PICK g : g = [i \in 1..(m + 1) |-> IF i = m + 1 THEN last ELSE f[i]]
            OBVIOUS
      <4>5. g \in [1..(m + 1) -> Seq(T)]
            BY <4>3, <4>4
      <4>6. ASSUME NEW i \in 1..(m + 1)
            PROVE  g[i] = IF i = 1 THEN seqs[i] ELSE g[i - 1] \o seqs[i]
        <5>1. CASE i = m + 1
          <6>1. m # 0 => g[m] = f[m]
                BY <4>4
          <6> QED BY <5>1, <6>1, <4>2, <4>4
        <5>2. CASE i # m + 1
          <6>1. i \in 1..m /\ (i # 1 => i - 1 \in 1..m /\ i - 1 # m + 1)
                BY <5>2
          <6>2. f[i] = IF i = 1 THEN seqs[i] ELSE f[i - 1] \o seqs[i]
                BY <4>1, <6>1
          <6>3. g[i] = f[i] /\ (i # 1 => g[i - 1] = f[i - 1])
                BY <6>1, <5>2, <4>4
          <6> QED BY <6>1, <6>2, <6>3
        <5> QED BY <5>1, <5>2
      <4>7. g = [i \in 1..(m + 1) |-> g[i]]
            BY <4>4
      <4>8. Joins(g, m + 1)
            BY <4>6, <4>7
      <4>9. m + 1 \in Nat
            OBVIOUS
      <4> QED BY <4>5, <4>8, <4>9
    <3>2. CASE ~(m + 1 <= n)
      <4>1. m + 1 \in Nat
            OBVIOUS
      <4> QED BY <4>1, <3>2
    <3> QED BY <3>1, <3>2
  <2>4. \E f \in [1..n -> Seq(T)] : Joins(f, n)
    <3>1. Nat \subseteq S
      <4> HIDE DEF S
      <4> QED BY <2>2, <2>3, SetInduction
    <3>2. n \in S
      <4> HIDE DEF S
      <4> QED BY <3>1
    <3>3. n <= n
          OBVIOUS
    <3> QED BY <3>2, <3>3
  <2>5. PICK k : k = CHOOSE f : Joins(f, n)
        OBVIOUS
  <2>6. Joins(k, n)
        BY <2>4, <2>5
  <2>7. FlattenSeq(seqs) = k[n]
        BY <1>1, <1>3, <2>5 DEF FlattenSeq
  <2>8. PICK h : h = [i \in 0..n |-> IF i = 0 THEN <<>> ELSE k[i]]
        OBVIOUS
  <2>9. ASSUME NEW i \in 1..n PROVE k[i] = IF i = 1 THEN seqs[i] ELSE k[i - 1] \o seqs[i]
        BY <2>6
  <2>10. h[0] = <<>> /\ \A i \in 1..n : h[i] = k[i]
        BY <2>8
  <2>11. ASSUME NEW i \in 1..n PROVE h[i] = h[i - 1] \o seqs[i]
    <3>1. CASE i = 1
      <4>1. seqs[1] \in Seq(T)
            BY <2>1, <3>1
      <4>2. <<>> \o seqs[1] = seqs[1]
            BY <4>1, ConcatEmptySeq
      <4>3. h[1] = seqs[1]
            BY <2>9, <2>10, <3>1
      <4>4. i - 1 = 0 /\ seqs[i] = seqs[1] /\ h[i] = h[1]
            BY <3>1
      <4>5. h[i - 1] = <<>>
            BY <4>4, <2>10
      <4> QED BY <4>2, <4>3, <4>4, <4>5
    <3>2. CASE i # 1
      <4>1. i - 1 \in 1..n
            BY <3>2
      <4> QED BY <3>2, <4>1, <2>9, <2>10
    <3> QED BY <3>1, <3>2
  <2> DEFINE R == {m \in Nat : m \in 0..n => h[m] \in Seq(T)}
  <2>12. ASSUME NEW m \in Nat, m \in R PROVE m + 1 \in R
    <3>1. CASE m + 1 \in 1..n
      <4>1. seqs[m + 1] \in Seq(T) /\ m \in 0..n /\ (m + 1) - 1 = m
            BY <2>1, <3>1
      <4>2. h[m + 1] = h[m] \o seqs[m + 1]
            BY <2>11, <3>1, <4>1
      <4>3. h[m] \in Seq(T)
            BY <4>1, <2>12
      <4>4. h[m] \o seqs[m + 1] \in Seq(T)
            BY <4>1, <4>3, ConcatProperties
      <4>5. m + 1 \in Nat
            OBVIOUS
      <4> QED BY <4>2, <4>4, <4>5
    <3>2. CASE m + 1 \notin 1..n
          BY <3>2
    <3> QED BY <3>1, <3>2
  <2>13. 0 \in R
    <3>1. <<>> \in Seq(T)
          OBVIOUS
    <3> QED BY <2>10, <3>1
  <2>14. Nat \subseteq R
    <3> HIDE DEF R
    <3> QED BY <2>12, <2>13, SetInduction
  <2>15. h \in [0..n -> Seq(T)]
    <3>1. \A m \in 0..n : h[m] \in Seq(T)
          BY <2>14
    <3>2. h = [m \in 0..n |-> h[m]]
          BY <2>8
    <3> HIDE DEF R
    <3> QED BY <3>1, <3>2
  <2>16. FlattenSeq(seqs) = h[n]
        BY <2>7, <2>10, <1>3
  <2> QED BY <1>1, <2>10, <2>11, <2>15, <2>16
<1> QED BY <1>2, <1>3

\* Where each entry of one list stands in another, of which only these places count.
StandsAt(pos, out, list, places) ==
    /\ pos \in [DOMAIN out -> DOMAIN list]
    /\ \A i \in DOMAIN out : pos[i] \in places /\ out[i] = list[pos[i]]
    /\ \A i, j \in DOMAIN out : i < j => pos[i] < pos[j]
    /\ \A p \in DOMAIN list : p \in places => \E i \in DOMAIN out : pos[i] = p

\* What is picked stands where it stood: the places it came from go up, and none is left out.
LEMMA PickedPlaces ==
    ASSUME NEW list, IsList(list), NEW places
    PROVE  /\ Picked(list, places) \in Seq(ToSet(list))
           /\ \E pos : StandsAt(pos, Picked(list, places), list, places)
<1>1. PICK n \in Nat : n = Len(list) /\ DOMAIN list = 1..n
      BY Lists1
<1>2. PICK T : T = ToSet(list) /\ \A i \in 1..n : list[i] \in T
      BY <1>1, Lists1
<1>3. PICK seqs : seqs = [i \in 1..n |-> IF i \in places THEN <<list[i]>> ELSE <<>>]
      OBVIOUS
<1>4. seqs \in Seq(Seq(T)) /\ Len(seqs) = n
  <2>1. \A i \in 1..n : seqs[i] \in Seq(T)
        BY <1>2, <1>3
  <2>2. seqs = [i \in 1..n |-> seqs[i]]
        BY <1>3
  <2> QED BY <2>1, <2>2
<1>5. PICK out : out = Picked(list, places)
      OBVIOUS
<1>6. out = FlattenSeq(seqs)
      BY <1>1, <1>3, <1>5 DEF Picked
<1>7. PICK h : /\ h \in [0..n -> Seq(T)]
               /\ h[0] = <<>>
               /\ \A i \in 1..n : h[i] = h[i - 1] \o seqs[i]
               /\ out = h[n]
      BY <1>4, <1>6, FlattenByStep
<1> DEFINE From(m, pos) ==
        /\ pos \in [1..Len(h[m]) -> 1..m]
        /\ \A i \in 1..Len(h[m]) : pos[i] \in places /\ h[m][i] = list[pos[i]]
        /\ \A i, j \in 1..Len(h[m]) : i < j => pos[i] < pos[j]
        /\ \A p \in 1..m : p \in places => \E i \in 1..Len(h[m]) : pos[i] = p
    S == {m \in Nat : m \in 0..n => \E pos : From(m, pos)}
<1>8. 0 \in S
  <2>1. PICK pos : pos = [i \in 1..0 |-> 1]
        OBVIOUS
  <2>2. Len(h[0]) = 0
        BY <1>7
  <2>3. From(0, pos)
        BY <2>1, <2>2
  <2> QED BY <2>3
<1>9. ASSUME NEW m \in Nat, m \in S PROVE m + 1 \in S
  <2>0. m + 1 \in Nat
        OBVIOUS
  <2>1. CASE m + 1 \in 1..n
    <3>1. m \in 0..n /\ (m + 1) - 1 = m
          BY <2>1
    <3>2. PICK pos : From(m, pos)
          BY <1>9, <3>1
    <3>3. PICK a \in Seq(T) : a = h[m]
          BY <1>7, <3>1
    <3>4. h[m + 1] = a \o seqs[m + 1]
          BY <1>7, <2>1, <3>1, <3>3
    <3>5. PICK l \in Nat : l = Len(a)
          OBVIOUS
    <3>6. /\ pos \in [1..l -> 1..m]
          /\ \A i \in 1..l : pos[i] \in places /\ a[i] = list[pos[i]]
          /\ \A i, j \in 1..l : i < j => pos[i] < pos[j]
          /\ \A p \in 1..m : p \in places => \E i \in 1..l : pos[i] = p
          BY <3>2, <3>3, <3>5
    <3>7. CASE m + 1 \notin places
      <4>1. h[m + 1] = a
        <5>1. seqs[m + 1] = <<>>
              BY <1>3, <2>1, <3>7
        <5> QED BY <5>1, <3>4, ConcatEmptySeq
      <4>2. pos \in [1..l -> 1..(m + 1)]
            BY <3>6
      <4>3. \A p \in 1..(m + 1) : p \in places => \E i \in 1..l : pos[i] = p
        <5>1. \A p \in 1..(m + 1) : p \in places => p \in 1..m
              BY <3>7
        <5> QED BY <5>1, <3>6
      <4>4. From(m + 1, pos)
            BY <4>1, <4>2, <4>3, <3>5, <3>6
      <4> QED BY <2>0, <4>4
    <3>8. CASE m + 1 \in places
      <4>1. PICK b : b = h[m + 1]
            OBVIOUS
      <4>2. b = a \o <<list[m + 1]>>
        <5>1. seqs[m + 1] = <<list[m + 1]>>
              BY <1>3, <2>1, <3>8
        <5> QED BY <5>1, <3>4, <4>1
      <4>3. <<list[m + 1]>> \in Seq(T) /\ Len(<<list[m + 1]>>) = 1
            BY <1>2, <2>1
      <4>4. Len(b) = l + 1 /\ \A i \in 1..(l + 1) : b[i] = IF i <= l THEN a[i] ELSE list[m + 1]
        <5>1. /\ Len(b) = Len(a) + 1
              /\ \A i \in 1..(Len(a) + 1) : b[i] = IF i <= Len(a) THEN a[i] ELSE <<list[m + 1]>>[i - Len(a)]
              BY <4>2, <4>3, ConcatProperties
        <5>2. \A i \in 1..(l + 1) : ~(i <= l) => i - l = 1
              BY <3>5
        <5> QED BY <5>1, <5>2, <3>5
      <4>5. PICK new : new = [i \in 1..(l + 1) |-> IF i = l + 1 THEN m + 1 ELSE pos[i]]
            OBVIOUS
      <4>6. new[l + 1] = m + 1 /\ \A i \in 1..l : new[i] = pos[i] /\ pos[i] \in 1..m /\ i <= l
        <5>1. \A i \in 1..l : i # l + 1 /\ i \in 1..(l + 1) /\ i <= l
              OBVIOUS
        <5>2. l + 1 \in 1..(l + 1)
              OBVIOUS
        <5> QED BY <4>5, <3>6, <5>1, <5>2
      <4>7. \A i \in 1..(l + 1) : i \in 1..l \/ i = l + 1
            OBVIOUS
      <4>8. new \in [1..(l + 1) -> 1..(m + 1)]
        <5>1. \A i \in 1..(l + 1) : new[i] \in 1..(m + 1)
              BY <4>6, <4>7
        <5> QED BY <4>5, <5>1
      <4>9. \A i \in 1..(l + 1) : new[i] \in places /\ b[i] = list[new[i]]
        <5>1. ~(l + 1 <= l) /\ l + 1 \in 1..(l + 1) /\ \A i \in 1..l : i \in 1..(l + 1)
              OBVIOUS
        <5> QED BY <5>1, <4>4, <4>6, <4>7, <3>6, <3>8
      <4>10. \A i, j \in 1..(l + 1) : i < j => new[i] < new[j]
        <5> SUFFICES ASSUME NEW i \in 1..(l + 1), NEW j \in 1..(l + 1), i < j PROVE new[i] < new[j]
            OBVIOUS
        <5>1. i \in 1..l
              OBVIOUS
        <5>2. CASE j = l + 1
              BY <5>1, <5>2, <4>6
        <5>3. CASE j \in 1..l
              BY <5>1, <5>3, <4>6, <3>6
        <5> QED BY <5>2, <5>3, <4>7
      <4>11. ASSUME NEW p \in 1..(m + 1), p \in places PROVE \E i \in 1..(l + 1) : new[i] = p
        <5>1. CASE p = m + 1
              BY <5>1, <4>6
        <5>2. CASE p # m + 1
          <6>1. p \in 1..m
                BY <5>2
          <6>2. PICK i \in 1..l : pos[i] = p
                BY <6>1, <4>11, <3>6
          <6>3. i \in 1..(l + 1)
                OBVIOUS
          <6> QED BY <6>2, <6>3, <4>6
        <5> QED BY <5>1, <5>2
      <4>12. From(m + 1, new)
            BY <4>1, <4>4, <4>8, <4>9, <4>10, <4>11
      <4> QED BY <2>0, <4>12
    <3> QED BY <3>7, <3>8
  <2>2. CASE m + 1 \notin 1..n
        BY <2>0, <2>2
  <2> QED BY <2>1, <2>2
<1>10. PICK pos : From(n, pos)
  <2>1. n \in S
    <3> HIDE DEF S
    <3> QED BY <1>8, <1>9, SetInduction
  <2> QED BY <2>1
<1>11. out \in Seq(T) /\ DOMAIN out = 1..Len(out) /\ h[n] = out
      BY <1>7
<1>12. /\ pos \in [1..Len(out) -> 1..n]
       /\ \A i \in 1..Len(out) : pos[i] \in places /\ out[i] = list[pos[i]]
       /\ \A i, j \in 1..Len(out) : i < j => pos[i] < pos[j]
       /\ \A p \in 1..n : p \in places => \E i \in 1..Len(out) : pos[i] = p
      BY <1>10, <1>11
<1> HIDE DEF From
<1>13. StandsAt(pos, out, list, places)
       BY <1>1, <1>11, <1>12 DEF StandsAt
<1>14. out \in Seq(ToSet(list))
       BY <1>2, <1>11
<1> QED BY <1>5, <1>13, <1>14

\* A bounded set of numbers has a greatest one.
LEMMA GreatestIsThere ==
    ASSUME NEW n \in Nat, NEW S, S \subseteq 1..n, S # {}
    PROVE  Max(S) \in S /\ \A y \in S : Max(S) >= y
<1>1. PICK T : T = {n - x : x \in S}
      OBVIOUS
<1>2. T \subseteq Nat /\ T # {}
  <2>1. \A x \in S : x \in 1..n /\ n - x \in Nat
        OBVIOUS
  <2> QED BY <1>1, <2>1
<1>3. PICK t \in T : \A u \in T : t <= u
      BY <1>2, LeastIsThere
<1>4. PICK x \in S : t = n - x
      BY <1>1, <1>3
<1>5. \A y \in S : x >= y
  <2> SUFFICES ASSUME NEW y \in S PROVE x >= y
      OBVIOUS
  <2>1. n - y \in T /\ n - x <= n - y
        BY <1>1, <1>3, <1>4
  <2> QED BY <2>1
<1> QED BY <1>5 DEF Max

\* The containers that were read stand in the order of the list, each of them once.
InListOrder(order, n, read) ==
    /\ DOMAIN order = 1..Len(order) /\ Len(order) \in Nat
    /\ \A i \in DOMAIN order : order[i] \in 1..n
    /\ \A i, j \in DOMAIN order : i < j => order[i] < order[j]
    /\ {order[i] : i \in DOMAIN order} = read
    /\ Len(order) = Cardinality(read)

LEMMA ListOrder ==
    ASSUME NEW n \in Nat, NEW read, read \subseteq 1..n
    PROVE  InListOrder(Picked([i \in 1..n |-> i], read), n, read)
<1>0. PICK order : order = Picked([i \in 1..n |-> i], read)
      OBVIOUS
<1>1. PICK list : list = [i \in 1..n |-> i]
      OBVIOUS
<1>2. DOMAIN list = 1..n /\ \A i \in 1..n : list[i] = i
      BY <1>1
<1>3. IsList(list)
  <2>1. list = [i \in 1..n |-> list[i]]
        BY <1>1
  <2> QED BY <1>2, <2>1, MadeIsList
<1>4. order = Picked(list, read)
      BY <1>0, <1>1
<1>5. PICK l \in Nat : l = Len(order) /\ DOMAIN order = 1..l
  <2>1. order \in Seq(ToSet(list))
        BY <1>3, <1>4, PickedPlaces
  <2> QED BY <2>1
<1>6. PICK pos : StandsAt(pos, order, list, read)
  <2>1. \E pos : StandsAt(pos, Picked(list, read), list, read)
        BY <1>3, PickedPlaces
  <2> QED BY <2>1, <1>4
<1>7. /\ pos \in [1..l -> 1..n]
      /\ \A i \in 1..l : pos[i] \in read /\ order[i] = pos[i] /\ pos[i] \in 1..n
      /\ \A i, j \in 1..l : i < j => pos[i] < pos[j]
      /\ \A p \in 1..n : p \in read => \E i \in 1..l : pos[i] = p
  <2>1. DOMAIN list = 1..n /\ DOMAIN order = 1..l
        BY <1>2, <1>5
  <2>2. pos \in [1..l -> 1..n]
        BY <2>1, <1>6 DEF StandsAt
  <2>3. \A i \in 1..l : pos[i] \in read /\ order[i] = list[pos[i]] /\ pos[i] \in 1..n
        BY <2>1, <2>2, <1>6 DEF StandsAt
  <2>4. \A i, j \in 1..l : i < j => pos[i] < pos[j]
        BY <2>1, <1>6 DEF StandsAt
  <2>5. \A p \in 1..n : p \in read => \E i \in 1..l : pos[i] = p
        BY <2>1, <1>6 DEF StandsAt
  <2> QED BY <1>2, <2>2, <2>3, <2>4, <2>5
<1>8. \A i, j \in 1..l : i < j => order[i] < order[j]
      BY <1>7
<1>9. {order[i] : i \in 1..l} = read
      BY <1>7
<1>10. l = Cardinality(read)
  <2>1. pos \in [1..l -> read]
        BY <1>7
  <2>2. \A t \in read : \E i \in 1..l : pos[i] = t
        BY <1>7
  <2>3. \A i, j \in 1..l : pos[i] = pos[j] => i = j
    <3> SUFFICES ASSUME NEW i \in 1..l, NEW j \in 1..l, pos[i] = pos[j], i # j PROVE FALSE
        OBVIOUS
    <3>1. pos[i] \in 1..n /\ pos[j] \in 1..n
          BY <1>7
    <3>2. CASE i < j
          BY <3>1, <3>2, <1>7
    <3>3. CASE j < i
          BY <3>1, <3>3, <1>7
    <3> QED BY <3>2, <3>3
  <2>4. pos \in Surjection(1..l, read) /\ pos \in Injection(1..l, read)
        BY <2>1, <2>2, <2>3 DEF Surjection, Injection, IsInjective
  <2>5. Cardinality(1..l) = IF 1 > l THEN 0 ELSE l - 1 + 1
        BY FS_Interval
  <2>6. IsFiniteSet(1..l) /\ Cardinality(1..l) = l
        BY <2>5, FS_Interval
  <2> QED BY <2>4, <2>6, FS_Surjection
<1>11. InListOrder(order, n, read)
       BY <1>5, <1>7, <1>8, <1>9, <1>10 DEF InListOrder
<1> QED BY <1>0, <1>11

\* The last of an ordered list that has a property is the greatest that has it.
LastIn(order, at) ==
    LET found == {order[i] : i \in at}
    IN  (IF at = {} THEN 0 ELSE order[Max(at)]) = IF found = {} THEN 0 ELSE Max(found)

LEMMA LastIsGreatest ==
    ASSUME NEW n \in Nat, NEW read, NEW order, InListOrder(order, n, read),
           NEW at, at \subseteq DOMAIN order
    PROVE  LastIn(order, at)
<1>0. PICK l \in Nat : /\ DOMAIN order = 1..l
                       /\ \A i \in 1..l : order[i] \in 1..n
                       /\ \A i, j \in 1..l : i < j => order[i] < order[j]
      BY DEF InListOrder
<1> DEFINE holders == {order[i] : i \in at}
<1>1. CASE at = {}
      BY <1>1 DEF LastIn
<1>2. CASE at # {}
  <2>1. PICK a : a = Max(at)
        OBVIOUS
  <2>2. a \in at /\ \A i \in at : a >= i
        BY <1>0, <1>2, <2>1, GreatestIsThere
  <2>3. holders # {} /\ holders \subseteq 1..n /\ order[a] \in holders
        BY <1>0, <2>2
  <2>4. PICK h : h = Max(holders)
        OBVIOUS
  <2>5. h \in holders /\ \A y \in holders : h >= y
    <3> HIDE DEF holders
    <3> QED BY <2>3, <2>4, GreatestIsThere
  <2>6. PICK i \in at : h = order[i]
        BY <2>5
  <2>7. i <= a /\ i \in 1..l /\ a \in 1..l
        BY <1>0, <2>2
  <2>8. order[i] <= order[a]
    <3>1. order[i] \in 1..n /\ order[a] \in 1..n
          BY <1>0, <2>7
    <3>2. CASE i = a
          BY <3>1, <3>2
    <3>3. CASE i < a
          BY <1>0, <2>7, <3>1, <3>3
    <3> QED BY <2>7, <3>2, <3>3
  <2>9. h = order[a]
    <3>1. h >= order[a] /\ h \in 1..n /\ order[a] \in 1..n
          BY <2>3, <2>5
    <3> QED BY <3>1, <2>6, <2>8
  <2> QED BY <1>2, <2>1, <2>3, <2>4, <2>9 DEF LastIn
<1> QED BY <1>1, <1>2

\* What is listed is known once the list was heard, and is the snapshot from then on.
ListedInv ==
    /\ listed \in 0..MaxContainers
    /\ stage \in {"start", "ping", "list"} => listed = 0
    /\ SnapshotIsTheList

LEMMA UnlistedStep ==
    ASSUME ListedInv, UNCHANGED <<stage, listed, states, snapshot>>
    PROVE  ListedInv'
BY DEF ListedInv, SnapshotIsTheList

\* Nothing listed, or not all of it inspected: there is no snapshot to speak of.
LEMMA NotYetStep ==
    ASSUME listed' \in 0..MaxContainers,
           listed' = 0 \/ stage' = "inspect"
    PROVE  ListedInv'
BY DEF ListedInv, SnapshotIsTheList

\* From one stage after the snapshot to a later one.
LEMMA LaterStep ==
    ASSUME ListedInv, stage \in {"resolve", "join", "probe"},
           stage' \in {"resolve", "join", "probe", "done"},
           UNCHANGED <<listed, states, snapshot>>
    PROVE  ListedInv'
BY DEF ListedInv, SnapshotIsTheList

\* Read's last loop: list, inspects and snapshot are one statement.
LEMMA IndexList ==
    ASSUME ListedInv, Index
    PROVE  ListedInv'
<1>1. PICK n \in 0..MaxContainers : n = listed
      BY DEF ListedInv
<1>2. n \in Nat
      BY FanoutAssumption
<1>3. PICK read : read = {i \in 1..n : states[i] = "state"}
      OBVIOUS
<1>4. PICK bad : bad = {i \in 1..n : states[i] # "state"}
      OBVIOUS
<1>5. PICK order : order = Picked([i \in 1..n |-> i], read)
      OBVIOUS
<1>6. order = InOrderOfList
      BY <1>1, <1>3, <1>5 DEF InOrderOfList
<1>7. /\ stage' = "resolve" /\ listed' = n /\ states' = states
      /\ snapshot' =
             [phase   |-> IF bad = {} THEN "connected" ELSE "partial",
              refused |-> Cardinality(bad),
              reason  |-> IF bad = {} THEN "" ELSE states[Min(bad)],
              order   |-> order,
              owner   |-> [k \in Keys |->
                             LET at == {m \in DOMAIN order : k \in KeysOf[order[m]]}
                             IN  IF at = {} THEN 0 ELSE order[Max(at)]]]
      BY <1>1, <1>4, <1>6 DEF Index
<1>8. PICK s : s = snapshot'
      OBVIOUS
<1>9. /\ s.phase = IF bad = {} THEN "connected" ELSE "partial"
      /\ s.refused = Cardinality(bad)
      /\ s.order = order
      BY <1>7, <1>8
<1>10. \A k \in Keys : s.owner[k] = LET at == {m \in DOMAIN order : k \in KeysOf[order[m]]}
                                    IN  IF at = {} THEN 0 ELSE order[Max(at)]
      BY <1>7, <1>8
<1>11. InListOrder(order, n, read)
  <2>1. read \subseteq 1..n
        BY <1>3
  <2>2. InListOrder(Picked([i \in 1..n |-> i], read), n, read)
        BY <1>2, <2>1, ListOrder
  <2> QED BY <1>5, <2>2
<1>12. \A i, j \in DOMAIN s.order : i < j => s.order[i] < s.order[j]
      BY <1>9, <1>11 DEF InListOrder
<1>13. {s.order[i] : i \in DOMAIN s.order} = read
      BY <1>9, <1>11 DEF InListOrder
<1>14. ASSUME NEW k \in Keys
       PROVE  s.owner[k] = LET holders == {i \in read : k \in KeysOf[i]}
                           IN  IF holders = {} THEN 0 ELSE Max(holders)
  <2>1. PICK at : at = {m \in DOMAIN order : k \in KeysOf[order[m]]}
        OBVIOUS
  <2>2. PICK holders : holders = {i \in read : k \in KeysOf[i]}
        OBVIOUS
  <2>3. s.owner[k] = IF at = {} THEN 0 ELSE order[Max(at)]
        BY <1>10, <2>1
  <2>4. holders = {order[i] : i \in at} /\ at \subseteq DOMAIN order
    <3>1. read = {order[i] : i \in DOMAIN order}
          BY <1>11 DEF InListOrder
    <3> QED BY <2>1, <2>2, <3>1
  <2>5. LastIn(order, at)
    <3>1. at \subseteq DOMAIN order
          BY <2>4
    <3> QED BY <1>2, <1>11, <3>1, LastIsGreatest
  <2>6. (IF at = {} THEN 0 ELSE order[Max(at)]) = IF holders = {} THEN 0 ELSE Max(holders)
        BY <2>4, <2>5 DEF LastIn
  <2> QED BY <2>2, <2>3, <2>6
<1>15. Cardinality(bad) \in Nat /\ Cardinality(bad) + Len(order) = n /\ (bad = {} <=> Cardinality(bad) = 0)
  <2>1. IsFiniteSet(1..n) /\ Cardinality(1..n) = n
    <3>1. Cardinality(1..n) = IF 1 > n THEN 0 ELSE n - 1 + 1
          BY <1>2, FS_Interval
    <3> QED BY <1>2, <3>1, FS_Interval
  <2>2. IsFiniteSet(bad) /\ IsFiniteSet(read)
        BY <1>3, <1>4, <2>1, FS_Subset
  <2>3. bad \cup read = 1..n /\ bad \cap read = {}
        BY <1>3, <1>4
  <2>4. Cardinality(bad) \in Nat /\ Cardinality(read) \in Nat
        BY <2>2, FS_CardinalityType
  <2>5. Cardinality(1..n) = Cardinality(bad) + Cardinality(read)
    <3>1. Cardinality(bad \cup read) = Cardinality(bad) + Cardinality(read)
      <4>1. Cardinality(bad \cup read) = Cardinality(bad) + Cardinality(read) - Cardinality({})
            BY <2>2, <2>3, FS_Union
      <4>2. Cardinality({}) = 0
            BY FS_EmptySet
      <4> QED BY <2>4, <4>1, <4>2
    <3> QED BY <2>3, <3>1
  <2>6. bad = {} <=> Cardinality(bad) = 0
        BY <2>2, FS_EmptySet
  <2>7. Len(order) = Cardinality(read)
        BY <1>11 DEF InListOrder
  <2> QED BY <1>2, <2>1, <2>4, <2>5, <2>6, <2>7
<1>16. s.refused + Len(s.order) = n /\ (s.phase = "partial") = (s.refused > 0)
      BY <1>9, <1>15
<1>17. /\ \A i, j \in DOMAIN snapshot'.order : i < j => snapshot'.order[i] < snapshot'.order[j]
       /\ {snapshot'.order[i] : i \in DOMAIN snapshot'.order} = read
       /\ \A k \in Keys : LET holders == {i \in read : k \in KeysOf[i]}
                          IN  snapshot'.owner[k] = IF holders = {} THEN 0 ELSE Max(holders)
       /\ snapshot'.refused + Len(snapshot'.order) = n
       /\ (snapshot'.phase = "partial") = (snapshot'.refused > 0)
      BY <1>8, <1>12, <1>13, <1>14, <1>16
<1>18. {i \in 1..listed' : states'[i] = "state"} = read
      BY <1>3, <1>7
<1>19. SnapshotIsTheList'
      BY <1>7, <1>17, <1>18 DEF SnapshotIsTheList
<1> QED BY <1>1, <1>7, <1>19 DEF ListedInv

LEMMA ListedSteps == FanoutInv /\ ListedInv /\ [Next]_vars => ListedInv'
<1> SUFFICES ASSUME FanoutInv, ListedInv, [Next]_vars PROVE ListedInv'
    OBVIOUS
<1>0. listed \in 0..MaxContainers /\ 0 \in 0..MaxContainers
      BY FanoutAssumption DEF ListedInv
<1>1. CASE Begin \/ Ping
  <2>1. stage \in {"start", "ping"} /\ listed' = listed
        BY <1>1 DEF Begin, Ping
  <2> QED BY <1>0, <2>1, NotYetStep DEF ListedInv
<1>2. CASE List
  <2>1. stage = "list" /\ listed = 0
        BY <1>2 DEF List, ListedInv
  <2>2. listed' = listed \/ (stage' = "inspect" /\ listed' \in 0..MaxContainers)
        BY <1>2 DEF List
  <2> QED BY <1>0, <2>1, <2>2, NotYetStep
<1>3. CASE Index
      BY <1>3, IndexList
<1>4. CASE Resolve \/ Join \/ Tally
  <2>1. /\ stage \in {"resolve", "join", "probe"} /\ stage' \in {"join", "probe", "done"}
        /\ UNCHANGED <<listed, states, snapshot>>
        BY <1>4 DEF Resolve, Join, Tally, dockerVars
  <2> QED BY <2>1, LaterStep
<1>5. CASE InspectSteps
  <2>1. PICK w \in AllWorkers : HandOut(w) \/ InspectOver(w)
        BY <1>5 DEF InspectSteps
  <2>2. stage = "inspect" /\ UNCHANGED <<stage, listed>>
        BY <2>1 DEF HandOut, InspectOver, FanoutInv, WorkerInv
  <2> QED BY <1>0, <2>2, NotYetStep
<1>6. CASE ReaderSteps
  <2>1. UNCHANGED <<stage, listed, states, snapshot>>
        BY <1>6 DEF ReaderSteps, ReaderAsks, ReaderHears, ReaderReturns, dockerVars
  <2> QED BY <2>1, UnlistedStep
<1>7. CASE ProbeSteps
  <2>1. UNCHANGED <<stage, listed, states, snapshot>>
        BY <1>7 DEF ProbeSteps, AddressAsks, AddressAnswers, StateAsks, StateAnswers, dockerVars
  <2> QED BY <2>1, UnlistedStep
<1>8. CASE UNCHANGED <<stage, dockerVars, readerVars, probeVars>> \/ UNCHANGED vars
  <2>1. UNCHANGED <<stage, listed, states, snapshot>>
        BY <1>8 DEF vars, dockerVars
  <2> QED BY <2>1, UnlistedStep
<1> QED BY <1>1, <1>2, <1>3, <1>4, <1>5, <1>6, <1>7, <1>8 DEF Next, RunSteps, Finished

\* dockerapi.go: whatever the order in which the inspects came back, the snapshot says what the
\* list and each inspect said, in the order of the list.
THEOREM SnapshotFollowsTheList == Spec => []SnapshotIsTheList
<1>1. Init => FanoutInv /\ ListedInv
  <2> SUFFICES ASSUME Init PROVE FanoutInv /\ ListedInv
      OBVIOUS
  <2>1. listed = 0 /\ 0 \in 0..MaxContainers
    <3>1. 0 \in 0..MaxContainers
          BY FanoutAssumption
    <3> QED BY <3>1 DEF Init
  <2> QED BY <2>1, InitFanout DEF ListedInv, SnapshotIsTheList
<1>2. FanoutInv /\ ListedInv /\ [Next]_vars => FanoutInv' /\ ListedInv'
      BY FanoutSteps, ListedSteps
<1>3. ListedInv => SnapshotIsTheList
      BY DEF ListedInv
<1> QED BY <1>1, <1>2, <1>3, PTL DEF Spec
==============================================================================
