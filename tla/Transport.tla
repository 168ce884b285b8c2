------------------------------ MODULE Transport ------------------------------
(***************************************************************************)
(* internal/transport: the one way out.  Every client bounds its requests  *)
(* in flight with a channel of slots; a caller whose context is gone takes *)
(* none, and a caller that waits for one leaves when its context goes.     *)
(***************************************************************************)
EXTENDS Phases, FiniteSets

CONSTANTS
    Actors,          \* the goroutines that make requests
    Clients,         \* the configured ways out
    MaxConcurrency,  \* per client, Options.MaxConcurrency
    Statuses,        \* the statuses the far ends answer with
    NetworkErrors    \* the errors the far end and the way to it produce, as sets of traits

ASSUME TransportAssumption ==
    /\ IsFiniteSet(Actors)
    /\ "none" \notin Clients
    /\ MaxConcurrency \in [Clients -> Int]
    /\ Statuses \subseteq 100..599
    /\ NetworkErrors \subseteq SUBSET Traits
    /\ \A e \in NetworkErrors : "canceled" \notin e

VARIABLES
    gone,   \* whether the scan's context is done
    limit,  \* per client, how many slots are taken
    call    \* per goroutine, the request it is in

transportVars == <<gone, limit, call>>

DefaultConcurrency == 8

\* New: how many slots a client has; a negative setting leaves it unbounded.
Bounded(c) == MaxConcurrency[c] >= 0
Slots(c) == IF MaxConcurrency[c] = 0 THEN DefaultConcurrency ELSE MaxConcurrency[c]

\* A result, by: "answer", a status and a body; "body", a status whose body could not be read; "network"
\* and "caller", no status at all.
Outcome == [by : {"answer", "body", "network", "caller"}, phase : ConnectionPhases]
NoOutcome == [by |-> "caller", phase |-> "disabled"]

CallAt(pc, c, o) == [pc |-> pc, client |-> c, outcome |-> o]
NoCall == CallAt("none", "none", NoOutcome)
Call == [pc : {"none", "waiting", "inflight", "over"}, client : Clients \cup {"none"},
         outcome : Outcome]

Answers == {[by |-> "answer", phase |-> FromStatus(s)] : s \in Statuses}
Failures == {[by |-> b, phase |-> FromError(e, 0, 1)] : b \in {"body", "network"},
                                                       e \in NetworkErrors}
Left == [by |-> "caller", phase |-> FromError({"canceled"}, 0, 0)]
Interrupted == {Left, [Left EXCEPT !.by = "body"]}

TransportTypeOK ==
    /\ gone \in BOOLEAN
    /\ limit \in [Clients -> Nat]
    /\ call \in [Actors -> Call]

TransportInit ==
    /\ gone = FALSE
    /\ limit = [c \in Clients |-> 0]
    /\ call = [a \in Actors |-> NoCall]

\* acquire: a caller that is already gone is answered at once and never reaches the dial.
Enter(c) ==
    IF gone THEN CallAt("over", c, Left) ELSE CallAt("waiting", c, NoOutcome)

\* A goroutine starts a request; the steps below carry it through.
Ask(a, c) == call' = [call EXCEPT ![a] = Enter(c)]

HasSlot(c) == Bounded(c) => limit[c] < Slots(c)

\* acquire's select: with a slot free and the context done, either case may be taken.
TakeSlot(a) ==
    LET c == call[a].client
    IN  /\ call[a].pc = "waiting"
        /\ HasSlot(c)
        /\ limit' = [limit EXCEPT ![c] = @ + 1]
        /\ call' = [call EXCEPT ![a] = CallAt("inflight", c, NoOutcome)]
        /\ UNCHANGED gone

LeaveQueue(a) ==
    /\ call[a].pc = "waiting"
    /\ gone
    /\ call' = [call EXCEPT ![a] = CallAt("over", @.client, Left)]
    /\ UNCHANGED <<gone, limit>>

\* Mutant: only an answer gives its slot back.
FreedByAnswer(c, o) == IF o.by = "answer" THEN limit[c] - 1 ELSE limit[c]

\* release, deferred: whatever the outcome.
Freed(c, o) == limit[c] - 1

\* do: an answer, an error on the way, or the context going while the request is out.
Return(a) ==
    LET c == call[a].client
    IN  /\ call[a].pc = "inflight"
        /\ \E o \in Answers \cup Failures \cup (IF gone THEN Interrupted ELSE {}) :
             /\ call' = [call EXCEPT ![a] = CallAt("over", c, o)]
             /\ limit' = [limit EXCEPT ![c] = Freed(c, o)]
        /\ UNCHANGED gone

TransportStep(a) == TakeSlot(a) \/ LeaveQueue(a) \/ Return(a)

\* The signal, in `labview scan`; the cache detaches its scans from every caller.
Cancel ==
    /\ ~gone
    /\ gone' = TRUE
    /\ UNCHANGED <<limit, call>>

-----------------------------------------------------------------------------
\* transport.go:302-307: every slot taken is given back when its request is over, on every
\* path, so that no more requests than MaxConcurrency are ever out and the slots never run
\* dry.
SlotsAreRequestsInFlight ==
    \A c \in Clients :
        LET out == Cardinality({a \in Actors : call[a].client = c /\ call[a].pc = "inflight"})
        IN  limit[c] = out /\ (Bounded(c) => out <= Slots(c))
=============================================================================
