------------------------------ MODULE Throttle ------------------------------
(***************************************************************************)
(* internal/access: the counter of failed password attempts, as concurrent *)
(* sign-ins use it.  A handler of POST /api/login reads the clock once,    *)
(* asks Allow, compares a hash for as long as that takes, and then calls   *)
(* Failed or Succeeded; each of the three is one section under t.mu, and   *)
(* other handlers run in between.                                          *)
(***************************************************************************)
EXTENDS Integers, Sequences, FiniteSets, SequencesExt

CONSTANTS
    Handlers,      \* the goroutines serving POST /api/login
    Users,         \* the names clients send
    ThrottleKey,   \* the case-folded sanitised form of each name
    MaxFailed,     \* t.MaxFailed
    Window,        \* t.Window, in ticks
    MaxKeys,       \* MaxThrottleKeys
    Second,        \* the ticks of one second
    None,          \* no entry
    MaxTime        \* bound on the clock

Keys == {ThrottleKey[u] : u \in Users}

ASSUME ThrottleAssumption ==
    /\ IsFiniteSet(Handlers)
    /\ DOMAIN ThrottleKey = Users
    /\ None \notin Nat
    /\ MaxFailed \in Int
    /\ MaxKeys \in Nat \ {0}
    /\ Second \in Nat \ {0}
    /\ Window \in Nat \ {0}
    /\ MaxTime \in Nat

VARIABLES
    now,       \* what the clock says
    entries,   \* t.entries: the tracked keys, with count and first
    order,     \* t.order, oldest insertion first
    handler    \* per handler, the attempt it is judging

vars == <<now, entries, order, handler>>

\* attempts of throttle.go; its last is written and never read.
Entry == [count : Nat \ {0}, first : Nat]

\* key and at are what Attempt was called with; since is the window of the lock that
\* refused it and notBefore when its Retry-After runs out; before is the window of the
\* lock whose Retry-After this attempt waited out.
Attempt == [pc : {"idle", "arrived", "verifying", "refused"}, key : Keys \cup {None},
            at : Nat, since : Nat \cup {None}, notBefore : Nat,
            before : Nat \cup {None}]

Idle == [pc |-> "idle", key |-> None, at |-> 0, since |-> None,
         notBefore |-> 0, before |-> None]

TypeOK ==
    /\ now \in Nat
    /\ DOMAIN entries \subseteq Keys
    /\ \A k \in DOMAIN entries : entries[k] \in Entry
    /\ order \in Seq(Keys)
    /\ handler \in [Handlers -> Attempt]
    /\ \A h \in Handlers :
          handler[h].pc = "refused" => handler[h].notBefore > handler[h].at

Init ==
    /\ now = 1
    /\ entries = <<>>
    /\ order = <<>>
    /\ handler = [h \in Handlers |-> Idle]

-----------------------------------------------------------------------------
(* The arithmetic of one entry. *)

Expired(e, t) == t - e.first >= Window

\* Mutant: one failure more than the limit before the lock.
ReachedLate(e) == e.count > MaxFailed

Reached(e) == e.count >= MaxFailed

Locked(k, t) ==
    MaxFailed > 0 /\ k \in DOMAIN entries /\ ~Expired(entries[k], t) /\ Reached(entries[k])

\* Duration.Round(time.Second): to the nearest, halves up.
Round(d) == ((2 * d + Second) \div (2 * Second)) * Second

\* At least a second, rounded; the Retry-After header is this many seconds, since the
\* handler's Ceil of whole seconds changes nothing.
RetryAfter(e, t) ==
    LET remaining == Window - (t - e.first)
    IN  Round(IF remaining < Second THEN Second ELSE remaining)

-----------------------------------------------------------------------------
Tick ==
    /\ now < MaxTime
    /\ now' = now + 1
    /\ UNCHANGED <<entries, order, handler>>

\* An attempt on a name, after the lock whose Retry-After it waited out, if any.
Arriving(k, waited) == [pc |-> "arrived", key |-> k, at |-> now, since |-> None,
                        notBefore |-> 0, before |-> waited]

\* A sign-in arrives while the passwd method is live; its time is read once.
Submit(h, u) ==
    /\ handler[h].pc \in {"idle", "refused"}
    /\ handler' = [handler EXCEPT ![h] = Arriving(ThrottleKey[u], None)]
    /\ UNCHANGED <<now, entries, order>>

\* The client that was refused waits as long as it was told and tries again.
Return(h) ==
    /\ handler[h].pc = "refused"
    /\ now >= handler[h].notBefore
    /\ handler' = [handler EXCEPT ![h] = Arriving(handler[h].key, handler[h].since)]
    /\ UNCHANGED <<now, entries, order>>

\* The attempt is answered 429: in its record goes what the header told the client.
RefusedBy(e, h) ==
    [handler EXCEPT ![h] = [pc |-> "refused", key |-> @.key, at |-> @.at, since |-> e.first,
                            notBefore |-> now + RetryAfter(e, @.at), before |-> @.before]]

Allow(h) ==
    /\ handler[h].pc = "arrived"
    /\ LET k == handler[h].key
       IN  handler' = IF Locked(k, handler[h].at)
                      THEN RefusedBy(entries[k], h)
                      ELSE [handler EXCEPT ![h].pc = "verifying"]
    /\ UNCHANGED <<now, entries, order>>

\* Mutant: every failure opens the window again.
SlidingEntry(k, t) ==
    IF k \in DOMAIN entries /\ ~Expired(entries[k], t)
    THEN [entries[k] EXCEPT !.count = @ + 1, !.first = t]
    ELSE [count |-> 1, first |-> t]

\* The entry after one more failure at t: a window that closed starts a new one.
FailedEntry(k, t) ==
    IF k \in DOMAIN entries /\ ~Expired(entries[k], t)
    THEN [entries[k] EXCEPT !.count = @ + 1]
    ELSE [count |-> 1, first |-> t]

\* evict: what is dropped, oldest insertion first, before a new key goes in.
Evicted(k) ==
    IF k \in DOMAIN entries \/ Cardinality(DOMAIN entries) < MaxKeys
    THEN {} ELSE {Head(order)}

Failed(h) ==
    LET k == handler[h].key
        t == handler[h].at
        e == FailedEntry(k, t)
    IN  /\ handler[h].pc = "verifying"
        /\ IF MaxFailed <= 0
           THEN UNCHANGED <<entries, order>>
           ELSE /\ entries' = [x \in (DOMAIN entries \ Evicted(k)) \cup {k} |->
                                 IF x = k THEN e ELSE entries[x]]
                /\ order' = IF k \in DOMAIN entries THEN order
                            ELSE Append(IF Evicted(k) = {} THEN order ELSE Tail(order), k)
        /\ handler' = IF MaxFailed > 0 /\ Reached(e) THEN RefusedBy(e, h)
                      ELSE [handler EXCEPT ![h] = Idle]
        /\ UNCHANGED now

\* Mutant: the order keeps the key that was cleared.
ForgetEntryOnly(k) ==
    /\ entries' = [x \in DOMAIN entries \ {k} |-> entries[x]]
    /\ UNCHANGED order

Forget(k) ==
    /\ entries' = [x \in DOMAIN entries \ {k} |-> entries[x]]
    /\ order' = IF k \notin DOMAIN entries THEN order
                ELSE RemoveAt(order, CHOOSE i \in DOMAIN order : order[i] = k)

\* The password was right and a session was minted.
Succeeded(h) ==
    /\ handler[h].pc = "verifying"
    /\ Forget(handler[h].key)
    /\ handler' = [handler EXCEPT ![h] = Idle]
    /\ UNCHANGED now

\* The password was right and the session could not be signed: 503, nothing is cleared.
MintFails(h) ==
    /\ handler[h].pc = "verifying"
    /\ handler' = [handler EXCEPT ![h] = Idle]
    /\ UNCHANGED <<now, entries, order>>

Next ==
    \/ Tick
    \/ \E h \in Handlers, u \in Users : Submit(h, u)
    \/ \E h \in Handlers :
          Return(h) \/ Allow(h) \/ Failed(h) \/ Succeeded(h) \/ MintFails(h)

Spec == Init /\ [][Next]_vars

-----------------------------------------------------------------------------
(* What must never happen. *)

\* t.order lists the tracked keys, each once, and there are at most MaxKeys of them:
\* no interleaving of failures, successes and evictions strands a key in one of the two.
TableIsItsOrder ==
    /\ Range(order) = DOMAIN entries
    /\ IsInjective(order)
    /\ Len(order) <= MaxKeys

Verifying(k) == {h \in Handlers : handler[h].pc = "verifying" /\ handler[h].key = k}

\* The limit is checked before the hash is compared and counted after, so it can be passed
\* only by the sign-ins already being compared: within one window the failures counted and
\* the passwords still being judged are never more than the limit and the other handlers.
GuessesBounded ==
    \A k \in DOMAIN entries :
        ~Expired(entries[k], now) =>
            entries[k].count + Cardinality(Verifying(k))
                <= MaxFailed - 1 + Cardinality(Handlers)

\* httpapi/auth.go:89 of the Retry-After header: "Rounded up, because a Retry-After that
\* rounded down would invite the client back a fraction of a second before the lock opens
\* and be answered with another 429".
RetryAfterOutlastsTheLock ==
    \A h \in Handlers :
        handler[h].pc = "refused" => handler[h].before # handler[h].since

-----------------------------------------------------------------------------
\* A lock that is in force is in force after the next step too, from the same failure on,
\* unless its window closed, somebody who was let in before signed in with that name, or
\* the full table evicted it.  Neither further failures nor a clock read long ago move it.
LockHolds ==
    [][\A k \in Keys :
          Locked(k, now) =>
             \/ Locked(k, now)' /\ entries'[k].first = entries[k].first
             \/ now' - entries[k].first >= Window
             \/ \E h \in Verifying(k) : handler'[h].pc = "idle"
             \/ /\ Len(order) = MaxKeys /\ Head(order) = k
                /\ k \notin DOMAIN entries' /\ entries' # <<>>]_vars
=============================================================================
