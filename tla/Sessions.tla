------------------------------ MODULE Sessions ------------------------------
(***************************************************************************)
(* internal/access: signed sessions, and the bounded set of those signed   *)
(* out.  Nothing of a session is stored: a token is good while its         *)
(* signature is by the process's secret, its expiry is ahead and its       *)
(* identifier is not in the revocation set, which lives in memory.         *)
(***************************************************************************)
EXTENDS Integers, FiniteSets

CONSTANTS
    Handlers,         \* the goroutines serving sign-ins and sign-outs
    Tokens,           \* the sessions, as their identifiers; < is their order
    TTL,              \* s.ttl, in ticks
    MaxRevocations,   \* MaxRevocations of session.go
    None,             \* no token
    MaxTime,          \* bound on the clock
    MaxRestarts       \* bound on the restarts

ASSUME SessionsAssumption ==
    /\ Tokens \subseteq Nat
    /\ None \notin Tokens
    /\ TTL \in Nat \ {0}
    /\ MaxRevocations \in Nat \ {0}
    /\ MaxTime \in Nat
    /\ MaxRestarts \in Nat

VARIABLES
    now,          \* what the clock says
    configured,   \* whether auth.session.secret is set
    run,          \* how often the process was restarted
    token,        \* per identifier, the claims minted and in which run; exp 0 before
    revoked,      \* the identifiers held by r.at; their expiry is the token's
    handler,      \* per handler, the request it is serving
    signedOut     \* history: the tokens whose sign-out returned, with the run it was in

vars == <<now, configured, run, token, revoked, handler, signedOut>>

Claims == [exp : Nat, run : Nat]
Request == [pc : {"idle", "minting", "checking", "revoking"},
            token : Tokens \cup {None}, at : Nat]
Idle == [pc |-> "idle", token |-> None, at |-> 0]

TypeOK ==
    /\ now \in Nat
    /\ configured \in BOOLEAN
    /\ run \in Nat
    /\ token \in [Tokens -> Claims]
    /\ revoked \subseteq {t \in Tokens : token[t].exp # 0}
    /\ handler \in [Handlers -> Request]
    /\ DOMAIN signedOut \subseteq Tokens
    /\ \A t \in DOMAIN signedOut : signedOut[t] \in Nat

Init ==
    /\ now = 1
    /\ configured \in BOOLEAN
    /\ run = 0
    /\ token = [t \in Tokens |-> [exp |-> 0, run |-> 0]]
    /\ revoked = {}
    /\ handler = [h \in Handlers |-> Idle]
    /\ signedOut = <<>>

Minted(t) == token[t].exp # 0

-----------------------------------------------------------------------------
(* Verify. *)

\* The MAC: a secret generated at start-up is another one after a restart.
Signed(t) == Minted(t) /\ (configured \/ token[t].run = run)

\* Mutant: the last instant of a session is outside it.
ExpiredEarly(t, at) == at + 1 >= token[t].exp

Expired(t, at) == at >= token[t].exp

\* What Verify answers about t at a given time: signature, expiry, revocation, in that order.
Verdict(t, at) ==
    IF ~Signed(t) THEN "signature"
    ELSE IF Expired(t, at) THEN "expired"
    ELSE IF t \in revoked THEN "revoked"
    ELSE "valid"

-----------------------------------------------------------------------------
Tick ==
    /\ now < MaxTime
    /\ now' = now + 1
    /\ UNCHANGED <<configured, run, token, revoked, handler, signedOut>>

\* A sign-in reads the clock, and mints when its credentials have been judged.
SignIn(h, t) ==
    /\ handler[h].pc = "idle"
    /\ ~Minted(t)
    /\ \A g \in Handlers : handler[g].token # t
    /\ handler' = [handler EXCEPT ![h] = [pc |-> "minting", token |-> t, at |-> now]]
    /\ UNCHANGED <<now, configured, run, token, revoked, signedOut>>

Mint(h) ==
    /\ handler[h].pc = "minting"
    /\ token' = [token EXCEPT ![handler[h].token] =
                    [exp |-> handler[h].at + TTL, run |-> run]]
    /\ handler' = [handler EXCEPT ![h] = Idle]
    /\ UNCHANGED <<now, configured, run, revoked, signedOut>>

\* Logout reads the clock; the token is the one in the request's cookie.
SignOut(h, t) ==
    /\ handler[h].pc = "idle"
    /\ Minted(t)
    /\ handler' = [handler EXCEPT ![h] = [pc |-> "checking", token |-> t, at |-> now]]
    /\ UNCHANGED <<now, configured, run, token, revoked, signedOut>>

\* Verified before it is revoked; a token already revoked is revoked again, any other
\* refused one is not added.
Check(h) ==
    /\ handler[h].pc = "checking"
    /\ handler' = IF Verdict(handler[h].token, handler[h].at) \in {"valid", "revoked"}
                  THEN [handler EXCEPT ![h].pc = "revoking"]
                  ELSE [handler EXCEPT ![h] = Idle]
    /\ UNCHANGED <<now, configured, run, token, revoked, signedOut>>

\* Earlier expiry first, ties by identifier.
Sooner(t, u) ==
    token[t].exp < token[u].exp \/ (token[t].exp = token[u].exp /\ t < u)

\* Mutant: the set keeps whatever expires soonest.
KeepSoonest(S) ==
    {t \in S : Cardinality({u \in S : Sooner(u, t)}) < MaxRevocations}

\* evict: down to the cap, what expires soonest goes.
Capped(S) == {t \in S : Cardinality({u \in S : Sooner(t, u)}) < MaxRevocations}

\* add, under r.mu: prune what has expired, put t in, apply the cap.
Revoke(h) ==
    /\ handler[h].pc = "revoking"
    /\ LET t    == handler[h].token
           kept == {u \in revoked : ~Expired(u, handler[h].at)}
       IN  /\ revoked' = Capped(kept \cup {t})
           /\ signedOut' = [u \in DOMAIN signedOut \cup {t} |->
                              IF u = t THEN run ELSE signedOut[u]]
    /\ handler' = [handler EXCEPT ![h] = Idle]
    /\ UNCHANGED <<now, configured, run, token>>

\* The process stops at any moment and another starts, with nothing of the old one's memory.
Restart ==
    /\ run < MaxRestarts
    /\ run' = run + 1
    /\ revoked' = {}
    /\ handler' = [h \in Handlers |-> Idle]
    /\ UNCHANGED <<now, configured, token, signedOut>>

Next ==
    \/ Tick
    \/ \E h \in Handlers, t \in Tokens : SignIn(h, t) \/ SignOut(h, t)
    \/ \E h \in Handlers : Mint(h) \/ Check(h) \/ Revoke(h)
    \/ Restart

Spec == Init /\ [][Next]_vars

-----------------------------------------------------------------------------
Valid(t) == Verdict(t, now) = "valid"

\* A session somebody signed out is not accepted again, except after a restart that kept
\* the secret and lost the set, or when the set is full of sign-outs of sessions that last
\* at least as long: the cap never costs a sign-out that matters longer than one it keeps.
SignedOutStaysOut ==
    \A t \in DOMAIN signedOut :
        Valid(t) =>
            \/ configured /\ signedOut[t] # run
            \/ /\ Cardinality(revoked) = MaxRevocations
               /\ \A u \in revoked : token[u].exp >= token[t].exp

\* A session ends by its expiry, by a sign-out of that session or by a restart without a
\* configured secret; no sign-out of another one, and no eviction, ends it.
OnlyItsOwnSignOutEndsASession ==
    [][\A t \in Tokens :
          Valid(t) /\ ~Valid(t)' =>
             \/ now' >= token[t].exp
             \/ \E h \in Handlers : handler[h].pc = "revoking" /\ handler[h].token = t
             \/ run' # run /\ ~configured]_vars
=============================================================================
