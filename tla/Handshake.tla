------------------------------ MODULE Handshake ------------------------------
(***************************************************************************)
(* internal/access/oidc.go and jwt.go, with the two handlers of            *)
(* internal/httpapi/auth.go: signing in through an identity provider, in   *)
(* the tabs of one browser.                                                *)
(*                                                                         *)
(* A start leaves a sealed cookie in the browser; the callback meets that  *)
(* cookie, the provider's code and two caches that every handler shares    *)
(* and refills without holding the lock: the discovery document and the    *)
(* key set it names.  Meanwhile the provider rotates its keys, moves its   *)
(* key set, and may sign for a while with a replica that lags.  What a     *)
(* handler does between two requests is one step: it holds p.mu at most    *)
(* once in it.                                                             *)
(***************************************************************************)
EXTENDS Integers, Sequences

CONSTANTS
    Handlers,          \* the goroutines serving /auth/oidc
    MaxHandshakes,     \* bound on the sign-ins started; they are 1..n, and 0 is no cookie
    DiscoveryTTL,      \* in ticks
    HandshakeWindow,   \* in ticks
    Skew,              \* in ticks
    MaxTime,           \* bound on the clock
    MaxKey,            \* bound on the rotations
    MaxCalls           \* bound on the requests served

ASSUME HandshakeAssumption ==
    /\ MaxHandshakes \in Nat
    /\ DiscoveryTTL \in Nat \ {0}
    /\ HandshakeWindow \in Nat \ {0}
    /\ Skew \in Nat
    /\ MaxTime \in Nat
    /\ MaxKey \in Nat \ {0}
    /\ MaxCalls \in Nat

Handshakes == 1..MaxHandshakes
URIs == {1, 2}           \* where the key set is, before and after the move
Keys == 1..MaxKey
NoTime == -1

VARIABLES
    now,
    provider,    \* the provider: key set's place, signing key, whether tokens name their key
    published,   \* per place, the keys in the set
    gone,        \* history: per place and key, when it was withdrawn
    redeemed,    \* the handshakes whose code was exchanged
    started,     \* the expiry in each handshake's cookie, in the order they were started
    jar,         \* the handshake whose cookie the browser holds
    discovered,  \* p.discovered and p.at
    keys,        \* p.keys, p.keysURI and p.keysAt
    handler,     \* per handler, the request it serves
    calls,       \* the requests so far
    spent,       \* history: the handshakes whose callback was answered
    ended        \* history: the callbacks that got as far as a token, and how they ended

providerVars == <<now, provider, published, gone>>
browserVars == <<started, jar, spent, ended>>
vars == <<providerVars, redeemed, browserVars, discovered, keys, handler, calls>>

NoDocument == [uri |-> 0, at |-> NoTime]
NoKeys == [held |-> {}, uri |-> 0, at |-> NoTime]

\* at is the clock as the request came; uri and held are what was answered to it; again and lost
\* are history: its handshake was answered before, its token's key was withdrawn.
Idle == [pc |-> "idle", handshake |-> 0, again |-> FALSE, at |-> 0, uri |-> 0, key |-> 0, iat |-> 0,
         forced |-> FALSE, held |-> {}, lost |-> FALSE]

TypeOK ==
    /\ now \in 0..MaxTime
    /\ provider \in [uri : URIs, key : Keys, names : BOOLEAN]
    /\ published \in [URIs -> SUBSET Keys]
    /\ redeemed \subseteq Handshakes
    /\ jar \in Handshakes \cup {0}
    /\ discovered.uri \in URIs \cup {0}
    /\ keys.held \subseteq Keys
    /\ \A h \in Handlers :
         handler[h].pc \in {"idle", "asks", "stores", "exchange", "keysAsk", "keysStore"}

Init ==
    /\ now = 0
    /\ provider \in [uri : {1}, key : {1}, names : BOOLEAN]
    /\ published = [u \in URIs |-> IF u = 1 THEN {1} ELSE {}]
    /\ gone = [u \in URIs |-> [k \in Keys |-> NoTime]]
    /\ redeemed = {}
    /\ started = <<>>
    /\ jar = 0
    /\ discovered = NoDocument
    /\ keys = NoKeys
    /\ handler = [h \in Handlers |-> Idle]
    /\ calls = 0
    /\ spent = {}
    /\ ended = {}

-----------------------------------------------------------------------------
(* The clock and the provider. *)

Tick ==
    /\ now < MaxTime
    /\ now' = now + 1
    /\ UNCHANGED <<provider, published, gone, redeemed, browserVars, discovered, keys, handler, calls>>

\* What published becomes; a token signed with what went from its place has lost its key.
Publishes(set) ==
    LET went(u) == published[u] \ set[u]
    IN  /\ published' = set
        /\ gone' = [u \in URIs |-> [k \in Keys |-> IF k \in went(u) THEN now ELSE gone[u][k]]]
        /\ handler' = [h \in Handlers |->
             IF handler[h].uri # 0 /\ handler[h].key \in went(handler[h].uri)
               THEN [handler[h] EXCEPT !.lost = TRUE] ELSE handler[h]]
        /\ UNCHANGED <<now, redeemed, browserVars, discovered, keys, calls>>

\* The provider signs with the next key; the last one may stay in the set for a while.
Rotate ==
    /\ provider.key < MaxKey
    /\ provider' = [provider EXCEPT !.key = @ + 1]
    /\ \E set \in {{provider.key + 1}, {provider.key, provider.key + 1}} :
         Publishes([published EXCEPT ![provider.uri] = set])

\* The provider publishes its keys elsewhere, and nothing any more where they were.
Move ==
    /\ provider.uri = 1
    /\ provider' = [provider EXCEPT !.uri = 2]
    /\ Publishes([u \in URIs |-> IF u = 1 THEN {} ELSE published[1]])

-----------------------------------------------------------------------------
At(h, pc) == handler[h].pc = pc
To(h, r) == handler' = [handler EXCEPT ![h] = r]
OnlyHandler == UNCHANGED <<providerVars, redeemed, browserVars, discovered, keys, calls>>
Arrives(h) == At(h, "idle") /\ calls < MaxCalls /\ calls' = calls + 1

\* Mutant: a callback that fails leaves the browser its handshake.
KeptOnFailure(ok) == IF ok THEN 0 ELSE jar

\* oidcCallback clears the cookie whatever happens; the browser hears of it with the answer.
Cleared(ok) == 0

\* The answer of a callback: the cookie it came with is spent.
Answers(cookie, end) ==
    /\ jar' = Cleared(end = {"session"})
    /\ spent' = spent \cup {cookie}
    /\ UNCHANGED started

Ending(r, how) == [handshake |-> r.handshake, again |-> r.again, at |-> r.at, uri |-> r.uri,
                   key |-> r.key, lost |-> r.lost, how |-> how]

\* The handler is done with a callback; those that held a token are remembered.
Fails(h) ==
    /\ To(h, Idle)
    /\ Answers(handler[h].handshake, {})
    /\ UNCHANGED <<providerVars, redeemed, ended, discovered, keys, calls>>

\* openTransient: the window counts by the cookie's own account of it.
Opens(cookie) == cookie # 0 /\ now < started[cookie]

\* Discover: the held document, or the far end is asked.
HeldDocument == discovered.uri # 0 /\ now - discovered.at < DiscoveryTTL

\* A start that has its document redirects the browser, with the cookie set.
Redirects(at) ==
    /\ Len(started) < MaxHandshakes
    /\ started' = Append(started, at + HandshakeWindow)
    /\ jar' = Len(started) + 1
    /\ UNCHANGED <<spent, ended>>

StartArrives(h) ==
    /\ Arrives(h)
    /\ IF HeldDocument THEN Redirects(now) /\ UNCHANGED handler
                       ELSE To(h, [Idle EXCEPT !.pc = "asks", !.at = now]) /\ UNCHANGED browserVars
    /\ UNCHANGED <<providerVars, redeemed, discovered, keys>>

\* Callback: i is the sign-in whose code and state came back, which any tab of the browser may
\* send again; a cookie that is missing, stale or another sign-in's ends it.
CallbackArrives(h, i) ==
    /\ Arrives(h)
    /\ IF Opens(jar) /\ jar = i
         THEN /\ To(h, [Idle EXCEPT !.pc = IF HeldDocument THEN "exchange" ELSE "asks", !.at = now,
                          !.uri = IF HeldDocument THEN discovered.uri ELSE 0,
                          !.handshake = i, !.again = i \in spent])
              /\ UNCHANGED browserVars
         ELSE Answers(jar, {}) /\ UNCHANGED <<handler, ended>>
    /\ UNCHANGED <<providerVars, redeemed, discovered, keys>>

\* The user cancels at the provider: an error comes back instead of a code.
CallbackRefused(h) ==
    /\ Arrives(h)
    /\ jar # 0
    /\ Answers(jar, {})
    /\ UNCHANGED <<handler, ended, providerVars, redeemed, discovered, keys>>

-----------------------------------------------------------------------------
\* The document as it is when the provider answers.
DiscoverAnswered(h) ==
    /\ At(h, "asks")
    /\ To(h, [handler[h] EXCEPT !.pc = "stores", !.uri = provider.uri])
    /\ OnlyHandler

\* The provider is not reached, or CheckDiscovery refuses what it says.
DiscoverFails(h) ==
    /\ At(h, "asks")
    /\ IF handler[h].handshake = 0 THEN To(h, Idle) /\ OnlyHandler ELSE Fails(h)

\* The document is stored with the clock from before it was asked for.
DiscoverStores(h) ==
    /\ At(h, "stores")
    /\ discovered' = [uri |-> handler[h].uri, at |-> handler[h].at]
    /\ IF handler[h].handshake = 0
         THEN Redirects(handler[h].at) /\ To(h, Idle)
         ELSE To(h, [handler[h] EXCEPT !.pc = "exchange"]) /\ UNCHANGED browserVars
    /\ UNCHANGED <<providerVars, redeemed, keys, calls>>

-----------------------------------------------------------------------------
\* matching: the key a token names, or every key when it names none.
Candidates(r) == IF provider.names THEN r.held \cap {r.key} ELSE r.held

\* VerifyIDToken, UsernameFrom and Accept: the signature and the clock decide, and then whether
\* there is a name in the claims and the method is still live.
Judges(h, r) ==
    /\ \E how \in IF r.key \notin Candidates(r) THEN {"key"}
                  ELSE IF r.iat > r.at + Skew THEN {"clock"}
                  ELSE {"session", "identity", "unavailable"} :
         /\ ended' = ended \cup {Ending(r, how)}
         /\ Answers(r.handshake, {how})
    /\ To(h, Idle)

\* Mutant: a set that lacks the key settles it.
VerifiesOnce(h, r) == Judges(h, r)

\* verify: a set that lacks the key is asked for once more.
Verifies(h, r) ==
    IF Candidates(r) = {} /\ ~r.forced
      THEN To(h, [r EXCEPT !.pc = "keysAsk", !.forced = TRUE, !.held = {}]) /\ UNCHANGED browserVars
      ELSE Judges(h, r)

\* jwks: what is held is of the document's place, young, and something.
Fresh(r) == keys.held # {} /\ r.at - keys.at < DiscoveryTTL /\ keys.uri = r.uri

\* exchange: the code is good once, and a replica may still sign with a key of before; the token
\* is judged by the held keys, or they are asked for.
Exchange(h) ==
    /\ At(h, "exchange")
    /\ handler[h].handshake \notin redeemed
    /\ redeemed' = redeemed \cup {handler[h].handshake}
    /\ \E k \in 1..provider.key :
         LET r == [handler[h] EXCEPT !.key = k, !.iat = now, !.lost = k \notin published[handler[h].uri]]
         IN  IF Fresh(r) THEN Verifies(h, [r EXCEPT !.held = keys.held])
                         ELSE To(h, [r EXCEPT !.pc = "keysAsk"]) /\ UNCHANGED browserVars
    /\ UNCHANGED <<providerVars, discovered, keys, calls>>

\* It fails: the provider is not reached, does not answer, or has redeemed the code before.
ExchangeFails(h) == At(h, "exchange") /\ Fails(h)

KeysAnswered(h) ==
    /\ At(h, "keysAsk")
    /\ published[handler[h].uri] # {}
    /\ To(h, [handler[h] EXCEPT !.pc = "keysStore", !.held = published[handler[h].uri]])
    /\ OnlyHandler

\* The set is not read, or nothing in it is usable.
KeysFail(h) == At(h, "keysAsk") /\ Fails(h)

\* Mutant: a key set is dated by the clock at which it is stored.
DatedNow(h) == now

\* The clock the callback began with, which is before the keys were asked for.
Dated(h) == handler[h].at

\* The set is stored, whoever stored one meanwhile; the token is judged by this one.
KeysStore(h) ==
    /\ At(h, "keysStore")
    /\ keys' = [held |-> handler[h].held, uri |-> handler[h].uri, at |-> Dated(h)]
    /\ Verifies(h, handler[h])
    /\ UNCHANGED <<providerVars, redeemed, discovered, calls>>

HandlerStep(h) ==
    \/ StartArrives(h) \/ CallbackRefused(h)
    \/ \E i \in DOMAIN started : CallbackArrives(h, i)
    \/ DiscoverAnswered(h) \/ DiscoverFails(h) \/ DiscoverStores(h)
    \/ Exchange(h) \/ ExchangeFails(h)
    \/ KeysAnswered(h) \/ KeysFail(h) \/ KeysStore(h)

Next == (\E h \in Handlers : HandlerStep(h)) \/ Tick \/ Rotate \/ Move

Spec == Init /\ [][Next]_vars

-----------------------------------------------------------------------------
\* A token is judged by keys the provider published, where the document of this sign-in says they
\* are, no longer than DiscoveryTTL before the callback came: whoever refilled the cache, in
\* whatever order, and however long the requests took (oidc.go:523-555).
KeysAreTheProviders ==
    \A e \in ended : e.how = "session" =>
        e.key \in published[e.uri] \/ gone[e.uri][e.key] > e.at - DiscoveryTTL

\* A rotation locks nobody out: a token that names its key is not refused for it, unless that key
\* was not where the document says at some moment of this callback - whichever set the cache held
\* and whoever stored an older one over it (oidc.go:499-520).
RotationLocksNobodyOut ==
    provider.names => \A e \in ended : e.how = "key" => e.lost

\* A session comes from a handshake less than HandshakeWindow old, and not from one whose callback
\* was answered before: an answer that failed took the handshake with it, though several tabs
\* share the cookie and a callback may be sent twice (auth.go:171, oidc.go:409-437).
HandshakeIsSpent ==
    \A e \in ended : e.how = "session" => ~e.again /\ e.at < started[e.handshake]
=============================================================================
