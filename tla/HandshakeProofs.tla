--------------------------- MODULE HandshakeProofs ---------------------------
(***************************************************************************)
(* Theorems about the handshake: any number of callbacks and starts at     *)
(* once, any rotations and any lateness of the answers.  What a callback   *)
(* relies on is carried by its own record (Sound): its handshake was not   *)
(* answered before, the keys it holds were published when it began or      *)
(* later, and if its token's key is not among them then it was withdrawn   *)
(* while the callback was on its way.                                      *)
(***************************************************************************)
EXTENDS Handshake, TLAPS

-----------------------------------------------------------------------------
(* The inductive invariant. *)

Request == [pc : {"idle", "asks", "stores", "exchange", "keysAsk", "keysStore"},
            handshake : Nat, again : BOOLEAN, at : Nat, uri : URIs \cup {0}, key : Nat,
            iat : Nat, forced : BOOLEAN, held : SUBSET Keys, lost : BOOLEAN]

End == [handshake : Nat, again : BOOLEAN, at : Nat, uri : URIs \cup {0}, key : Nat,
        lost : BOOLEAN, how : {"key", "clock", "session", "identity", "unavailable"}]

TypeInv ==
    /\ now \in Nat
    /\ provider \in [uri : URIs, key : Keys, names : BOOLEAN]
    /\ published \in [URIs -> SUBSET Keys]
    /\ gone \in [URIs -> [Keys -> Int]]
    /\ started \in Seq(Nat)
    /\ jar \in 0..Len(started)
    /\ spent \subseteq 0..Len(started)
    /\ discovered \in [uri : URIs \cup {0}, at : Int]
    /\ keys \in [held : SUBSET Keys, uri : URIs \cup {0}, at : Int]
    /\ handler \in [Handlers -> Request]
    /\ ended \in SUBSET End

\* The key is in the set of that place, or was withdrawn from it no earlier than t.
GoodSince(u, k, t) == k \in published[u] \/ gone[u][k] >= t

\* A handshake that began before the cookie's expiry and was not answered before.
Fits(e) ==
    e.again = FALSE /\ e.handshake \in 1..Len(started) /\ e.at < started[e.handshake]

\* The browser's cookie is of a handshake that no callback answered.
CookieInv == jar # 0 => jar \notin spent

\* What is cached was published at the time it is dated by, which is past.
CacheInv ==
    /\ keys.at <= now
    /\ keys.held # {} => keys.uri \in URIs
    /\ \A k \in keys.held : GoodSince(keys.uri, k, keys.at)

\* What the record of a request under way says is so.
Sound(r) ==
    /\ r.at <= now
    /\ r.pc # "idle" /\ r.handshake # 0 => Fits(r)
    /\ r.pc = "stores" => r.uri \in URIs
    /\ r.pc \in {"exchange", "keysAsk", "keysStore"} => r.uri \in URIs /\ r.handshake # 0
    /\ r.pc \in {"asks", "stores", "exchange"} => r.forced = FALSE
    /\ r.pc \in {"keysAsk", "keysStore"} =>
          r.key \in Keys /\ (r.lost = TRUE \/ r.key \in published[r.uri])
    /\ r.pc = "keysStore" =>
          /\ \A k \in r.held : GoodSince(r.uri, k, r.at)
          /\ r.lost = TRUE \/ r.key \in r.held

RequestInv == \A h \in Handlers : Sound(handler[h])

\* How a callback ended agrees with the keys there were.
Closed(e) ==
    /\ e.how = "session" =>
          /\ e.at <= now /\ e.uri \in URIs /\ e.key \in Keys /\ Fits(e)
          /\ GoodSince(e.uri, e.key, e.at - DiscoveryTTL + 1)
    /\ e.how = "key" /\ provider.names = TRUE => e.lost = TRUE

EndedInv == \A e \in ended : Closed(e)

HandshakeInv == TypeInv /\ CookieInv /\ CacheInv /\ RequestInv /\ EndedInv

-----------------------------------------------------------------------------
(* The initial states, the clock and the provider. *)

LEMMA InitHandshake == Init => HandshakeInv
<1> SUFFICES ASSUME Init PROVE HandshakeInv
    OBVIOUS
<1>1. 1 \in Keys
      BY HandshakeAssumption DEF Keys
<1>2. TypeInv
  <2>1. Idle \in Request
        BY DEF Idle, Request
  <2>2. /\ provider \in [uri : URIs, key : Keys, names : BOOLEAN]
        /\ published \in [URIs -> SUBSET Keys]
        /\ gone \in [URIs -> [Keys -> Int]]
        BY <1>1 DEF Init, URIs, NoTime
  <2> QED BY <2>1, <2>2 DEF Init, TypeInv, NoDocument, NoKeys, NoTime
<1>3. CookieInv /\ EndedInv
      BY DEF Init, CookieInv, EndedInv
<1>4. CacheInv
      BY DEF Init, CacheInv, NoKeys, NoTime
<1>5. RequestInv
  <2>1. ASSUME NEW h \in Handlers PROVE Sound(handler[h])
    <3>1. handler[h] = Idle /\ now = 0
          BY DEF Init
    <3> QED BY <3>1 DEF Sound, Idle
  <2> QED BY <2>1 DEF RequestInv
<1> QED BY <1>2, <1>3, <1>4, <1>5 DEF HandshakeInv

LEMMA TickHandshake == ASSUME HandshakeInv, Tick PROVE HandshakeInv'
<1>1. now' \in Nat /\ now' >= now
      BY DEF HandshakeInv, TypeInv, Tick
<1>2. UNCHANGED <<provider, published, gone, started, jar, spent, ended, discovered, keys, handler>>
      BY DEF Tick, browserVars
<1>3. TypeInv' /\ CookieInv'
      BY <1>1, <1>2 DEF HandshakeInv, TypeInv, CookieInv
<1>4. CacheInv'
      BY <1>1, <1>2 DEF HandshakeInv, TypeInv, CacheInv, GoodSince
<1>5. RequestInv'
  <2>1. ASSUME NEW h \in Handlers PROVE Sound(handler[h])'
    <3>1. handler[h] \in Request /\ now \in Nat /\ Sound(handler[h])
          BY DEF HandshakeInv, TypeInv, RequestInv
    <3> QED BY <1>1, <1>2, <3>1 DEF Sound, Fits, GoodSince, Request
  <2> QED BY <2>1 DEF RequestInv
<1>6. EndedInv'
  <2>1. ASSUME NEW e \in ended PROVE Closed(e)'
    <3>1. e.at \in Nat /\ now \in Nat /\ Closed(e)
          BY DEF HandshakeInv, TypeInv, EndedInv, End
    <3> QED BY <1>1, <1>2, <3>1 DEF Closed, Fits, GoodSince
  <2> QED BY <1>2, <2>1 DEF EndedInv
<1> QED BY <1>3, <1>4, <1>5, <1>6 DEF HandshakeInv

\* Whatever the provider puts in its sets, a callback under way hears of the key it lost.
LEMMA PublishesHandshake ==
    ASSUME HandshakeInv, NEW set \in [URIs -> SUBSET Keys], Publishes(set),
           provider' \in [uri : URIs, key : Keys, names : BOOLEAN],
           provider'.names = provider.names
    PROVE  HandshakeInv'
<1>1. /\ published' = set
      /\ gone' = [u \in URIs |-> [k \in Keys |->
                    IF k \in published[u] \ set[u] THEN now ELSE gone[u][k]]]
      /\ handler' = [h \in Handlers |->
             IF handler[h].uri # 0 /\ handler[h].key \in published[handler[h].uri] \ set[handler[h].uri]
               THEN [handler[h] EXCEPT !.lost = TRUE] ELSE handler[h]]
      /\ UNCHANGED <<now, started, jar, spent, ended, discovered, keys>>
      BY DEF Publishes, browserVars
<1>2. TypeInv
      BY DEF HandshakeInv
<1>3. TypeInv'
  <2>1. ASSUME NEW h \in Handlers PROVE [handler[h] EXCEPT !.lost = TRUE] \in Request
    <3> DEFINE r == handler[h]
    <3>1. r \in Request
          BY <1>2 DEF TypeInv
    <3> HIDE DEF r
    <3>2. [r EXCEPT !.lost = TRUE] \in Request
          BY <3>1 DEF Request
    <3> QED BY <3>2 DEF r
  <2>2. handler' \in [Handlers -> Request]
    <3> DEFINE after(h) == IF handler[h].uri # 0 /\ handler[h].key \in published[handler[h].uri] \ set[handler[h].uri]
                             THEN [handler[h] EXCEPT !.lost = TRUE] ELSE handler[h]
    <3>1. \A h \in Handlers : after(h) \in Request
          BY <1>2, <2>1 DEF TypeInv
    <3>2. handler' = [h \in Handlers |-> after(h)]
          BY <1>1
    <3> HIDE DEF after
    <3> QED BY <3>1, <3>2
  <2>3. gone' \in [URIs -> [Keys -> Int]]
        BY <1>1, <1>2 DEF TypeInv
  <2> QED BY <1>1, <1>2, <2>2, <2>3 DEF TypeInv
<1>4. CookieInv'
      BY <1>1 DEF HandshakeInv, CookieInv
<1>5. CacheInv'
  <2>1. ASSUME NEW k \in keys.held PROVE GoodSince(keys.uri, k, keys.at)'
    <3>1. /\ k \in Keys /\ keys.uri \in URIs /\ keys.at \in Int /\ keys.at <= now
          /\ GoodSince(keys.uri, k, keys.at)
          BY <1>2 DEF HandshakeInv, TypeInv, CacheInv
    <3>2. GoodSince(keys.uri, k, keys.at)' = (k \in published'[keys.uri] \/ gone'[keys.uri][k] >= keys.at)
          BY <1>1 DEF GoodSince
    <3> QED BY <1>1, <1>2, <3>1, <3>2 DEF GoodSince, TypeInv
  <2> QED BY <1>1, <2>1 DEF HandshakeInv, CacheInv
<1>6. RequestInv'
  <2>1. ASSUME NEW h \in Handlers PROVE Sound(handler[h])'
    <3> DEFINE r == handler[h]
               went == published[r.uri] \ set[r.uri]
    <3>1. r \in Request /\ Sound(r)
          BY <1>2 DEF HandshakeInv, TypeInv, RequestInv
    <3>2. /\ handler'[h] \in Request
          /\ handler'[h].pc = r.pc /\ handler'[h].handshake = r.handshake
          /\ handler'[h].again = r.again /\ handler'[h].at = r.at /\ handler'[h].uri = r.uri
          /\ handler'[h].key = r.key /\ handler'[h].forced = r.forced /\ handler'[h].held = r.held
          /\ handler'[h].lost = (r.lost \/ (r.uri # 0 /\ r.key \in went))
          BY <1>1, <3>1 DEF Request
    <3>3. r.pc \in {"keysAsk", "keysStore"} =>
              handler'[h].lost \/ r.key \in published'[r.uri]
          BY <1>1, <3>1, <3>2 DEF Sound, Request, URIs
    <3>4. ASSUME r.pc = "keysStore", NEW k \in r.held
          PROVE  k \in published'[r.uri] \/ gone'[r.uri][k] >= r.at
      <4>1. /\ k \in Keys /\ r.uri \in URIs /\ r.at \in Nat /\ r.at <= now
            /\ GoodSince(r.uri, k, r.at)
            BY <3>1, <3>4 DEF Sound, Request
      <4> QED BY <1>1, <1>2, <4>1 DEF GoodSince, TypeInv
    <3> HIDE DEF r, went
    <3> QED BY <1>1, <3>1, <3>2, <3>3, <3>4 DEF Sound, Fits, GoodSince
  <2> QED BY <2>1 DEF RequestInv
<1>7. EndedInv'
  <2>1. ASSUME NEW e \in ended PROVE Closed(e)'
    <3>1. e \in End /\ Closed(e)
          BY <1>2 DEF HandshakeInv, TypeInv, EndedInv
    <3>2. ASSUME e.how = "session"
          PROVE  \/ e.key \in published'[e.uri]
                 \/ gone'[e.uri][e.key] >= e.at - DiscoveryTTL + 1
      <4>1. /\ e.key \in Keys /\ e.uri \in URIs /\ e.at \in Nat /\ e.at <= now
            /\ GoodSince(e.uri, e.key, e.at - DiscoveryTTL + 1)
            BY <3>1, <3>2 DEF Closed, End
      <4>2. gone'[e.uri][e.key] = IF e.key \in published[e.uri] \ set[e.uri]
                                  THEN now ELSE gone[e.uri][e.key]
            BY <1>1, <4>1
      <4>3. e.at - DiscoveryTTL + 1 <= now
            BY <1>2, <4>1, HandshakeAssumption DEF TypeInv
      <4> QED BY <1>1, <4>1, <4>2, <4>3 DEF GoodSince
    <3> QED BY <1>1, <3>1, <3>2 DEF Closed, Fits, GoodSince
  <2> QED BY <1>1, <2>1 DEF EndedInv
<1> QED BY <1>3, <1>4, <1>5, <1>6, <1>7 DEF HandshakeInv

-----------------------------------------------------------------------------
(* What every step of a handler has in common. *)

\* The provider is as it was, and started has grown by at most one cookie.
Quiet ==
    /\ UNCHANGED <<now, provider, published, gone>>
    /\ Len(started) <= Len(started')
    /\ \A i \in 1..Len(started) : started'[i] = started[i]

\* The browser's part of a step: another cookie, none, or the one it had.
BrowserMoves ==
    /\ started' \in Seq(Nat)
    /\ Len(started) <= Len(started')
    /\ \A i \in 1..Len(started) : started'[i] = started[i]
    /\ jar' \in 0..Len(started')
    /\ spent' \subseteq 0..Len(started')
    /\ CookieInv'

LEMMA BrowserRests ==
    ASSUME HandshakeInv, UNCHANGED <<started, jar, spent>>
    PROVE  BrowserMoves
BY DEF HandshakeInv, TypeInv, CookieInv, BrowserMoves

\* A new cookie is of a handshake that nobody answered yet.
LEMMA BrowserIsSent ==
    ASSUME HandshakeInv, NEW at \in Nat, Redirects(at)
    PROVE  BrowserMoves
<1>1. /\ started \in Seq(Nat) /\ Len(started) \in Nat
      /\ spent \subseteq 0..Len(started)
      BY DEF HandshakeInv, TypeInv
<1>2. at + HandshakeWindow \in Nat
      BY HandshakeAssumption
<1>3. /\ started' = Append(started, at + HandshakeWindow)
      /\ jar' = Len(started) + 1
      /\ spent' = spent
      BY DEF Redirects
<1>4. /\ started' \in Seq(Nat) /\ Len(started') = Len(started) + 1
      /\ \A i \in 1..Len(started) : started'[i] = started[i]
      BY <1>1, <1>2, <1>3
<1>5. CookieInv'
      BY <1>1, <1>3 DEF CookieInv
<1> QED BY <1>1, <1>3, <1>4, <1>5 DEF BrowserMoves

\* An answer takes the cookie away.
LEMMA BrowserIsAnswered ==
    ASSUME HandshakeInv, NEW c \in 0..Len(started), NEW end, Answers(c, end)
    PROVE  BrowserMoves
<1>1. jar' = 0 /\ spent' = spent \cup {c} /\ started' = started
      BY DEF Answers, Cleared
<1>2. /\ started \in Seq(Nat) /\ Len(started) \in Nat
      /\ spent \subseteq 0..Len(started)
      BY DEF HandshakeInv, TypeInv
<1> QED BY <1>1, <1>2 DEF BrowserMoves, CookieInv

\* What fitted when nothing but a cookie was added, fits.
LEMMA FitsStays ==
    ASSUME HandshakeInv, Quiet, NEW e, Fits(e)
    PROVE  Fits(e)'
<1>1. Len(started) \in Nat
      BY DEF HandshakeInv, TypeInv
<1> QED BY <1>1 DEF Fits, Quiet

LEMMA OthersStaySound ==
    ASSUME HandshakeInv, Quiet, NEW h \in Handlers, Sound(handler[h])',
           \A g \in Handlers \ {h} : handler'[g] = handler[g]
    PROVE  RequestInv'
<1>1. ASSUME NEW g \in Handlers \ {h} PROVE Sound(handler[g])'
  <2>1. Sound(handler[g]) /\ handler'[g] = handler[g]
        BY DEF HandshakeInv, RequestInv
  <2>2. Len(started) \in Nat /\ Len(started) <= Len(started')
        BY DEF HandshakeInv, TypeInv, Quiet
  <2>3. /\ now' = now /\ published' = published /\ gone' = gone
        /\ \A i \in 1..Len(started) : started'[i] = started[i]
        BY DEF Quiet
  <2>4. Fits(handler[g]) => Fits(handler[g])'
        BY <2>1, <2>2, <2>3 DEF Fits
  <2> QED BY <2>1, <2>3, <2>4 DEF Sound, GoodSince
<1> QED BY <1>1 DEF RequestInv

LEMMA EndsStayClosed ==
    ASSUME HandshakeInv, Quiet, NEW e \in ended
    PROVE  Closed(e)'
<1>1. Closed(e)
      BY DEF HandshakeInv, EndedInv
<1>2. Fits(e) => Fits(e)'
      BY FitsStays
<1> QED BY <1>1, <1>2 DEF Closed, GoodSince, Quiet

LEMMA CacheStays ==
    ASSUME HandshakeInv, Quiet, keys' = keys
    PROVE  CacheInv'
BY DEF HandshakeInv, CacheInv, GoodSince, Quiet

\* A step is good if the handler's own record is sound after it and what it stores is true.
LEMMA HandlerKeeps ==
    ASSUME HandshakeInv, UNCHANGED providerVars, BrowserMoves, NEW h \in Handlers,
           handler' \in [Handlers -> Request], Sound(handler[h])',
           \A g \in Handlers \ {h} : handler'[g] = handler[g],
           discovered' \in [uri : URIs \cup {0}, at : Int],
           keys' \in [held : SUBSET Keys, uri : URIs \cup {0}, at : Int],
           keys' = keys \/ CacheInv',
           \A e \in ended' : e \in ended \/ (e \in End /\ Closed(e)')
    PROVE  HandshakeInv'
<1>1. Quiet
      BY DEF Quiet, BrowserMoves, providerVars
<1>2. RequestInv' /\ CacheInv' /\ EndedInv' /\ CookieInv'
      BY <1>1, OthersStaySound, CacheStays, EndsStayClosed DEF EndedInv, BrowserMoves
<1>3. TypeInv'
      BY DEF HandshakeInv, TypeInv, BrowserMoves, providerVars
<1> QED BY <1>2, <1>3 DEF HandshakeInv

LEMMA MovesTo ==
    ASSUME HandshakeInv, NEW h \in Handlers, NEW r \in Request, To(h, r)
    PROVE  /\ handler' \in [Handlers -> Request]
           /\ handler'[h] = r
           /\ \A g \in Handlers \ {h} : handler'[g] = handler[g]
<1>1. handler \in [Handlers -> Request]
      BY DEF HandshakeInv, TypeInv
<1> QED BY <1>1 DEF To

\* A handler that is done claims nothing.
LEMMA RestIsSound ==
    ASSUME HandshakeInv, NEW h \in Handlers, To(h, Idle), UNCHANGED providerVars
    PROVE  /\ handler' \in [Handlers -> Request]
           /\ \A g \in Handlers \ {h} : handler'[g] = handler[g]
           /\ Sound(handler[h])'
<1>1. Idle \in Request
      BY DEF Idle, Request
<1>2. handler'[h] = Idle /\ now' = now /\ now \in Nat
      BY <1>1, MovesTo DEF HandshakeInv, TypeInv, providerVars
<1>3. Sound(handler[h])'
      BY <1>2 DEF Sound, Idle
<1> QED BY <1>1, <1>3, MovesTo

\* What a step reads has its type.
LEMMA Reads ==
    ASSUME HandshakeInv, NEW h \in Handlers
    PROVE  /\ now \in Nat
           /\ handler \in [Handlers -> Request] /\ handler[h] \in Request /\ Sound(handler[h])
           /\ provider \in [uri : URIs, key : Keys, names : BOOLEAN]
           /\ published \in [URIs -> SUBSET Keys]
           /\ started \in Seq(Nat) /\ Len(started) \in Nat
           /\ jar \in 0..Len(started)
           /\ discovered \in [uri : URIs \cup {0}, at : Int]
           /\ keys \in [held : SUBSET Keys, uri : URIs \cup {0}, at : Int]
BY DEF HandshakeInv, TypeInv, RequestInv

-----------------------------------------------------------------------------
(* The steps of a start and of a callback. *)

LEMMA FailsHandshake ==
    ASSUME HandshakeInv, NEW h \in Handlers, Fails(h), handler[h].pc # "idle"
    PROVE  HandshakeInv'
<1>1. /\ To(h, Idle) /\ UNCHANGED <<providerVars, ended, discovered, keys>>
      /\ Answers(handler[h].handshake, {})
      BY DEF Fails
<1>2. handler[h].handshake \in 0..Len(started)
  <2>1. Sound(handler[h]) /\ Len(started) \in Nat
        BY Reads
  <2>2. handler[h].handshake = 0 \/ handler[h].handshake \in 1..Len(started)
        BY <2>1 DEF Sound, Fits
  <2> QED BY <2>1, <2>2
<1>3. BrowserMoves
      BY <1>1, <1>2, BrowserIsAnswered
<1> QED BY <1>1, <1>3, HandlerKeeps, RestIsSound, Reads

LEMMA StartHandshake ==
    ASSUME HandshakeInv, NEW h \in Handlers, StartArrives(h)
    PROVE  HandshakeInv'
<1>1. UNCHANGED <<providerVars, discovered, keys>>
      BY DEF StartArrives
<1>2. CASE HeldDocument
  <2>1. handler' = handler /\ Redirects(now)
        BY <1>2 DEF StartArrives
  <2>2. BrowserMoves /\ ended' = ended
        BY <2>1, BrowserIsSent, Reads DEF Redirects
  <2>3. Sound(handler[h])'
    <3>1. Quiet
          BY <1>1, <2>2 DEF Quiet, BrowserMoves, providerVars
    <3>2. Fits(handler[h]) => Fits(handler[h])'
      <4>1. PICK r : r = handler[h]
            OBVIOUS
      <4>2. r = handler'[h]
            BY <2>1, <4>1
      <4>3. Fits(r) => Fits(r)'
            BY <3>1, FitsStays
      <4> QED BY <4>1, <4>2, <4>3 DEF Fits
    <3> QED BY <1>1, <2>1, <3>2, Reads DEF Sound, GoodSince, providerVars
  <2> QED BY <1>1, <2>1, <2>2, <2>3, HandlerKeeps, Reads
<1>3. CASE ~HeldDocument
  <2> DEFINE r == [Idle EXCEPT !.pc = "asks", !.at = now]
  <2>1. To(h, r) /\ UNCHANGED browserVars
        BY <1>3 DEF StartArrives
  <2>2. r \in Request /\ r.pc = "asks" /\ r.at = now /\ r.handshake = 0 /\ r.forced = FALSE
        BY Reads DEF Idle, Request
  <2> HIDE DEF r
  <2>3. /\ handler' \in [Handlers -> Request] /\ handler'[h] = r
        /\ \A g \in Handlers \ {h} : handler'[g] = handler[g]
        BY <2>1, <2>2, MovesTo
  <2>4. Sound(handler[h])'
    <3>1. now' = now /\ now \in Nat
          BY <1>1, Reads DEF providerVars
    <3> QED BY <2>2, <2>3, <3>1 DEF Sound
  <2>5. BrowserMoves /\ ended' = ended
        BY <2>1, BrowserRests DEF browserVars
  <2> QED BY <1>1, <2>3, <2>4, <2>5, HandlerKeeps, Reads
<1> QED BY <1>2, <1>3

\* The cookie that opens is of a handshake that fits, because nobody answered it.
LEMMA CallbackHandshake ==
    ASSUME HandshakeInv, NEW h \in Handlers, NEW i \in DOMAIN started, CallbackArrives(h, i)
    PROVE  HandshakeInv'
<1>1. UNCHANGED <<providerVars, discovered, keys>>
      BY DEF CallbackArrives
<1>2. CASE Opens(jar) /\ jar = i
  <2> DEFINE r == [Idle EXCEPT !.pc = IF HeldDocument THEN "exchange" ELSE "asks", !.at = now,
                          !.uri = IF HeldDocument THEN discovered.uri ELSE 0,
                          !.handshake = i, !.again = i \in spent]
  <2>1. To(h, r) /\ UNCHANGED browserVars
        BY <1>2 DEF CallbackArrives
  <2>2. i \in 1..Len(started) /\ i \in Nat /\ now < started[i]
        BY <1>2, Reads DEF Opens
  <2>3. (i \in spent) = FALSE
        BY <1>2 DEF HandshakeInv, CookieInv, Opens
  <2>4. /\ r \in Request /\ r.pc \in {"exchange", "asks"} /\ r.at = now /\ r.handshake = i
        /\ r.forced = FALSE /\ r.again = FALSE
        /\ r.pc = "exchange" => r.uri \in URIs
        BY <2>2, <2>3, Reads DEF Idle, Request, HeldDocument
  <2> HIDE DEF r
  <2>5. /\ handler' \in [Handlers -> Request] /\ handler'[h] = r
        /\ \A g \in Handlers \ {h} : handler'[g] = handler[g]
        BY <2>1, <2>4, MovesTo
  <2>6. Sound(handler[h])'
    <3>1. now' = now /\ now \in Nat /\ started' = started
          BY <1>1, <2>1, Reads DEF providerVars, browserVars
    <3>2. Fits(handler[h])'
          BY <2>2, <2>4, <2>5, <3>1 DEF Fits
    <3>3. i # 0
          BY <2>2
    <3> QED BY <2>4, <2>5, <3>1, <3>2, <3>3 DEF Sound
  <2>7. BrowserMoves /\ ended' = ended
        BY <2>1, BrowserRests DEF browserVars
  <2> QED BY <1>1, <2>5, <2>6, <2>7, HandlerKeeps, Reads
<1>3. CASE ~(Opens(jar) /\ jar = i)
  <2>1. Answers(jar, {}) /\ UNCHANGED <<handler, ended>>
        BY <1>3 DEF CallbackArrives
  <2>2. BrowserMoves /\ started' = started
        BY <2>1, BrowserIsAnswered, Reads DEF Answers
  <2>3. Sound(handler[h])'
        BY <1>1, <2>1, <2>2, Reads DEF Sound, Fits, GoodSince, providerVars
  <2> QED BY <1>1, <2>1, <2>2, <2>3, HandlerKeeps, Reads
<1> QED BY <1>2, <1>3

LEMMA RefusedHandshake ==
    ASSUME HandshakeInv, NEW h \in Handlers, CallbackRefused(h)
    PROVE  HandshakeInv'
<1>1. Answers(jar, {}) /\ UNCHANGED <<handler, ended, providerVars, discovered, keys>>
      BY DEF CallbackRefused
<1>2. BrowserMoves /\ started' = started
      BY <1>1, BrowserIsAnswered, Reads DEF Answers
<1>3. Sound(handler[h])'
      BY <1>1, <1>2, Reads DEF Sound, Fits, GoodSince, providerVars
<1> QED BY <1>1, <1>2, <1>3, HandlerKeeps, Reads

\* A step that only moves a handler on.
LEMMA MovedOn ==
    ASSUME HandshakeInv, NEW h \in Handlers, OnlyHandler,
           handler' \in [Handlers -> Request], Sound(handler[h])',
           \A g \in Handlers \ {h} : handler'[g] = handler[g]
    PROVE  HandshakeInv'
<1>1. UNCHANGED providerVars /\ keys' = keys /\ discovered' = discovered
      BY DEF OnlyHandler
<1>2. BrowserMoves /\ ended' = ended
      BY BrowserRests DEF OnlyHandler, browserVars
<1> QED BY <1>1, <1>2, HandlerKeeps, Reads

LEMMA DiscoverAnsweredHandshake ==
    ASSUME HandshakeInv, NEW h \in Handlers, DiscoverAnswered(h)
    PROVE  HandshakeInv'
<1> DEFINE r == [handler[h] EXCEPT !.pc = "stores", !.uri = provider.uri]
<1>1. At(h, "asks") /\ To(h, r) /\ OnlyHandler
      BY DEF DiscoverAnswered
<1>2. /\ r \in Request /\ r.pc = "stores" /\ r.uri \in URIs
      /\ r.at = handler[h].at /\ r.handshake = handler[h].handshake
      /\ r.again = handler[h].again /\ r.forced = handler[h].forced
      BY Reads DEF Request
<1> HIDE DEF r
<1>3. /\ handler' \in [Handlers -> Request] /\ handler'[h] = r
      /\ \A g \in Handlers \ {h} : handler'[g] = handler[g]
      BY <1>1, <1>2, MovesTo
<1>4. Sound(handler[h])'
  <2>1. Sound(handler[h]) /\ handler[h].pc = "asks"
        BY <1>1, Reads DEF At
  <2>2. now' = now /\ started' = started
        BY <1>1 DEF OnlyHandler, providerVars, browserVars
  <2> QED BY <1>2, <1>3, <2>1, <2>2 DEF Sound, Fits
<1> QED BY <1>1, <1>3, <1>4, MovedOn

LEMMA DiscoverFailsHandshake ==
    ASSUME HandshakeInv, NEW h \in Handlers, DiscoverFails(h)
    PROVE  HandshakeInv'
<1>1. CASE handler[h].handshake = 0
  <2>1. To(h, Idle) /\ OnlyHandler /\ UNCHANGED providerVars
        BY <1>1 DEF DiscoverFails, OnlyHandler
  <2> QED BY <2>1, RestIsSound, MovedOn
<1>2. CASE handler[h].handshake # 0
  <2>1. Fails(h) /\ handler[h].pc # "idle"
        BY <1>2 DEF DiscoverFails, At
  <2> QED BY <2>1, FailsHandshake
<1> QED BY <1>1, <1>2

LEMMA DiscoverStoresHandshake ==
    ASSUME HandshakeInv, NEW h \in Handlers, DiscoverStores(h)
    PROVE  HandshakeInv'
<1>1. /\ At(h, "stores") /\ UNCHANGED <<providerVars, keys>>
      /\ discovered' = [uri |-> handler[h].uri, at |-> handler[h].at]
      BY DEF DiscoverStores
<1>2. discovered' \in [uri : URIs \cup {0}, at : Int] /\ handler[h].at \in Nat
      BY <1>1, Reads DEF Request
<1>3. CASE handler[h].handshake = 0
  <2>1. Redirects(handler[h].at) /\ To(h, Idle)
        BY <1>3 DEF DiscoverStores
  <2>2. BrowserMoves /\ ended' = ended
        BY <1>2, <2>1, BrowserIsSent DEF Redirects
  <2> QED BY <1>1, <1>2, <2>1, <2>2, RestIsSound, HandlerKeeps, Reads
<1>4. CASE handler[h].handshake # 0
  <2> DEFINE r == [handler[h] EXCEPT !.pc = "exchange"]
  <2>1. To(h, r) /\ UNCHANGED browserVars
        BY <1>4 DEF DiscoverStores
  <2>2. /\ r \in Request /\ r.pc = "exchange"
        /\ r.uri = handler[h].uri /\ r.at = handler[h].at /\ r.handshake = handler[h].handshake
        /\ r.again = handler[h].again /\ r.forced = handler[h].forced
        BY Reads DEF Request
  <2> HIDE DEF r
  <2>3. /\ handler' \in [Handlers -> Request] /\ handler'[h] = r
        /\ \A g \in Handlers \ {h} : handler'[g] = handler[g]
        BY <2>1, <2>2, MovesTo
  <2>4. Sound(handler[h])'
    <3>1. Sound(handler[h]) /\ handler[h].pc = "stores"
          BY <1>1, Reads DEF At
    <3>2. now' = now /\ started' = started
          BY <1>1, <2>1 DEF providerVars, browserVars
    <3> QED BY <1>4, <2>2, <2>3, <3>1, <3>2 DEF Sound, Fits
  <2>5. BrowserMoves /\ ended' = ended
        BY <2>1, BrowserRests DEF browserVars
  <2> QED BY <1>1, <1>2, <2>3, <2>4, <2>5, HandlerKeeps, Reads
<1> QED BY <1>3, <1>4

-----------------------------------------------------------------------------
(* The token, and the keys it is judged by. *)

\* A verdict is true if the keys at hand were good since a little before the callback came.
LEMMA JudgesKeeps ==
    ASSUME HandshakeInv, NEW h \in Handlers, NEW r \in Request, Judges(h, r),
           UNCHANGED providerVars, discovered' = discovered,
           keys' \in [held : SUBSET Keys, uri : URIs \cup {0}, at : Int],
           keys' = keys \/ CacheInv',
           r.at <= now, r.uri \in URIs, Fits(r),
           \A k \in r.held : GoodSince(r.uri, k, r.at - DiscoveryTTL + 1),
           provider.names = TRUE => r.lost = TRUE \/ r.key \in Candidates(r)
    PROVE  HandshakeInv'
<1>1. PICK how \in {"key", "clock", "session", "identity", "unavailable"} :
         /\ ended' = ended \cup {Ending(r, how)}
         /\ Answers(r.handshake, {how})
         /\ how = "key" => r.key \notin Candidates(r)
         /\ how = "session" => r.key \in Candidates(r)
      BY DEF Judges
<1>2. To(h, Idle)
      BY DEF Judges
<1>3. r.handshake \in 0..Len(started) /\ Len(started) \in Nat
      BY Reads DEF Fits
<1>4. BrowserMoves /\ started' = started
      BY <1>1, <1>3, BrowserIsAnswered DEF Answers
<1> DEFINE e == Ending(r, how)
<1>5. /\ e \in End /\ e.how = how
      /\ e.handshake = r.handshake /\ e.again = r.again /\ e.at = r.at
      /\ e.uri = r.uri /\ e.key = r.key /\ e.lost = r.lost
  <2>1. /\ e.how = how
        /\ e.handshake = r.handshake /\ e.again = r.again /\ e.at = r.at
        /\ e.uri = r.uri /\ e.key = r.key /\ e.lost = r.lost
        BY DEF Ending
  <2>2. e \in End
        BY DEF Ending, Request, End
  <2> QED BY <2>1, <2>2
<1> HIDE DEF e
<1>6. r.key \in Candidates(r) => r.key \in r.held
      BY DEF Candidates
<1>7. Fits(e)
      BY <1>5 DEF Fits
<1>8. r.held \subseteq Keys
      BY DEF Request
<1>9. /\ how = "session" =>
            e.key \in Keys /\ GoodSince(e.uri, e.key, e.at - DiscoveryTTL + 1)
      /\ how = "key" /\ provider.names = TRUE => e.lost = TRUE
      BY <1>1, <1>5, <1>6, <1>8
<1>10. Closed(e)'
  <2>1. Closed(e)
        BY <1>5, <1>7, <1>9 DEF Closed
  <2>2. UNCHANGED <<now, provider, published, gone, started>>
        BY <1>4 DEF providerVars
  <2> QED BY <2>1, <2>2 DEF Closed, Fits, GoodSince
<1>11. \A x \in ended' : x \in ended \/ (x \in End /\ Closed(x)')
      BY <1>1, <1>5, <1>10 DEF e
<1> QED BY <1>2, <1>4, <1>11, RestIsSound, HandlerKeeps, Reads

\* A callback that asks for the keys: its token's key is there, or was lost on the way.
LEMMA AsksForKeys ==
    ASSUME HandshakeInv, NEW h \in Handlers, NEW r \in Request, To(h, r),
           UNCHANGED <<providerVars, browserVars>>, discovered' = discovered,
           keys' \in [held : SUBSET Keys, uri : URIs \cup {0}, at : Int],
           keys' = keys \/ CacheInv',
           r.pc = "keysAsk", r.at <= now, r.uri \in URIs, r.handshake # 0, Fits(r),
           r.key \in Keys, r.lost = TRUE \/ r.key \in published[r.uri]
    PROVE  HandshakeInv'
<1>1. /\ handler' \in [Handlers -> Request] /\ handler'[h] = r
      /\ \A g \in Handlers \ {h} : handler'[g] = handler[g]
      BY MovesTo
<1>2. UNCHANGED <<now, published, started>>
      BY DEF providerVars, browserVars
<1>3. Sound(handler[h])'
      BY <1>1, <1>2 DEF Sound, Fits
<1>4. BrowserMoves /\ ended' = ended
      BY BrowserRests DEF browserVars
<1> QED BY <1>1, <1>3, <1>4, HandlerKeeps, Reads

LEMMA ExchangeHandshake ==
    ASSUME HandshakeInv, NEW h \in Handlers, Exchange(h)
    PROVE  HandshakeInv'
<1> DEFINE r(k) == [handler[h] EXCEPT !.key = k, !.iat = now,
                                      !.lost = k \notin published[handler[h].uri]]
<1>1. PICK k \in 1..provider.key :
         IF Fresh(r(k)) THEN Verifies(h, [r(k) EXCEPT !.held = keys.held])
                        ELSE To(h, [r(k) EXCEPT !.pc = "keysAsk"]) /\ UNCHANGED browserVars
      BY DEF Exchange
<1>2. UNCHANGED <<providerVars, discovered, keys>>
      BY DEF Exchange
<1>3. /\ handler[h] \in Request /\ Sound(handler[h]) /\ handler[h].pc = "exchange"
      /\ keys' \in [held : SUBSET Keys, uri : URIs \cup {0}, at : Int]
      /\ keys \in [held : SUBSET Keys, uri : URIs \cup {0}, at : Int]
      BY <1>2, Reads DEF Exchange, At
<1>4. k \in Keys /\ k \in Nat
      BY Reads, HandshakeAssumption DEF Keys
<1>5. /\ handler[h].at <= now /\ handler[h].uri \in URIs /\ handler[h].handshake # 0
      /\ handler[h].forced = FALSE /\ Fits(handler[h])
      BY <1>3 DEF Sound
<1> DEFINE lost == k \notin published[handler[h].uri]
<1>6. ASSUME NEW q \in Request,
             q.at = handler[h].at, q.uri = handler[h].uri, q.handshake = handler[h].handshake,
             q.again = handler[h].again, q.key = k, q.lost = lost
      PROVE  /\ q.at <= now /\ q.uri \in URIs /\ q.handshake # 0 /\ Fits(q)
             /\ q.key \in Keys /\ (q.lost = TRUE \/ q.key \in published[q.uri])
      BY <1>4, <1>5, <1>6 DEF Fits
<1>7. CASE ~Fresh(r(k))
  <2> DEFINE q == [r(k) EXCEPT !.pc = "keysAsk"]
  <2>1. To(h, q) /\ UNCHANGED browserVars
        BY <1>1, <1>7
  <2>2. /\ q \in Request /\ q.pc = "keysAsk"
        /\ q.at = handler[h].at /\ q.uri = handler[h].uri /\ q.handshake = handler[h].handshake
        /\ q.again = handler[h].again /\ q.key = k /\ q.lost = lost
        BY <1>3, <1>4, Reads DEF Request
  <2> HIDE DEF q, lost
  <2> QED BY <1>2, <1>3, <1>6, <2>1, <2>2, AsksForKeys
<1>8. CASE Fresh(r(k))
  <2> DEFINE q == [r(k) EXCEPT !.held = keys.held]
  <2>1. Verifies(h, q)
        BY <1>1, <1>8
  <2>2. /\ q \in Request /\ q.held = keys.held /\ q.forced = FALSE
        /\ q.at = handler[h].at /\ q.uri = handler[h].uri /\ q.handshake = handler[h].handshake
        /\ q.again = handler[h].again /\ q.key = k /\ q.lost = lost
        BY <1>3, <1>4, <1>5, Reads DEF Request
  <2>3. r(k).at = handler[h].at /\ r(k).uri = handler[h].uri
        BY <1>3 DEF Request
  <2>4. keys.uri = q.uri /\ q.at - keys.at < DiscoveryTTL
        BY <1>8, <2>2, <2>3 DEF Fresh
  <2> HIDE DEF q, lost, r
  <2>5. CASE Candidates(q) = {}
    <3> DEFINE a == [q EXCEPT !.pc = "keysAsk", !.forced = TRUE, !.held = {}]
    <3>1. To(h, a) /\ UNCHANGED browserVars
          BY <2>1, <2>2, <2>5 DEF Verifies
    <3>2. /\ a \in Request /\ a.pc = "keysAsk"
          /\ a.at = q.at /\ a.uri = q.uri /\ a.handshake = q.handshake
          /\ a.again = q.again /\ a.key = q.key /\ a.lost = q.lost
          BY <2>2 DEF Request
    <3> HIDE DEF a
    <3> QED BY <1>2, <1>3, <1>6, <2>2, <3>1, <3>2, AsksForKeys
  <2>6. CASE Candidates(q) # {}
    <3>1. Judges(h, q)
          BY <2>1, <2>6 DEF Verifies
    <3>2. provider.names = TRUE => q.key \in Candidates(q)
          BY <2>6 DEF Candidates
    <3>3. ASSUME NEW c \in q.held PROVE GoodSince(q.uri, c, q.at - DiscoveryTTL + 1)
      <4>1. GoodSince(keys.uri, c, keys.at)
            BY <2>2, <3>3 DEF HandshakeInv, CacheInv
      <4>2. /\ c \in Keys /\ keys.uri \in URIs /\ keys.at \in Int /\ q.at \in Nat
            /\ gone[keys.uri][c] \in Int
            BY <1>3, <1>5, <2>2, <2>4, <3>3 DEF HandshakeInv, TypeInv, Request
      <4> QED BY <2>4, <4>1, <4>2, HandshakeAssumption DEF GoodSince
    <3> QED BY <1>2, <1>3, <1>6, <2>2, <3>1, <3>2, <3>3, JudgesKeeps
  <2> QED BY <2>5, <2>6
<1> QED BY <1>7, <1>8

LEMMA KeysAnsweredHandshake ==
    ASSUME HandshakeInv, NEW h \in Handlers, KeysAnswered(h)
    PROVE  HandshakeInv'
<1> DEFINE set == published[handler[h].uri]
           r == [handler[h] EXCEPT !.pc = "keysStore", !.held = set]
<1>1. At(h, "keysAsk") /\ To(h, r) /\ OnlyHandler
      BY DEF KeysAnswered
<1>2. /\ handler[h] \in Request /\ Sound(handler[h]) /\ handler[h].pc = "keysAsk"
      /\ handler[h].uri \in URIs
      BY <1>1, Reads DEF At, Sound
<1>3. set \in SUBSET Keys
      BY <1>2, Reads
<1>4. /\ r \in Request /\ r.pc = "keysStore" /\ r.held = set
      /\ r.at = handler[h].at /\ r.uri = handler[h].uri /\ r.handshake = handler[h].handshake
      /\ r.again = handler[h].again /\ r.key = handler[h].key /\ r.lost = handler[h].lost
      BY <1>2, <1>3 DEF Request
<1> HIDE DEF r
<1>5. /\ handler' \in [Handlers -> Request] /\ handler'[h] = r
      /\ \A g \in Handlers \ {h} : handler'[g] = handler[g]
      BY <1>1, <1>4, MovesTo
<1>6. Sound(handler[h])'
  <2>1. UNCHANGED <<now, published, started>>
        BY <1>1 DEF OnlyHandler, providerVars, browserVars
  <2> QED BY <1>2, <1>4, <1>5, <2>1 DEF Sound, Fits, GoodSince
<1> QED BY <1>1, <1>5, <1>6, MovedOn

\* Whoever stored a set meanwhile, the one stored now is good since the time it is dated by.
LEMMA KeysStoreHandshake ==
    ASSUME HandshakeInv, NEW h \in Handlers, KeysStore(h)
    PROVE  HandshakeInv'
<1> DEFINE r == handler[h]
<1>1. /\ r.pc = "keysStore" /\ Verifies(h, r)
      /\ keys' = [held |-> r.held, uri |-> r.uri, at |-> r.at]
      /\ UNCHANGED <<providerVars, discovered>>
      BY DEF KeysStore, At, Dated
<1>2. r \in Request /\ Sound(r) /\ now \in Nat
      BY Reads
<1>3. /\ r.at <= now /\ r.at \in Nat /\ r.uri \in URIs /\ r.handshake # 0 /\ Fits(r)
      /\ r.key \in Keys /\ (r.lost = TRUE \/ r.key \in published[r.uri])
      /\ (r.lost = TRUE \/ r.key \in r.held) /\ r.held \in SUBSET Keys
      BY <1>1, <1>2 DEF Sound, Request
<1>4. \A k \in r.held : GoodSince(r.uri, k, r.at)
      BY <1>1, <1>2 DEF Sound
<1> HIDE DEF r
<1>5. keys' \in [held : SUBSET Keys, uri : URIs \cup {0}, at : Int]
      BY <1>1, <1>3
<1>6. CacheInv'
  <2>1. UNCHANGED <<now, published, gone>>
        BY <1>1 DEF providerVars
  <2> QED BY <1>1, <1>3, <1>4, <2>1 DEF CacheInv, GoodSince
<1>7. CASE Candidates(r) = {} /\ r.forced = FALSE
  <2> DEFINE a == [r EXCEPT !.pc = "keysAsk", !.forced = TRUE, !.held = {}]
  <2>1. To(h, a) /\ UNCHANGED browserVars
        BY <1>1, <1>7 DEF Verifies
  <2>2. /\ a \in Request /\ a.pc = "keysAsk"
        /\ a.at = r.at /\ a.uri = r.uri /\ a.handshake = r.handshake
        /\ a.again = r.again /\ a.key = r.key /\ a.lost = r.lost
        BY <1>2 DEF Request
  <2> HIDE DEF a
  <2>3. Fits(a)
        BY <1>3, <2>2 DEF Fits
  <2> QED BY <1>1, <1>3, <1>5, <1>6, <2>1, <2>2, <2>3, AsksForKeys
<1>8. CASE ~(Candidates(r) = {} /\ r.forced = FALSE)
  <2>1. r.forced \in BOOLEAN
        BY <1>2 DEF Request
  <2>2. Judges(h, r)
        BY <1>1, <1>8, <2>1 DEF Verifies
  <2>3. provider.names = TRUE => r.lost = TRUE \/ r.key \in Candidates(r)
        BY <1>3 DEF Candidates
  <2>4. ASSUME NEW k \in r.held PROVE GoodSince(r.uri, k, r.at - DiscoveryTTL + 1)
    <3>1. GoodSince(r.uri, k, r.at) /\ gone[r.uri][k] \in Int
          BY <1>3, <1>4 DEF HandshakeInv, TypeInv
    <3> QED BY <1>3, <3>1, HandshakeAssumption DEF GoodSince
  <2> QED BY <1>1, <1>2, <1>3, <1>5, <1>6, <2>2, <2>3, <2>4, JudgesKeeps
<1> QED BY <1>7, <1>8

LEMMA HandlerStepHandshake ==
    ASSUME HandshakeInv, NEW h \in Handlers, HandlerStep(h)
    PROVE  HandshakeInv'
<1>1. ExchangeFails(h) \/ KeysFail(h) => Fails(h) /\ handler[h].pc # "idle"
      BY DEF ExchangeFails, KeysFail, At
<1> QED BY <1>1, StartHandshake, CallbackHandshake, RefusedHandshake, DiscoverAnsweredHandshake,
           DiscoverFailsHandshake, DiscoverStoresHandshake, ExchangeHandshake, FailsHandshake,
           KeysAnsweredHandshake, KeysStoreHandshake DEF HandlerStep

LEMMA ProviderHandshake ==
    ASSUME HandshakeInv, Rotate \/ Move
    PROVE  HandshakeInv'
<1>1. /\ provider \in [uri : URIs, key : Keys, names : BOOLEAN]
      /\ published \in [URIs -> SUBSET Keys] /\ MaxKey \in Nat
      BY HandshakeAssumption DEF HandshakeInv, TypeInv
<1>2. CASE Rotate
  <2>1. PICK set \in {{provider.key + 1}, {provider.key, provider.key + 1}} :
           Publishes([published EXCEPT ![provider.uri] = set])
        BY <1>2 DEF Rotate
  <2>2. provider.key \in Keys /\ provider.key + 1 \in Keys
        BY <1>1, <1>2 DEF Rotate, Keys
  <2>3. [published EXCEPT ![provider.uri] = set] \in [URIs -> SUBSET Keys]
        BY <1>1, <2>1, <2>2
  <2>4. /\ provider' \in [uri : URIs, key : Keys, names : BOOLEAN]
        /\ provider'.names = provider.names
        BY <1>1, <1>2, <2>2 DEF Rotate
  <2> QED BY <2>1, <2>3, <2>4, PublishesHandshake
<1>3. CASE Move
  <2>1. Publishes([u \in URIs |-> IF u = 1 THEN {} ELSE published[1]])
        BY <1>3 DEF Move
  <2>2. [u \in URIs |-> IF u = 1 THEN {} ELSE published[1]] \in [URIs -> SUBSET Keys]
        BY <1>1 DEF URIs
  <2>3. /\ provider' \in [uri : URIs, key : Keys, names : BOOLEAN]
        /\ provider'.names = provider.names
        BY <1>1, <1>3 DEF Move, URIs
  <2> QED BY <2>1, <2>2, <2>3, PublishesHandshake
<1> QED BY <1>2, <1>3

LEMMA StepHandshake == HandshakeInv /\ [Next]_vars => HandshakeInv'
<1> SUFFICES ASSUME HandshakeInv, [Next]_vars PROVE HandshakeInv'
    OBVIOUS
<1>1. CASE UNCHANGED vars
  <2>1. UNCHANGED <<now, provider, published, gone, started, jar, spent, ended, discovered,
                    keys, handler>>
        BY <1>1 DEF vars, providerVars, browserVars
  <2> QED BY <2>1 DEF HandshakeInv, TypeInv, CookieInv, CacheInv, RequestInv, EndedInv,
             Sound, Closed, Fits, GoodSince
<1> QED BY <1>1, HandlerStepHandshake, TickHandshake, ProviderHandshake DEF Next

-----------------------------------------------------------------------------
(* The theorems. *)

\* The invariant of the handshake: what the cookie, the caches and every callback claim is so.
THEOREM HandshakeInvariant == Spec => []HandshakeInv
<1> QED BY InitHandshake, StepHandshake, PTL DEF Spec

\* A session comes of a handshake in its window that nobody answered before, however many tabs
\* share the cookie and however often a callback is sent.
THEOREM HandshakeOnce == Spec => []HandshakeIsSpent
<1>1. HandshakeInv => HandshakeIsSpent
      BY DEF HandshakeInv, EndedInv, Closed, Fits, HandshakeIsSpent
<1> QED BY <1>1, HandshakeInvariant, PTL

\* Whoever refilled the caches, and however late, a token is judged by keys the provider
\* published no longer than DiscoveryTTL before the callback came.
THEOREM KeysArePublished == Spec => []KeysAreTheProviders
<1>1. HandshakeInv => KeysAreTheProviders
  <2> SUFFICES ASSUME HandshakeInv, NEW e \in ended, e.how = "session"
               PROVE  \/ e.key \in published[e.uri]
                      \/ gone[e.uri][e.key] > e.at - DiscoveryTTL
      BY DEF KeysAreTheProviders
  <2>1. /\ e.uri \in URIs /\ e.key \in Keys /\ e.at \in Nat
        /\ GoodSince(e.uri, e.key, e.at - DiscoveryTTL + 1)
        BY DEF HandshakeInv, TypeInv, EndedInv, Closed, End
  <2>2. gone[e.uri][e.key] \in Int
        BY <2>1 DEF HandshakeInv, TypeInv
  <2> QED BY <2>1, <2>2, HandshakeAssumption DEF GoodSince
<1> QED BY <1>1, HandshakeInvariant, PTL

\* A token that names its key is refused for it only if that key was withdrawn on the way.
THEOREM RotationIsSafe == Spec => []RotationLocksNobodyOut
<1>1. HandshakeInv => RotationLocksNobodyOut
      BY DEF HandshakeInv, EndedInv, Closed, RotationLocksNobodyOut
<1> QED BY <1>1, HandshakeInvariant, PTL
==============================================================================
