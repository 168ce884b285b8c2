--------------------------- MODULE SessionsProofs ---------------------------
(***************************************************************************)
(* Theorems about sessions: any number of sign-ins and sign-outs at once,  *)
(* any cap of the set of revocations, any expiry, any number of restarts.  *)
(* The argument turns on the cap: the set never holds more than it by more *)
(* than the one entry being added, so at most one entry is evicted, and    *)
(* that one expires before all the others.                                 *)
(***************************************************************************)
EXTENDS Sessions, FiniteSetTheorems, TLAPS

-----------------------------------------------------------------------------
(* The inductive invariant. *)

\* A handler's clock is behind, the token it mints is its own, the one it revokes exists.
HandlerInv ==
    \A h \in Handlers :
        /\ handler[h].at <= now
        /\ handler[h].pc = "minting" =>
              /\ handler[h].token \in Tokens
              /\ ~Minted(handler[h].token)
              /\ \A g \in Handlers \ {h} : handler[g].token # handler[h].token
        /\ handler[h].pc \in {"checking", "revoking"} =>
              handler[h].token \in Tokens /\ Minted(handler[h].token)

\* The set is finite and within its cap.
SetInv == IsFiniteSet(revoked) /\ Cardinality(revoked) <= MaxRevocations

\* Tokens and sign-outs are of this run of the process or of an earlier one.
RunInv ==
    /\ \A t \in Tokens : token[t].run <= run
    /\ \A t \in DOMAIN signedOut : Minted(t) /\ signedOut[t] <= run

SessionInv == TypeOK /\ HandlerInv /\ SetInv /\ RunInv /\ SignedOutStaysOut

-----------------------------------------------------------------------------
(* The cap. *)

\* Sooner orders the tokens: by expiry, and then by identifier.
LEMMA SoonerIsAnOrder ==
    ASSUME TypeOK, NEW t \in Tokens, NEW u \in Tokens
    PROVE  /\ ~Sooner(t, t)
           /\ Sooner(t, u) => ~Sooner(u, t)
           /\ t # u => Sooner(t, u) \/ Sooner(u, t)
<1>1. /\ t \in Nat /\ u \in Nat
      /\ token[t].exp \in Nat /\ token[u].exp \in Nat
      BY SessionsAssumption DEF TypeOK, Claims
<1> QED BY <1>1 DEF Sooner

\* A set of natural numbers that is not empty has a least element.
LEMMA LeastNatural ==
    ASSUME NEW T \in SUBSET Nat, T # {}
    PROVE  \E n \in T : \A m \in T : n <= m
<1>1. PICK n \in T : \A m \in T : <<m, n>> \notin OpToRel(<, Nat)
      BY WFMin, NatLessThanWellFounded, Zenon
<1>2. \A m \in T : ~(m < n)
      BY <1>1 DEF OpToRel
<1> QED BY <1>2

\* Of any tokens one expires before all the others.
LEMMA SomeTokenIsFirst ==
    ASSUME TypeOK, NEW S \in SUBSET Tokens, S # {}
    PROVE  \E m \in S : \A u \in S \ {m} : Sooner(m, u)
<1> DEFINE exps == {token[t].exp : t \in S}
<1>1. S \subseteq Nat /\ \A t \in S : token[t].exp \in Nat
      BY SessionsAssumption DEF TypeOK, Claims
<1>2. exps \in SUBSET Nat /\ exps # {}
      BY <1>1
<1>3. PICK e \in exps : \A f \in exps : e <= f
      BY <1>2, LeastNatural
<1> DEFINE firsts == {t \in S : token[t].exp = e}
<1>4. firsts \in SUBSET Nat /\ firsts # {}
      BY <1>1, <1>3
<1>5. PICK m \in firsts : \A t \in firsts : m <= t
      BY <1>4, LeastNatural
<1>6. ASSUME NEW u \in S \ {m} PROVE Sooner(m, u)
  <2>1. token[m].exp = e /\ e <= token[u].exp /\ e \in Nat /\ token[u].exp \in Nat
        BY <1>1, <1>2, <1>3, <1>5, <1>6
  <2>2. m \in Nat /\ u \in Nat /\ (token[u].exp = e => m <= u)
        BY <1>1, <1>4, <1>5, <1>6
  <2> QED BY <2>1, <2>2, <1>6 DEF Sooner
<1> QED BY <1>5, <1>6

\* Within the cap nothing is evicted.
LEMMA NothingEvicted ==
    ASSUME TypeOK, NEW S \in SUBSET Tokens, IsFiniteSet(S),
           Cardinality(S) <= MaxRevocations
    PROVE  Capped(S) = S
<1>1. ASSUME NEW t \in S PROVE Cardinality({u \in S : Sooner(t, u)}) < MaxRevocations
  <2> DEFINE later == {u \in S : Sooner(t, u)}
  <2>1. later \in SUBSET (S \ {t})
        BY SoonerIsAnOrder
  <2>2. /\ IsFiniteSet(S \ {t})
        /\ Cardinality(S \ {t}) = Cardinality(S) - 1
        BY <1>1, FS_RemoveElement
  <2>3. Cardinality(later) \in Nat /\ Cardinality(later) <= Cardinality(S \ {t})
        BY <2>1, <2>2, FS_Subset, FS_CardinalityType
  <2>4. Cardinality(S) \in Nat /\ MaxRevocations \in Nat
        BY FS_CardinalityType, SessionsAssumption
  <2> QED BY <2>2, <2>3, <2>4
<1> QED BY <1>1 DEF Capped

\* One above it, what goes is the one that expires first.
LEMMA FirstEvicted ==
    ASSUME TypeOK, NEW S \in SUBSET Tokens, IsFiniteSet(S),
           Cardinality(S) = MaxRevocations + 1
    PROVE  \E m \in S : Capped(S) = S \ {m} /\ \A u \in S \ {m} : Sooner(m, u)
<1>1. MaxRevocations \in Nat \ {0}
      BY SessionsAssumption
<1>2. S # {}
      BY <1>1, FS_EmptySet
<1>3. PICK m \in S : \A u \in S \ {m} : Sooner(m, u)
      BY <1>2, SomeTokenIsFirst
<1>4. IsFiniteSet(S \ {m}) /\ Cardinality(S \ {m}) = MaxRevocations
      BY <1>1, FS_RemoveElement
<1>5. Cardinality({u \in S : Sooner(m, u)}) = MaxRevocations
  <2>1. {u \in S : Sooner(m, u)} = S \ {m}
        BY <1>3, SoonerIsAnOrder
  <2> QED BY <2>1, <1>4
<1>6. ASSUME NEW t \in S \ {m}
      PROVE  Cardinality({u \in S : Sooner(t, u)}) < MaxRevocations
  <2> DEFINE later == {u \in S : Sooner(t, u)}
  <2>1. later \in SUBSET ((S \ {m}) \ {t})
        BY <1>3, <1>6, SoonerIsAnOrder
  <2>2. /\ IsFiniteSet((S \ {m}) \ {t})
        /\ Cardinality((S \ {m}) \ {t}) = MaxRevocations - 1
        BY <1>4, <1>6, FS_RemoveElement
  <2>3. Cardinality(later) \in Nat /\ Cardinality(later) <= MaxRevocations - 1
        BY <2>1, <2>2, FS_Subset, FS_CardinalityType
  <2> QED BY <2>3, <1>1
<1>7. Capped(S) = S \ {m}
      BY <1>1, <1>5, <1>6 DEF Capped
<1> QED BY <1>3, <1>7

-----------------------------------------------------------------------------
(* The steps. *)

LEMMA InitSession == Init => SessionInv
<1> SUFFICES ASSUME Init PROVE SessionInv
    OBVIOUS
<1>1. TypeOK
      BY SessionsAssumption DEF Init, TypeOK, Claims, Request, Idle
<1>2. HandlerInv
      BY DEF Init, HandlerInv, Idle
<1>3. SetInv
      BY FS_EmptySet, SessionsAssumption DEF Init, SetInv
<1>4. RunInv /\ SignedOutStaysOut
      BY DEF Init, RunInv, SignedOutStaysOut
<1> QED BY <1>1, <1>2, <1>3, <1>4 DEF SessionInv

\* What the invariant says of the parts a step reads.
LEMMA Parts ==
    ASSUME SessionInv
    PROVE  /\ now \in Nat /\ run \in Nat /\ configured \in BOOLEAN
           /\ token \in [Tokens -> Claims]
           /\ revoked \in SUBSET Tokens
           /\ handler \in [Handlers -> Request]
           /\ DOMAIN signedOut \subseteq Tokens
           /\ \A t \in DOMAIN signedOut : signedOut[t] \in Nat
BY DEF SessionInv, TypeOK

\* A step that leaves the tokens, the set and the sign-outs alone keeps what is signed out.
LEMMA KeepsSignedOut ==
    ASSUME SessionInv, now' \in Nat, now' >= now,
           UNCHANGED <<configured, run, token, revoked, signedOut>>
    PROVE  SetInv' /\ RunInv' /\ SignedOutStaysOut'
<1>1. SetInv' /\ RunInv'
      BY DEF SessionInv, SetInv, RunInv, Minted
<1>2. ASSUME NEW t \in DOMAIN signedOut, Valid(t)' PROVE Valid(t)
  <2>1. token[t].exp \in Nat /\ now \in Nat
        BY Parts DEF Claims
  <2> QED BY <1>2, <2>1 DEF Valid, Verdict, Signed, Minted, Expired
<1> QED BY <1>1, <1>2 DEF SessionInv, SignedOutStaysOut

LEMMA TickSession == ASSUME SessionInv, Tick PROVE SessionInv'
<1>1. now' \in Nat /\ now' >= now
      BY Parts DEF Tick
<1>2. TypeOK'
      BY <1>1 DEF SessionInv, TypeOK, Tick
<1>3. HandlerInv'
  <2>1. \A h \in Handlers : handler[h].at \in Nat
        BY Parts DEF Request
  <2> QED BY <1>1, <2>1, Parts DEF SessionInv, HandlerInv, Minted, Tick
<1> QED BY <1>1, <1>2, <1>3, KeepsSignedOut DEF SessionInv, Tick

\* A handler that begins, or that settles on something without touching the set.
LEMMA SignInSession ==
    ASSUME SessionInv, NEW h \in Handlers, NEW t \in Tokens, SignIn(h, t)
    PROVE  SessionInv'
<1>1. handler' = [handler EXCEPT ![h] = [pc |-> "minting", token |-> t, at |-> now]]
      BY DEF SignIn
<1>2. TypeOK'
      BY <1>1, Parts DEF SessionInv, TypeOK, SignIn, Request
<1>3. HandlerInv'
      BY <1>1, Parts DEF SessionInv, HandlerInv, Minted, SignIn, Request
<1> QED BY <1>2, <1>3, KeepsSignedOut, Parts DEF SessionInv, SignIn

LEMMA SignOutSession ==
    ASSUME SessionInv, NEW h \in Handlers, NEW t \in Tokens, SignOut(h, t)
    PROVE  SessionInv'
<1>1. handler' = [handler EXCEPT ![h] = [pc |-> "checking", token |-> t, at |-> now]]
      BY DEF SignOut
<1>2. TypeOK'
      BY <1>1, Parts DEF SessionInv, TypeOK, SignOut, Request
<1>3. HandlerInv'
      BY <1>1, Parts DEF SessionInv, HandlerInv, Minted, SignOut, Request
<1> QED BY <1>2, <1>3, KeepsSignedOut, Parts DEF SessionInv, SignOut

LEMMA CheckSession ==
    ASSUME SessionInv, NEW h \in Handlers, Check(h)
    PROVE  SessionInv'
<1>1. \/ handler' = [handler EXCEPT ![h].pc = "revoking"]
      \/ handler' = [handler EXCEPT ![h] = Idle]
      BY DEF Check
<1>2. TypeOK'
      BY <1>1, Parts, SessionsAssumption DEF SessionInv, TypeOK, Check, Request, Idle
<1>3. HandlerInv'
      BY <1>1, Parts, SessionsAssumption DEF SessionInv, HandlerInv, Minted, Check, Request, Idle
<1> QED BY <1>2, <1>3, KeepsSignedOut, Parts DEF SessionInv, Check

\* A new token was in neither the set nor the sign-outs, and is nobody else's.
LEMMA MintSession ==
    ASSUME SessionInv, NEW h \in Handlers, Mint(h)
    PROVE  SessionInv'
<1> DEFINE t == handler[h].token
<1> DEFINE claims == [exp |-> handler[h].at + TTL, run |-> run]
<1>1. /\ t \in Tokens /\ ~Minted(t)
      /\ \A g \in Handlers \ {h} : handler[g].token # t
      BY DEF SessionInv, HandlerInv, Mint
<1>2. /\ token' = [token EXCEPT ![t] = claims]
      /\ handler' = [handler EXCEPT ![h] = Idle]
      BY DEF Mint
<1>3. claims \in Claims /\ claims.exp # 0 /\ claims.run = run
      BY Parts, SessionsAssumption DEF Request, Claims
<1> HIDE DEF claims
<1>4. t \notin DOMAIN signedOut /\ t \notin revoked
      BY <1>1 DEF SessionInv, RunInv, TypeOK, Minted
<1>5. /\ token' \in [Tokens -> Claims]
      /\ token'[t] = claims
      /\ \A u \in Tokens \ {t} : token'[u] = token[u]
      BY <1>1, <1>2, <1>3, Parts
<1>6. TypeOK'
  <2>1. revoked' \subseteq {u \in Tokens : token'[u].exp # 0}
        BY <1>4, <1>5 DEF SessionInv, TypeOK, Mint
  <2>2. handler' \in [Handlers -> Request]
        BY <1>2, Parts, SessionsAssumption DEF Request, Idle
  <2> QED BY <1>5, <2>1, <2>2 DEF SessionInv, TypeOK, Mint
<1>7. HandlerInv'
  <2>1. \A g \in Handlers : handler'[g] = Idle \/ (g # h /\ handler'[g] = handler[g])
        BY <1>2, Parts
  <2>2. \A g \in Handlers : handler'[g].token \in {handler[g].token, None}
        BY <2>1 DEF Idle
  <2>3. \A g \in Handlers : handler'[g].at <= now'
        BY <2>1, Parts DEF SessionInv, HandlerInv, Mint, Idle
  <2>4. ASSUME NEW g \in Handlers, handler'[g].pc \in {"minting", "checking", "revoking"}
        PROVE  /\ handler'[g] = handler[g]
               /\ g # h
               /\ handler[g].token \in Tokens \ {t}
        BY <1>1, <2>1, <2>4 DEF SessionInv, HandlerInv, Idle
  <2>5. ASSUME NEW g \in Handlers, handler'[g].pc = "minting"
        PROVE  /\ handler'[g].token \in Tokens
               /\ token'[handler'[g].token].exp = 0
               /\ \A i \in Handlers \ {g} : handler'[i].token # handler'[g].token
    <3>1. /\ ~Minted(handler[g].token)
          /\ \A i \in Handlers \ {g} : handler[i].token # handler[g].token
          BY <2>4, <2>5 DEF SessionInv, HandlerInv
    <3> QED BY <1>5, <2>2, <2>4, <2>5, <3>1, SessionsAssumption DEF Minted
  <2>6. ASSUME NEW g \in Handlers, handler'[g].pc \in {"checking", "revoking"}
        PROVE  handler'[g].token \in Tokens /\ token'[handler'[g].token].exp # 0
    <3>1. Minted(handler[g].token)
          BY <2>4, <2>6 DEF SessionInv, HandlerInv
    <3> QED BY <1>5, <2>4, <2>6, <3>1 DEF Minted
  <2> QED BY <2>3, <2>5, <2>6 DEF HandlerInv, Minted
<1>8. SetInv'
      BY DEF SessionInv, SetInv, Mint
<1>9. RunInv'
  <2>1. \A u \in DOMAIN signedOut : u \in Tokens \ {t}
        BY <1>4, Parts
  <2> QED BY <1>3, <1>5, <2>1, Parts DEF SessionInv, RunInv, Minted, Mint
<1>10. SignedOutStaysOut'
  <2>1. \A u \in revoked : u \in Tokens \ {t}
        BY <1>4, Parts
  <2>2. \A u \in DOMAIN signedOut : u \in Tokens \ {t}
        BY <1>4, Parts
  <2>3. ASSUME NEW u \in DOMAIN signedOut, Valid(u)' PROVE Valid(u)
        BY <1>5, <2>2, <2>3 DEF Valid, Verdict, Signed, Minted, Expired, Mint
  <2> QED BY <1>5, <2>1, <2>2, <2>3 DEF SessionInv, SignedOutStaysOut, Mint
<1> QED BY <1>6, <1>7, <1>8, <1>9, <1>10 DEF SessionInv

\* The process that starts has signed nothing: what it accepts, a configured secret signed.
LEMMA RestartSession ==
    ASSUME SessionInv, Restart
    PROVE  SessionInv'
<1>1. run' = run + 1 /\ revoked' = {} /\ handler' = [h \in Handlers |-> Idle]
      BY DEF Restart
<1>2. TypeOK'
      BY <1>1, Parts, SessionsAssumption DEF SessionInv, TypeOK, Restart, Request, Idle
<1>3. HandlerInv'
      BY <1>1, Parts DEF HandlerInv, Restart, Idle
<1>4. SetInv'
      BY <1>1, FS_EmptySet, SessionsAssumption DEF SetInv
<1>5. \A t \in Tokens : token[t].run \in Nat
      BY Parts DEF Claims
<1>6. RunInv'
      BY <1>1, <1>5, Parts DEF SessionInv, RunInv, Minted, Restart
<1>7. SignedOutStaysOut'
  <2> SUFFICES ASSUME NEW t \in DOMAIN signedOut, Valid(t)'
               PROVE  configured /\ signedOut[t] # run + 1
      BY <1>1 DEF SignedOutStaysOut, Restart
  <2>1. t \in Tokens /\ signedOut[t] \in Nat /\ signedOut[t] <= run /\ token[t].run <= run
        BY Parts DEF SessionInv, RunInv
  <2>2. configured
        BY <1>1, <1>5, <2>1, Parts DEF Valid, Verdict, Signed, Restart
  <2> QED BY <2>1, <2>2, Parts
<1> QED BY <1>2, <1>3, <1>4, <1>6, <1>7 DEF SessionInv

\* Adding a revocation to the set keeps the cap; what it evicts, if anything, is one entry
\* that expires before all that stay.
LEMMA AddingKeepsTheCap ==
    ASSUME SessionInv, NEW kept \in SUBSET revoked, NEW t \in Tokens
    PROVE  LET S == kept \cup {t}
           IN  /\ IsFiniteSet(Capped(S)) /\ Cardinality(Capped(S)) <= MaxRevocations
               /\ Capped(S) \subseteq S
               /\ \A u \in S \ Capped(S) :
                     /\ Cardinality(Capped(S)) = MaxRevocations
                     /\ \A v \in Capped(S) : Sooner(u, v)
<1> DEFINE S == kept \cup {t}
<1>1. TypeOK /\ S \in SUBSET Tokens /\ MaxRevocations \in Nat \ {0}
      BY Parts, SessionsAssumption DEF SessionInv
<1>2. IsFiniteSet(kept) /\ Cardinality(kept) \in Nat /\ Cardinality(kept) <= MaxRevocations
  <2>1. IsFiniteSet(revoked) /\ Cardinality(revoked) <= MaxRevocations
        BY DEF SessionInv, SetInv
  <2>2. /\ Cardinality(revoked) \in Nat /\ IsFiniteSet(kept)
        /\ Cardinality(kept) <= Cardinality(revoked)
        BY <2>1, FS_Subset, FS_CardinalityType
  <2>3. Cardinality(kept) \in Nat
        BY <2>2, FS_CardinalityType
  <2> QED BY <1>1, <2>1, <2>2, <2>3
<1>3. /\ IsFiniteSet(S) /\ Cardinality(S) \in Nat
      /\ Cardinality(S) <= MaxRevocations + 1
  <2>1. /\ IsFiniteSet(S)
        /\ Cardinality(S) = IF t \in kept THEN Cardinality(kept) ELSE Cardinality(kept) + 1
        BY <1>2, FS_AddElement
  <2> QED BY <1>1, <1>2, <2>1
<1> HIDE DEF S
<1>4. CASE Cardinality(S) <= MaxRevocations
  <2>1. Capped(S) = S
        BY <1>1, <1>3, <1>4, NothingEvicted
  <2> QED BY <1>3, <1>4, <2>1 DEF S
<1>5. CASE Cardinality(S) = MaxRevocations + 1
  <2>1. PICK m \in S : Capped(S) = S \ {m} /\ \A u \in S \ {m} : Sooner(m, u)
        BY <1>1, <1>3, <1>5, FirstEvicted
  <2>2. IsFiniteSet(S \ {m}) /\ Cardinality(S \ {m}) = MaxRevocations
        BY <1>1, <1>3, <1>5, <2>1, FS_RemoveElement
  <2> QED BY <1>1, <2>1, <2>2 DEF S
<1>6. Cardinality(S) <= MaxRevocations \/ Cardinality(S) = MaxRevocations + 1
      BY <1>1, <1>3
<1> QED BY <1>4, <1>5, <1>6

LEMMA RevokeSession ==
    ASSUME SessionInv, NEW h \in Handlers, Revoke(h)
    PROVE  SessionInv'
<1> DEFINE t == handler[h].token
           kept == {u \in revoked : ~Expired(u, handler[h].at)}
           S == kept \cup {t}
<1>1. t \in Tokens /\ Minted(t) /\ handler[h].at <= now /\ handler[h].at \in Nat
      BY Parts DEF SessionInv, HandlerInv, Revoke, Request
<1>2. /\ revoked' = Capped(S)
      /\ signedOut' = [u \in DOMAIN signedOut \cup {t} |-> IF u = t THEN run ELSE signedOut[u]]
      /\ handler' = [handler EXCEPT ![h] = Idle]
      /\ UNCHANGED <<now, configured, run, token>>
      BY DEF Revoke
<1>3. kept \in SUBSET revoked
      OBVIOUS
<1>4. /\ IsFiniteSet(Capped(S)) /\ Cardinality(Capped(S)) <= MaxRevocations
      /\ Capped(S) \subseteq S
      /\ \A u \in S \ Capped(S) :
            /\ Cardinality(Capped(S)) = MaxRevocations
            /\ \A v \in Capped(S) : Sooner(u, v)
      BY <1>1, <1>3, AddingKeepsTheCap
<1>5. S \subseteq {u \in Tokens : token[u].exp # 0}
      BY <1>1 DEF SessionInv, TypeOK, Minted
<1>6. TypeOK'
  <2>1. handler' \in [Handlers -> Request]
        BY <1>2, Parts, SessionsAssumption DEF Request, Idle
  <2>2. /\ DOMAIN signedOut' \subseteq Tokens
        /\ \A u \in DOMAIN signedOut' : signedOut'[u] \in Nat
        BY <1>1, <1>2, Parts
  <2> QED BY <1>2, <1>4, <1>5, <2>1, <2>2 DEF SessionInv, TypeOK
<1>7. HandlerInv'
      BY <1>2, Parts, SessionsAssumption DEF SessionInv, HandlerInv, Minted, Idle
<1>8. SetInv'
      BY <1>2, <1>4 DEF SetInv
<1>9. RunInv'
      BY <1>1, <1>2, Parts DEF SessionInv, RunInv, Minted
<1>10. SignedOutStaysOut'
  <2> SUFFICES ASSUME NEW u \in DOMAIN signedOut', Valid(u)',
                      ~(configured /\ signedOut'[u] # run)
               PROVE  /\ Cardinality(Capped(S)) = MaxRevocations
                      /\ \A v \in Capped(S) : token[v].exp >= token[u].exp
      BY <1>2 DEF SignedOutStaysOut
  <2>1. u \in Tokens /\ token[u].exp \in Nat /\ \A v \in S : token[v].exp \in Nat
        BY <1>1, <1>2, <1>5, Parts DEF Claims
  <2>2. u \notin Capped(S) /\ Signed(u) /\ ~Expired(u, now)
        BY <1>2 DEF Valid, Verdict, Signed, Minted, Expired
  <2>3. ~Expired(u, handler[h].at)
        BY <1>1, <2>1, <2>2, Parts DEF Expired
  <2>4. CASE u \in S
    <3>1. \A v \in Capped(S) : Sooner(u, v)
          BY <1>4, <2>2, <2>4
    <3> QED BY <1>4, <2>1, <2>2, <2>4, <3>1 DEF Sooner
  <2>5. CASE u \notin S
    <3>1. u # t /\ u \in DOMAIN signedOut /\ signedOut'[u] = signedOut[u] /\ u \notin revoked
          BY <1>2, <2>3, <2>5
    <3>2. Valid(u)
          BY <2>2, <3>1 DEF Valid, Verdict
    <3>3. /\ Cardinality(revoked) = MaxRevocations
          /\ \A v \in revoked : token[v].exp >= token[u].exp
          BY <3>1, <3>2 DEF SessionInv, SignedOutStaysOut
    <3>4. kept = revoked
          BY <1>1, <2>1, <2>3, <3>3, Parts DEF Expired, Claims
    <3>5. CASE Capped(S) = S
      <4>1. revoked \in SUBSET S
            BY <3>4
      <4>2. IsFiniteSet(S) /\ Cardinality(S) <= MaxRevocations
            BY <1>4, <3>5
      <4>3. Cardinality(revoked) <= Cardinality(S) /\ Cardinality(S) \in Nat
            BY <4>1, <4>2, FS_Subset, FS_CardinalityType
      <4>4. Cardinality(S) = Cardinality(revoked)
            BY <3>3, <4>2, <4>3, SessionsAssumption
      <4>5. S = revoked
            BY <4>1, <4>2, <4>4, FS_Subset
      <4> QED BY <3>3, <3>5, <4>4, <4>5
    <3>6. CASE Capped(S) # S
      <4>1. PICK x \in S : x \notin Capped(S)
            BY <1>4, <3>6
      <4>2. /\ Cardinality(Capped(S)) = MaxRevocations
            /\ \A v \in Capped(S) : Sooner(x, v)
            BY <1>4, <4>1
      <4>3. ASSUME NEW v \in Capped(S) PROVE token[v].exp >= token[u].exp
        <5>1. CASE v \in revoked
              BY <3>3, <5>1
        <5>2. CASE v = t
          <6>1. x \in revoked
                BY <3>4, <4>1, <4>3, <5>2
          <6>2. token[x].exp >= token[u].exp /\ token[v].exp >= token[x].exp
                BY <1>4, <2>1, <3>3, <4>1, <4>2, <4>3, <6>1 DEF Sooner
          <6> QED BY <1>4, <2>1, <4>1, <4>3, <6>2
        <5> QED BY <1>4, <3>4, <4>3, <5>1, <5>2
      <4> QED BY <4>2, <4>3
    <3> QED BY <3>5, <3>6
  <2> QED BY <2>4, <2>5
<1> QED BY <1>6, <1>7, <1>8, <1>9, <1>10 DEF SessionInv

LEMMA StepSession == SessionInv /\ [Next]_vars => SessionInv'
<1> SUFFICES ASSUME SessionInv, [Next]_vars PROVE SessionInv'
    OBVIOUS
<1>1. ASSUME NEW h \in Handlers, NEW t \in Tokens, SignIn(h, t) \/ SignOut(h, t)
      PROVE  SessionInv'
      BY <1>1, SignInSession, SignOutSession
<1>2. ASSUME NEW h \in Handlers, Mint(h) \/ Check(h) \/ Revoke(h)
      PROVE  SessionInv'
      BY <1>2, MintSession, CheckSession, RevokeSession
<1>3. CASE UNCHANGED vars
  <2>1. TypeOK' /\ HandlerInv' /\ SetInv' /\ RunInv'
        BY <1>3 DEF vars, SessionInv, TypeOK, HandlerInv, SetInv, RunInv, Minted
  <2>2. SignedOutStaysOut'
        BY <1>3, KeepsSignedOut, Parts DEF vars
  <2> QED BY <2>1, <2>2 DEF SessionInv
<1> QED BY <1>1, <1>2, <1>3, TickSession, RestartSession DEF Next

-----------------------------------------------------------------------------
(* The theorems. *)

\* The invariant of sessions: whose clock is behind, what the set holds, what was signed when.
THEOREM SessionInvariant == Spec => []SessionInv
<1> QED BY InitSession, StepSession, PTL DEF Spec

\* Every variable has its type, for any set of identifiers and of handlers.
THEOREM SessionTypes == Spec => []TypeOK
<1>1. SessionInv => TypeOK
      BY DEF SessionInv
<1> QED BY <1>1, SessionInvariant, PTL

\* The set of revocations never outgrows MaxRevocations, however many sign-outs run at once.
THEOREM RevocationsAreCapped == Spec => [](Cardinality(revoked) <= MaxRevocations)
<1>1. SessionInv => Cardinality(revoked) <= MaxRevocations
      BY DEF SessionInv, SetInv
<1> QED BY <1>1, SessionInvariant, PTL

\* A session signed out is not accepted again, but for a restart that kept the secret, or a full
\* set of sign-outs of sessions that last at least as long: for every cap and every TTL.
THEOREM SignOutLasts == Spec => []SignedOutStaysOut
<1>1. SessionInv => SignedOutStaysOut
      BY DEF SessionInv
<1> QED BY <1>1, SessionInvariant, PTL

\* Nothing ends a session but its expiry, its own sign-out and a restart with another secret:
\* no sign-out of another session, no eviction, no mint.
THEOREM NoForeignSignOut == Spec => OnlyItsOwnSignOutEndsASession
<1> DEFINE OwnEnd == \A t \in Tokens :
              Valid(t) /\ ~Valid(t)' =>
                 \/ now' >= token[t].exp
                 \/ \E h \in Handlers : handler[h].pc = "revoking" /\ handler[h].token = t
                 \/ run' # run /\ ~configured
<1>1. SessionInv /\ [Next]_vars => [OwnEnd]_vars
  <2> SUFFICES ASSUME SessionInv, Next, NEW t \in Tokens, Valid(t), ~Valid(t)',
                      ~(now' >= token[t].exp)
               PROVE  \/ \E h \in Handlers : handler[h].pc = "revoking" /\ handler[h].token = t
                      \/ run' # run /\ ~configured
      OBVIOUS
  <2>1. /\ Minted(t) /\ Signed(t) /\ t \notin revoked
        /\ token[t].exp \in Nat
        BY Parts DEF Valid, Verdict, Signed, Claims
  <2>2. CASE Restart
        BY <2>1, <2>2, Parts DEF Restart, Valid, Verdict, Signed, Minted, Expired
  <2>3. ASSUME UNCHANGED <<configured, run, revoked>>, token'[t] = token[t]
        PROVE  FALSE
        BY <2>1, <2>3 DEF Valid, Verdict, Signed, Minted, Expired
  <2>4. ASSUME NEW h \in Handlers, Mint(h) PROVE FALSE
    <3>1. handler[h].token # t
          BY <2>1, <2>4 DEF SessionInv, HandlerInv, Mint
    <3>2. token'[t] = token[t]
          BY <2>4, <3>1, Parts DEF Mint
    <3> QED BY <2>3, <2>4, <3>2 DEF Mint
  <2>5. ASSUME NEW h \in Handlers, Revoke(h), handler[h].token # t PROVE FALSE
    <3>1. t \notin revoked'
          BY <2>1, <2>5 DEF Revoke, Capped
    <3> QED BY <2>1, <2>5, <3>1 DEF Revoke, Valid, Verdict, Signed, Minted, Expired
  <2>6. ASSUME NEW h \in Handlers, Revoke(h) PROVE handler[h].pc = "revoking"
        BY <2>6 DEF Revoke
  <2> QED BY <2>2, <2>3, <2>4, <2>5, <2>6 DEF Next, Tick, SignIn, SignOut, Check
<1> QED BY <1>1, SessionInvariant, PTL DEF Spec, OnlyItsOwnSignOutEndsASession
=============================================================================
