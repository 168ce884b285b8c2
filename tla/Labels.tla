-------------------------------- MODULE Labels --------------------------------
(***************************************************************************)
(* internal/labels, the gates: the middlewares the fleet defines, and what *)
(* a service's labels and environment say of what stands before it.        *)
(***************************************************************************)
EXTENDS RouteLabels

CONSTANTS
    Tokens,     \* the lower-cased alphanumeric runs of a name
    HostHints   \* labels.authentik.hostHints

-----------------------------------------------------------------------------
IsAuthType(type) == type \in {"forwardauth", "basicauth", "digestauth"}

\* The types in the order their keys sort in, which is the order they are read in.
TypeOrder == <<"basicauth", "chain", "digestauth", "forwardauth", "headers">>

\* Mutant: the first counts, whatever it is.
FirstCounts(types, places) == Min(places)

\* Of several places of a list of types, the one that counts: the first, unless only a later one
\* is a gate.
Counting(types, places) ==
    LET gates == {i \in places : IsAuthType(types[i])}
    IN  Min(IF gates = {} THEN places ELSE gates)

\* middlewareDefs: one definition per name.
MiddlewareDefs(k, svc) ==
    LET kinds(name) == {i \in DOMAIN TypeOrder : <<"middlewares", name, TypeOrder[i]>> \in DOMAIN svc.labels}
    IN  {[name |-> name, where |-> k,
          type |-> TypeOrder[Counting(TypeOrder, kinds(name))],
          address |-> AddressAt(svc.labels, <<"middlewares", name, "forwardauth">>),
          middlewares |-> ListAt(svc.labels, <<"middlewares", name, "chain">>)] :
            name \in NamedAt(svc.labels, "middlewares")}

\* NewRegistry and add: every service's definitions, stack by stack, one for each name.
NewRegistry(fleet) ==
    LET all == FlattenSeq([k \in Keys(fleet) |-> SetToSeq(MiddlewareDefs(k, Service(fleet, k)))])
        types == [i \in DOMAIN all |-> all[i].type]
    IN  [name \in {d.name : d \in ToSet(all)} |->
            all[Counting(types, {i \in DOMAIN all : all[i].name = name})]]

\* ServicesDefiningAddress: whose definition, of those that count, is at an outpost's endpoint.
DefinesOutpost(registry) ==
    {registry[n].where : n \in {n \in DOMAIN registry : registry[n].address.outpost}}

-----------------------------------------------------------------------------
MinBareHintLen == 8

\* Specific: a hint that would match by accident is none.
Specific(hint) ==
    /\ hint \notin {"", "localhost"}
    /\ Len(Tokens[hint]) >= 2 \/ (Len(Tokens[hint]) = 1 /\ Len(Tokens[hint][1]) >= MinBareHintLen)

NewHints(names) == {n \in names : Specific(n)}

Contiguous(haystack, needle) ==
    \E at \in 0..(Len(haystack) - Len(needle)) : SubSeq(haystack, at + 1, at + Len(needle)) = needle

\* Match: some hint's words stand in the target, in a row.
HintMatch(hints, target) ==
    target # "" /\ \E h \in hints : Contiguous(Tokens[target], Tokens[h])

\* The same of an address: by its host, or by the outpost's endpoint in its path.
NamesProvider(hints, address) ==
    HintMatch(hints, address.host) \/ (address.outpost /\ "goauthentik.io" \in hints)

\* IsAuthentik: by its image, or by defining the outpost's own endpoint.
AuthentikServices(fleet, registry) ==
    {k \in Keys(fleet) : Service(fleet, k).image = "authentik" \/ k \in DefinesOutpost(registry)}

\* Discover: the names an identity provider of this fleet goes by.
Discover(fleet, registry) ==
    UNION {{Service(fleet, k).container}
           \cup {r.hostname : r \in ToSet(Service(fleet, k).tunnels)}
           \cup UNION {r.hosts : r \in ToSet(Service(fleet, k).routers)} :
            k \in AuthentikServices(fleet, registry)}

-----------------------------------------------------------------------------
AuthMethods == <<"authentik-forward-auth", "authentik-oauth", "authentik-ldap", "forward-auth",
                 "other-oauth", "ldap", "basic-auth", "none">>
AuthConfidences == <<"confirmed", "observed", "inferred">>
Rank(order, member) == CHOOSE i \in DOMAIN order : order[i] = member
Detected(method) == method # "none"

Account(method, detail, confidence, address, live) ==
    [method |-> method, detail |-> detail, confidence |-> confidence, address |-> address,
     live |-> live]

MaxChainDepth == 8
GateTokens == {"auth", "sso", "authentik"}

\* fromName: nobody defines it, so its name is all there is.
FromName(hints, ref) ==
    LET bare == BareName[ref]
        words == ToSet(Tokens[bare])
    IN  IF words \cap GateTokens = {} THEN <<>>
        ELSE <<Account(IF "authentik" \in words \/ HintMatch(hints, bare)
                         THEN "authentik-forward-auth" ELSE "forward-auth",
                       ref, "inferred", NoAddress, FALSE)>>

BareNames == {BareName[ref] : ref \in DOMAIN BareName}

\* What a reference says by itself, and through inner where it is a chain that leads on.
Consult(registry, hints, inner, ref, seen) ==
    LET bare == BareName[ref]
        found(accounts) == [found |-> accounts, seen |-> seen \cup {bare}]
    IN  IF bare = "" \/ bare \in seen THEN [found |-> <<>>, seen |-> seen]
        ELSE IF bare \notin DOMAIN registry THEN found(FromName(hints, ref))
        ELSE LET def == registry[bare]
             IN  CASE def.type = "forwardauth" ->
                        found(<<Account(IF NamesProvider(hints, def.address)
                                          THEN "authentik-forward-auth" ELSE "forward-auth",
                                        ref, "observed", def.address, FALSE)>>)
                   [] def.type \in {"basicauth", "digestauth"} ->
                        found(<<Account("basic-auth", ref, "observed", NoAddress, FALSE)>>)
                   [] def.type = "chain" -> Gather(inner, def.middlewares, seen \cup {bare})
                   [] OTHER -> found(<<>>)

\* classify: a reference, as many chains deep as may be left; what was seen is seen once for it.
Classify(registry, hints) ==
    LET reading[left \in 0..(MaxChainDepth + 1)] ==
            [ref \in DOMAIN BareName |-> [seen \in SUBSET BareNames |->
                IF left = 0 THEN [found |-> <<>>, seen |-> seen]
                ELSE Consult(registry, hints, reading[left - 1], ref, seen)]]
    IN  reading[MaxChainDepth + 1]

FromAccessPolicies(svc) ==
    [i \in DOMAIN Picked(svc.tunnels, {i \in DOMAIN svc.tunnels : svc.tunnels[i].access}) |->
        Account("other-oauth", "Cloudflare Access", "observed", NoAddress, FALSE)]

\* envAccount: one account per kind of key, of the identity provider when one value names it.
EnvAccount(svc, hints, kind, named, generic) ==
    LET asks == Picked(svc.env, {i \in DOMAIN svc.env : LET e == svc.env[i]
                                                       IN  kind \in e.asks /\ e.value # "" /\ ~Falsy(e.value)})
        naming == Picked(asks, {i \in DOMAIN asks : HintMatch(hints, asks[i].value)})
    IN  IF asks = <<>> THEN <<>>
        ELSE IF naming # <<>> THEN <<Account(named, Head(naming).key, "observed", NoAddress, FALSE)>>
        ELSE <<Account(generic, Head(asks).key, "observed", NoAddress, FALSE)>>

\* collapse: one account per method, detail and confidence.
SameAccount(a, b) == a.method = b.method /\ a.detail = b.detail /\ a.confidence = b.confidence
Collapse(accounts) ==
    Picked(accounts, {i \in DOMAIN accounts : \A j \in 1..(i - 1) : ~SameAccount(accounts[j], accounts[i])})

\* FromLabels: routers' middlewares, then the tunnels' policies, then the environment.
FromLabels(svc, registry, hints) ==
    LET ofRoute(route) == FlattenSeq([i \in DOMAIN route.middlewares |->
                Classify(registry, hints)[route.middlewares[i]][{}].found])
    IN  Collapse(FlattenSeq([i \in DOMAIN svc.routers |-> ofRoute(svc.routers[i])])
                 \o FromAccessPolicies(svc)
                 \o EnvAccount(svc, hints, "ldap", "authentik-ldap", "ldap")
                 \o EnvAccount(svc, hints, "oauth", "authentik-oauth", "other-oauth"))

-----------------------------------------------------------------------------
\* ordered: by confidence, then by method, a live reading first among equals.
Outranks(a, b) ==
    LET by(x) == <<Rank(AuthConfidences, x.confidence), Rank(AuthMethods, x.method),
                   IF x.live THEN 0 ELSE 1>>
        p == by(a)
        q == by(b)
    IN  \E i \in 1..3 : p[i] < q[i] /\ \A j \in 1..(i - 1) : p[j] = q[j]

\* Where two rank alike, they stay in order.
Precedes(accounts, i, j) ==
    Outranks(accounts[i], accounts[j]) \/ (i < j /\ ~Outranks(accounts[j], accounts[i]))

Ordered(accounts) ==
    [n \in DOMAIN accounts |->
        accounts[CHOOSE i \in DOMAIN accounts :
                    Cardinality({j \in DOMAIN accounts : Precedes(accounts, j, i)}) = n - 1]]

\* Resolve: the strongest account is the posture; without one nothing gates the service.
Resolve(accounts) ==
    LET all == Ordered(accounts)
    IN  IF all = <<>> THEN [method |-> "none", confidence |-> "observed", detail |-> ""]
        ELSE [method |-> all[1].method, confidence |-> all[1].confidence, detail |-> all[1].detail]

\* GateAddress: the first address of the strongest accounts.
GateAddress(accounts) ==
    LET all == Ordered(accounts)
        told == {i \in DOMAIN all : all[i].address.form # "none"}
    IN  IF told = {} THEN NoAddress ELSE all[Min(told)].address
=============================================================================
