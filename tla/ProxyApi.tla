------------------------------- MODULE ProxyApi -------------------------------
(***************************************************************************)
(* internal/traefikapi: what the running proxy's routing table says: each  *)
(* router's whole chain, whose router it is, and what the chain proves     *)
(* about the service behind it.                                            *)
(*                                                                         *)
(* The wire is a record of functions from names, as the API answers them;  *)
(* a middleware's body is a function from its fields that are no meta data *)
(* to what they hold.                                                      *)
(***************************************************************************)
EXTENDS Discovery

NoSnapshot == [routers |-> <<>>, middlewares |-> <<>>, services |-> <<>>,
               entrypoints |-> <<>>, entrypointsRead |-> FALSE]

\* parseMiddleware: the first field that is no meta data names the type.
ParseMiddleware(key, wire) ==
    LET types == {i \in DOMAIN TypeOrder : TypeOrder[i] \in DOMAIN wire.body}
        type == IF types = {} THEN "" ELSE TypeOrder[Min(types)]
    IN  [name |-> IF wire.name = "" THEN key ELSE wire.name,
         type |-> type,
         address |-> IF type = "forwardauth" THEN wire.body[type] ELSE NoAddress,
         chain |-> IF type = "chain" THEN wire.body[type] ELSE <<>>,
         error |-> wire.error]

\* absorb: every middleware under its key, and under its own name where nobody has that key.
AbsorbMiddlewares(wire) ==
    LET def == [key \in DOMAIN wire |-> ParseMiddleware(key, wire[key])]
        aliases == {def[key].name : key \in DOMAIN wire}
    IN  [ref \in DOMAIN wire \cup aliases |->
            IF ref \in DOMAIN wire THEN def[ref]
            ELSE def[CHOOSE key \in DOMAIN wire : def[key].name = ref]]

Absorb(wire) ==
    [routers |-> wire.routers,
     middlewares |-> AbsorbMiddlewares(wire.middlewares),
     services |-> wire.services,
     entrypoints |-> <<>>, entrypointsRead |-> FALSE]

\* servers: the service a router names, as it names it or with its own provider.
Servers(snap, router) ==
    FirstHolding(<<
        <<router.service = "",                                      <<>>>>,
        <<router.service \in DOMAIN snap.services,
          IF router.service \in DOMAIN snap.services THEN snap.services[router.service] ELSE <<>>>>,
        <<<<router.service, router.provider>> \in DOMAIN snap.services,
          IF <<router.service, router.provider>> \in DOMAIN snap.services
            THEN snap.services[<<router.service, router.provider>>] ELSE <<>>>>,
        <<TRUE,                                                     <<>>>> >>)

-----------------------------------------------------------------------------
ChainDepth == 5

\* Whatever a reference may be: a key, a name, or what a router, an entrypoint or a chain names.
References(snap) ==
    DOMAIN snap.middlewares
    \cup (UNION {ToSet(snap.middlewares[ref].chain) : ref \in DOMAIN snap.middlewares})
    \cup (UNION {ToSet(router.middlewares) : router \in ToSet(snap.routers)})
    \cup (UNION {ToSet(snap.entrypoints[ep]) : ep \in DOMAIN snap.entrypoints})

Entry(attached, via, name, type, address, error) ==
    [name |-> name, type |-> type, address |-> address, error |-> error, via |-> via, attached |-> attached]

\* Mutant: one level, the chains' members left where they are.
ExpandFlat(snap, attached) ==
    [via \in {""} |-> [ref \in References(snap) |-> [seen \in SUBSET References(snap) |->
        IF ref \in seen \/ ref \notin DOMAIN snap.middlewares THEN [found |-> <<>>, seen |-> seen]
        ELSE LET def == snap.middlewares[ref]
             IN  [found |-> <<Entry(attached, via, def.name, def.type, def.address, "")>>,
                  seen |-> seen \cup {ref}]]]]

\* One call of expand, inner being the calls it makes: an entry for what a reference leads to,
\* also when it leads nowhere.
Visit(snap, attached, inner, via, ref, seen) ==
    LET after(entry) == [found |-> <<entry>>, seen |-> seen \cup {ref}]
    IN  IF ref \in seen THEN [found |-> <<>>, seen |-> seen]
        ELSE IF ref \notin DOMAIN snap.middlewares
          THEN after(Entry(attached, via, ref, "", NoAddress, "undefined"))
        ELSE LET def == snap.middlewares[ref]
                 own == after(Entry(attached, via, def.name, def.type, def.address, def.error))
                 more == Gather(inner[def.name], def.chain, own.seen)
             IN  [found |-> own.found \o more.found, seen |-> more.seen]

\* expand: a reference, as many levels deep as are left, and an entry that says so where none is;
\* the references seen are seen once for the whole router.
Expand(snap, attached) ==
    LET names == {""} \cup {snap.middlewares[ref].name : ref \in DOMAIN snap.middlewares}
        at[left \in 0..ChainDepth] ==
            [via \in names |-> [ref \in References(snap) |-> [seen \in SUBSET References(snap) |->
                IF ref = "" THEN [found |-> <<>>, seen |-> seen]
                ELSE IF left = 0
                  THEN [found |-> <<Entry(attached, via, ref, "", NoAddress, "deeper")>>, seen |-> seen]
                ELSE Visit(snap, attached, at[left - 1], via, ref, seen)]]]
    IN  at[ChainDepth]

\* chain: the router's own list, then its entrypoints' where those were read.
ChainOf(snap, router) ==
    LET own == Gather(Expand(snap, FALSE)[""], router.middlewares, {})
        attaches(ep) == IF ep \in DOMAIN snap.entrypoints THEN snap.entrypoints[ep] ELSE <<>>
        attached == FlattenSeq([i \in DOMAIN router.entryPoints |-> attaches(router.entryPoints[i])])
    IN  IF ~snap.entrypointsRead THEN own.found
        ELSE own.found \o Gather(Expand(snap, TRUE)[""], attached, own.seen).found

\* Live: a router as it is reported.
Live(snap, router) ==
    [router |-> router.name, provider |-> router.provider, status |-> router.status,
     error |-> router.error, hosts |-> router.hosts, entryPoints |-> router.entryPoints,
     middlewares |-> ChainOf(snap, router), servers |-> Servers(snap, router)]

Working(r) == ~r.error /\ r.status \in {"", "enabled"}

-----------------------------------------------------------------------------
HasContainerIPs(fleet) == \E k \in Keys(fleet) : Service(fleet, k).docker.ips # {}

\* ruleBackend: the containers its servers are at; an IP says nothing without Docker's.
RuleBackend(fleet, r) ==
    LET addressed == {a \in ToSet(r.servers) : a.form # "none"}
    IN  Rule(r.servers # <<>>,
             UNION {IF a.form = "ip" THEN ByIP(fleet, a.host) ELSE ByName(fleet, a.host) :
                      a \in {a \in addressed : a.form = "ip" => HasContainerIPs(fleet)}},
             FALSE)

\* ruleRouterName: a name only Docker's provider takes from labels.
RuleRouterName(fleet, r) ==
    Rule(r.provider = "docker",
         {k \in Keys(fleet) : /\ r.provider = "docker"
                              /\ \E t \in ToSet(Service(fleet, k).routers) : t.router = BareName[r.router]},
         FALSE)

RuleHostRule(fleet, r) == Rule(r.hosts # {}, UNION {ByHostname(fleet, h) : h \in r.hosts}, FALSE)

MatchRouter(fleet, r) ==
    FirstMatch(<<RuleBackend(fleet, r), RuleRouterName(fleet, r), RuleHostRule(fleet, r)>>)

\* Apply: each router is some service's, or nobody's with the reason why.
ApplyProxy(snap, fleet) ==
    LET live == [i \in DOMAIN snap.routers |-> Live(snap, snap.routers[i])]
        match == [i \in DOMAIN live |-> MatchRouter(fleet, live[i])]
        of(k) == Picked([i \in DOMAIN live |-> i], {i \in DOMAIN live : match[i].key = k})
    IN  [byService |-> [k \in Keys(fleet) |-> [n \in DOMAIN of(k) |-> live[of(k)[n]]]],
         unmatched |-> {[router |-> live[i].router, reason |-> Reason(match[i].trace)] :
                            i \in {i \in DOMAIN live : match[i].key = 0}},
         liveNames |-> {BareName[r.router] : r \in ToSet(live)}]

\* Absent: the routers a service's labels declare and the proxy does not serve.
AbsentRouters(match, svc) == {r.router : r \in ToSet(svc.routers)} \ match.liveNames

\* FileProviderMiddlewares: what the proxy holds and no scanned file defines.
FileProviderMiddlewares(snap, registry) ==
    {name \in {snap.middlewares[ref].name : ref \in DOMAIN snap.middlewares} :
        BareName[name] \notin DOMAIN registry}

-----------------------------------------------------------------------------
AuthMethodOf(type) ==
    FirstHolding(<< <<type = "forwardauth",                   "forward-auth">>,
                    <<type \in {"basicauth", "digestauth"},   "basic-auth">>,
                    <<TRUE,                                   "none">> >>)

\* attribute: the service that answered as the identity provider, or a name that says so.
Attributed(in, address) ==
    /\ address.form # "none"
    /\ \/ GateService(in.fleet, address) # 0 /\ GateService(in.fleet, address) = in.authentikKey
       \/ NamesProvider(in.hints, address)

LiveAccount(in, mw) ==
    Account(IF AuthMethodOf(mw.type) = "forward-auth" /\ Attributed(in, mw.address)
              THEN "authentik-forward-auth" ELSE AuthMethodOf(mw.type),
            mw.name, "confirmed",
            IF mw.type = "forwardauth" THEN mw.address ELSE NoAddress, TRUE)

Gates(r) == Picked(r.middlewares, {i \in DOMAIN r.middlewares : AuthMethodOf(r.middlewares[i].type) # "none"})

\* liveAccounts: the gates of the working routers' chains.
LiveAccounts(in, working) ==
    FlattenSeq([i \in DOMAIN working |->
        [j \in DOMAIN Gates(working[i]) |-> LiveAccount(in, Gates(working[i])[j])]])

Claims(accounts) == \E a \in ToSet(accounts) : Detected(a.method) /\ a.detail # ""
Gated(accounts) == \E a \in ToSet(accounts) : Detected(a.method)

\* carriedProviders: those an outpost serves in a mode that needs the proxy to ask it.
CarriedProviders(apps) ==
    UNION {{p.name : p \in {p \in ToSet(app.providers) :
        p.kind \in {"proxy", "ldap", "radius"} /\ p.outposts # {} /\ p.mode # "proxy"}} : app \in apps}

\* crossCheck: whether the proxy asks whom the identity provider says it does.
CrossCheck(in, accounts) ==
    LET forwards == in.authentikKey # 0
            /\ \E a \in ToSet(accounts) : a.address.form # "none" /\ GateService(in.fleet, a.address) = in.authentikKey
        carried == CarriedProviders(in.applications) # {}
    IN  FirstHolding(<< <<forwards /\ carried,   {<<"agree">>}>>,
                        <<forwards,              {<<"forwards, and serves nothing">>}>>,
                        <<carried,               {<<"serves, and is passed by">>}>>,
                        <<TRUE,                  {}>> >>)

\* PostureOf: an API that did not answer says nothing; routers that do not work protect nothing
\* and prove nothing; only a chain read to its end may contradict the labels.
PostureOf(in) ==
    LET working == Picked(in.routers, {i \in DOMAIN in.routers : Working(in.routers[i])})
        live == LiveAccounts(in, working)
        said == {<<"error", r.router>> : r \in {r \in ToSet(in.routers) : ~Working(r)}}
                \cup {<<"not served", name>> : name \in in.absent}
        contradicts == Claims(in.labelAccounts) /\ ~Gated(live)
        posture(accounts, notes, suppress) == [accounts |-> accounts, notes |-> notes, suppress |-> suppress]
    IN  FirstHolding(<<
            <<~in.reachable,
              posture(<<>>, {}, FALSE)>>,
            <<~in.chainComplete,
              posture(<<>>, said \cup IF contradicts THEN {<<"difference, not settled">>} ELSE {}, FALSE)>>,
            <<working = <<>>,
              posture(<<>>, said, FALSE)>>,
            <<TRUE,
              posture(live, said \cup CrossCheck(in, live)
                            \cup IF contradicts THEN {<<"the chain has no gate">>} ELSE {}, contradicts)>> >>)
=============================================================================
