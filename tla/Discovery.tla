------------------------------ MODULE Discovery ------------------------------
(***************************************************************************)
(* internal/traefikapi and internal/authentik, candidates.go: where an API *)
(* may be, from what the scan knows of the services; and the shape both    *)
(* packages' match.go have: rules in order, each of which must find exactly *)
(* one service or say why it does not.                                     *)
(***************************************************************************)
EXTENDS Labels

MaxCandidates == 8         \* transport.AttemptCap
MaxPortsPerCandidate == 3

FirstOnce(list) == Picked(list, {i \in DOMAIN list : \A j \in 1..(i - 1) : list[j] # list[i]})
Cut(list, n) == SubSeq(list, 1, Min({n, Len(list)}))

DialNames(svc) ==
    LET names == <<svc.container, svc.name>>
    IN  FirstOnce(Picked(names, {i \in DOMAIN names : names[i] # ""}))

\* apiPorts: what it publishes inside, in the compose file and by Docker, then the default.
ApiPorts(svc, default) == Cut(FirstOnce(svc.targets \o svc.docker.targets \o <<default>>), MaxPortsPerCandidate)

Internal(k, svc, default, owned) ==
    FlattenSeq([i \in DOMAIN DialNames(svc) |->
        [j \in DOMAIN ApiPorts(svc, default) |->
            [host |-> DialNames(svc)[i], port |-> ApiPorts(svc, default)[j], key |-> k, owned |-> owned]]])

Public(k, hosts, owned) ==
    [i \in DOMAIN hosts |-> [host |-> hosts[i], port |-> "443", key |-> k, owned |-> owned]]

RouterHosts(routers) == FlattenSeq([i \in DOMAIN routers |-> SetToSeq(routers[i].hosts)])
AllHostnames(svc) ==
    FirstOnce([i \in DOMAIN svc.tunnels |-> svc.tunnels[i].hostname] \o RouterHosts(svc.routers))

-----------------------------------------------------------------------------
\* declaresInternalAPI: the router through which the proxy publishes itself.
InternalAPI == "api@internal"
DeclaresInternalAPI(svc) == \E r \in ToSet(svc.routers) : r.service = InternalAPI

\* signal: why a service may be the proxy; only its own labels prove that it is.
Signals(svc, k, proxies) == DeclaresInternalAPI(svc) \/ k \in proxies \/ svc.image = "traefik"

\* apiHostnames: of a proven proxy only the hosts its API is published at.
ApiHostnames(svc, owned) ==
    IF owned THEN FirstOnce(RouterHosts(
                Picked(svc.routers, {i \in DOMAIN svc.routers : svc.routers[i].service = InternalAPI})))
             ELSE AllHostnames(svc)

\* Candidates: the names only containers can reach before the public ones.
ProxyCandidates(fleet, proxies) ==
    LET asks == Picked([k \in Keys(fleet) |-> k],
                       {k \in Keys(fleet) : Signals(Service(fleet, k), k, proxies)})
        svc(i) == Service(fleet, asks[i])
        owned(i) == DeclaresInternalAPI(svc(i))
    IN  FlattenSeq([i \in DOMAIN asks |-> Internal(asks[i], svc(i), "8080", owned(i))])
        \o FlattenSeq([i \in DOMAIN asks |-> Public(asks[i], ApiHostnames(svc(i), owned(i)), owned(i))])

\* The identity provider's, of every service that is one.
IdentityCandidates(fleet, registry) ==
    LET asks == Picked([k \in Keys(fleet) |-> k], AuthentikServices(fleet, registry))
        svc(i) == Service(fleet, asks[i])
    IN  FlattenSeq([i \in DOMAIN asks |-> Internal(asks[i], svc(i), "9000", FALSE)])
        \o FlattenSeq([i \in DOMAIN asks |-> Public(asks[i], AllHostnames(svc(i)), FALSE)])

-----------------------------------------------------------------------------
\* One rule's step: what it had to go on, whom it found, and what it would not read.
Rule(evidence, found, blocked) ==
    [key |-> TheOnly(found),
     outcome |-> FirstHolding(<< <<Cardinality(found) = 1,  "matched">>,
                                 <<Cardinality(found) > 1,  "contested">>,
                                 <<blocked,                 "blocked">>,
                                 <<~evidence,               "no-evidence">>,
                                 <<TRUE,                    "no-candidate">> >>)]

\* match: the first rule that finds one; the steps up to it are the trace.
FirstMatch(rules) ==
    LET hits == {i \in DOMAIN rules : rules[i].outcome = "matched"}
    IN  IF hits = {} THEN [key |-> 0, rule |-> 0, trace |-> rules]
        ELSE [key |-> rules[Min(hits)].key, rule |-> Min(hits), trace |-> Cut(rules, Min(hits))]

\* unmatched: ambiguous when some rule found several.
Reason(trace) ==
    IF \E i \in DOMAIN trace : trace[i].outcome = "contested" THEN "ambiguous" ELSE "no-candidate"
=============================================================================
