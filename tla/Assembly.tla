------------------------------ MODULE Assembly ------------------------------
(***************************************************************************)
(* internal/pipeline, with internal/fleet: what a scan concludes about a   *)
(* fleet from its files, its containers and what the two                   *)
(* readers say, and what the next scan says has changed.  The stages run   *)
(* one after another and each reads what the ones before left.             *)
(*                                                                         *)
(* The world is what a scan finds: the disk; the containers the Engine     *)
(* lists, as module Fanout leaves them; and, by stack and service name,    *)
(* what the readers of module Readers say of a service.                    *)
(***************************************************************************)
EXTENDS RouteLabels, Judgement, Declarations, Changes, Secrets

CONSTANTS
    Worlds,           \* the worlds a first scan may find
    Edits(_),         \* the worlds the next one may find instead of this one
    Scanned(_),       \* scan.Run: the stacks read from a disk (module Scan), and what is wrong with it
    CutRef(_),        \* cutRef: a reference by its parts, the stack and the service if it names both
    LabelKey(_),      \* the segments of a label's key after its prefix
    LabelValue(_, _)  \* a label's value as what its key makes of it

\* What a scan can be relied on for: lists are lists, a stack has the fields of a stack and a service
\* those of a service, neither has any that later stages fill in, and no two stacks are of one
\* directory (scan.go: a stack's id is the directory's name); and who answers the probe, answers
\* with a status.
StackParts == {"id", "project", "volumes", "networks", "services"}
ServiceParts == {"name", "container", "ports", "expose", "networks", "mounts", "labels", "dependsOn", "env", "sidecar"}
IsRecord(r) == r = [p \in DOMAIN r |-> r[p]]
SoundStack(stack) ==
    /\ StackParts \subseteq DOMAIN stack
    /\ IsList(stack.volumes) /\ IsList(stack.services)
    /\ \A i \in DOMAIN stack.services :
            /\ ServiceParts \subseteq DOMAIN stack.services[i]
            /\ DOMAIN stack.services[i] \cap {"ingress", "auth", "apps", "probe"} = {}
            /\ IsRecord(stack.services[i].sidecar)
            /\ DOMAIN stack.services[i].sidecar \cap VerdictParts = {}
            /\ IsList(stack.services[i].sidecar.auth)
SoundStacks(stacks) ==
    /\ IsList(stacks)
    /\ \A s \in DOMAIN stacks : SoundStack(stacks[s])
    /\ \A s, t \in DOMAIN stacks : stacks[s].id = stacks[t].id => s = t
SoundWorld(w) ==
    /\ SoundStacks(Scanned(w.disk).stacks)
    /\ \A url \in DOMAIN w.far.answers : w.far.answers[url].status # 0

ASSUME WorldsAssumption == \A w \in Worlds \cup UNION {Edits(v) : v \in Worlds} : SoundWorld(w)

VARIABLES
    world,    \* what there is to find
    fleet,    \* what the scan holds of it: the stacks, the services, and what is said of them
    stage,    \* the stage Run is at
    ingress,  \* per service, its ingress kinds
    origins,  \* per service and tunnel, where the origin leads
    proxies,  \* the services an origin leads through
    deps,     \* the resolved dependencies
    refused,  \* the references that name no one service
    notes,    \* per service, the notes of these stages
    probes,   \* per service, what the probe recorded, and the whole run's report
    run,
    verdicts, \* per service, what its sidecar comes to
    graph,    \* what is drawn
    overview, \* what is published
    before,   \* the scan before this one, what it found, if there was one
    note      \* what the log is told

ownVars == <<ingress, origins, proxies, deps, refused, notes>>
lateVars == <<probes, run, verdicts, graph, overview>>
logVars == <<before, note>>
vars == <<world, fleet, stage, ownVars, lateVars, logVars>>

NoGraph == [nodes |-> {}, edges |-> {}]
NoFleet == [stacks |-> <<>>, services |-> <<>>, warnings |-> {}]
Nothing == [hop |-> 0, kind |-> "none"]
NoAuth == [method |-> "none", enforced |-> FALSE]

Stages == <<"scan", "routes", "classify", "origins", "depends", "match", "probe", "declare", "draw", "describe", "done">>

TypeOK ==
    /\ stage \in ToSet(Stages)
    /\ stage # "routes" => ingress \in [Keys(fleet) -> SUBSET ToSet(IngressKinds)]
    /\ proxies \subseteq Keys(fleet)
    /\ \A d \in deps : d.from \in Keys(fleet) /\ d.to \in Keys(fleet) /\ d.from # d.to /\ (d.observed \/ d.declared)
    /\ \A k \in DOMAIN origins : \A t \in DOMAIN origins[k] :
         (origins[k][t].hop # 0) = (origins[k][t].kind = "fleet-service")

\* Run begins with nothing read and nothing concluded.
Init ==
    /\ world \in Worlds
    /\ before = <<>>
    /\ fleet = NoFleet
    /\ stage = "scan"
    /\ ingress = <<>>
    /\ origins = <<>>
    /\ proxies = {}
    /\ deps = {}
    /\ refused = {}
    /\ notes = <<>>
    /\ probes = <<>>
    /\ run = NoRun
    /\ verdicts = <<>>
    /\ graph = NoGraph
    /\ overview = <<>>
    /\ note = Quietly

-----------------------------------------------------------------------------
\* scan.Run, and the services stack by stack, each with the place of its stack.
New(s) == [stack |-> s, tunnels |-> <<>>, routers |-> <<>>, live |-> <<>>, docker |-> NoDocker]
Placed(s, svc) ==
    [f \in DOMAIN New(s) \cup DOMAIN svc |-> IF f \in DOMAIN New(s) THEN New(s)[f] ELSE svc[f]]
Fleet(scan) ==
    LET stack(found) == [f \in DOMAIN found \ {"services"} |-> found[f]]
        services(s) == [i \in DOMAIN scan.stacks[s].services |-> Placed(s, scan.stacks[s].services[i])]
    IN  [stacks |-> [s \in DOMAIN scan.stacks |-> stack(scan.stacks[s])], warnings |-> scan.warnings,
         services |-> FlattenSeq([s \in DOMAIN scan.stacks |-> services(s)])]
ReadFleet ==
    /\ stage = "scan"
    /\ stage' = "routes"
    /\ fleet' = Fleet(Scanned(world.disk))
    /\ UNCHANGED <<world, ownVars, lateVars, logVars>>

\* A service's labels by the segments of their keys.
ParsedLabels(lbls) ==
    [key \in {LabelKey(l) : l \in DOMAIN lbls} |->
        LabelValue(key, lbls[CHOOSE l \in DOMAIN lbls : LabelKey(l) = key])]

\* The state under a key: of containers that share it, the last one listed.
Get(containers, P(_)) ==
    LET found == {i \in DOMAIN containers : P(containers[i])}
    IN  IF found = {} THEN <<>> ELSE <<containers[Max(found)].state>>

\* container: by the compose project and the service, then by the container's name.
Container(k) ==
    LET svc == Service(fleet, k)
        ofCompose == Get(world.containers, LAMBDA c : c.project = Stack(fleet, k).project /\ c.service = svc.name)
        ofName == Get(world.containers, LAMBDA c : c.state.name = svc.container)
    IN  CASE ofCompose # <<>> -> ofCompose[1] [] ofCompose = <<>> /\ ofName # <<>> -> ofName[1] [] OTHER -> NoDocker

\* routes: what each service's own labels declare, and the container behind it.
Discovered(k, lbls) ==
    [Service(fleet, k) EXCEPT !.tunnels = Cloudflare(lbls), !.routers = Traefik(lbls), !.docker = Container(k)]
Routes ==
    LET lbls == [k \in Keys(fleet) |-> ParsedLabels(Service(fleet, k).labels)]
    IN  /\ stage = "routes"
        /\ stage' = "classify"
        /\ fleet' = [fleet EXCEPT !.services = [k \in Keys(fleet) |-> Discovered(k, lbls[k])]]
        /\ ingress' = [k \in Keys(fleet) |-> {}]
        /\ origins' = [k \in Keys(fleet) |-> <<>>]
        /\ probes' = [k \in Keys(fleet) |-> NoProbe]
        /\ verdicts' = [k \in Keys(fleet) |-> Apply(NoDeclaration, {}, NoAuth, NoProbe, {})]
        /\ notes' = [k \in Keys(fleet) |-> Service(fleet, k).notes
                                           \cup CloudflareNotes(lbls[k]) \cup TraefikNotes(lbls[k])]
        /\ UNCHANGED <<world, proxies, deps, refused, run, graph, overview, logVars>>

-----------------------------------------------------------------------------
\* IngressSet: an external kind hides the internal one, and "none" stands alone.
IngressSet(kinds) ==
    LET external == kinds \cap ExternalKinds
    IN  FirstHolding(<< <<external # {},  external>>,
                        <<kinds = {},     {"none"}>>,
                        <<TRUE,           kinds>> >>)

ServiceIngress(k) ==
    LET svc == Service(fleet, k)
        when(kind, holds) == IF holds THEN {kind} ELSE {}
    IN  IngressSet(
            when("public", \E r \in ToSet(svc.tunnels) : r.hostname # "")
            \cup when("traefik", \E r \in ToSet(svc.routers) : r.hosts # {} \/ r.rule)
            \cup when("lan", svc.ports # <<>>)
            \cup when("internal", svc.expose # <<>> \/ HasNeighbour(fleet, k)))

\* classify: every service's ingress, from its routes, its ports and its networks.
Classify ==
    /\ stage = "classify"
    /\ stage' = "origins"
    /\ ingress' = [k \in Keys(fleet) |-> ServiceIngress(k)]
    /\ UNCHANGED <<world, fleet, origins, proxies, deps, refused, notes, lateVars, logVars>>

-----------------------------------------------------------------------------
\* namesSelf: the three names a service has on its own networks.
NamesSelf(k, host) == Fold[host] \in DnsNames(Service(fleet, k))

\* Mutant: the first service that fits, whichever others fit as well.
FirstFits(k, candidates) ==
    LET reachable == Reachable(fleet, k, candidates)
    IN  IF reachable = {} THEN [hop |-> 0, kind |-> "unresolved"]
                          ELSE [hop |-> Min(reachable), kind |-> "fleet-service"]

\* The rule of both look-ups: exactly one candidate on a network of this service's.
OnlyReachable(k, candidates) ==
    LET reachable == Reachable(fleet, k, candidates)
    IN  [hop  |-> TheOnly(reachable),
         kind |-> IF TheOnly(reachable) # 0 THEN "fleet-service" ELSE "unresolved"]

\* resolveHostPort: by the published port; the service's own port is its own.
ResolveHostPort(k, a) ==
    LET port == Port(a)
        publishers == ByHostPort(fleet, port)
    IN  FirstHolding(<<
            <<port = "",         [hop |-> 0, kind |-> "unresolved"]>>,
            <<k \in publishers,  [hop |-> 0, kind |-> "self-host-port"]>>,
            <<TRUE,              OnlyReachable(k, publishers)>> >>)

\* resolveOrigin: in this order.
ResolveOrigin(k, a) ==
    FirstHolding(<<
        <<a.form = "none",                          [hop |-> 0, kind |-> "unresolved"]>>,
        <<a.form # "ip" /\ NamesSelf(k, a.host),    [hop |-> 0, kind |-> "self-network"]>>,
        <<a.form = "ip",                            ResolveHostPort(k, a)>>,
        <<a.form = "bare",                          OnlyReachable(k, ByName(fleet, a.host))>>,
        <<TRUE,                                     [hop |-> 0, kind |-> "unresolved"]>> >>)

\* Origins: every tunnel that names an origin; an unresolved one is noted on the service.
Origins ==
    LET resolved == [k \in Keys(fleet) |->
            [t \in DOMAIN Service(fleet, k).tunnels |->
                LET r == Service(fleet, k).tunnels[t]
                IN  IF r.origin.form = "absent" THEN Nothing ELSE ResolveOrigin(k, r.origin)]]
    IN  /\ stage = "origins"
        /\ stage' = "depends"
        /\ origins' = resolved
        /\ proxies' = (UNION {{resolved[k][t].hop : t \in DOMAIN resolved[k]} : k \in Keys(fleet)}) \ {0}
        /\ notes' = [k \in Keys(fleet) |-> notes[k] \cup
                {<<"origin", t>> : t \in {t \in DOMAIN resolved[k] :
                                            resolved[k][t].kind = "unresolved"}}]
        /\ UNCHANGED <<world, fleet, ingress, deps, refused, lateVars, logVars>>

-----------------------------------------------------------------------------
\* cutRef and resolveRef: stack/service, then this stack, then the whole fleet if only one is called so.
ResolveRef(k, ref) ==
    LET parts == CutRef(ref)
        named == {c \in Keys(fleet) : Service(fleet, c).name = ref /\ c # k}
        qualified == TheOnly({c \in Keys(fleet) : <<Stack(fleet, c).id, Service(fleet, c).name>> = parts})
        here == InStack(fleet, Service(fleet, k).stack, ref)
    IN  FirstHolding(<<
            <<Len(parts) = 2 /\ qualified = k,  0>>,
            <<Len(parts) = 2,                   qualified>>,
            <<here = k,                         0>>,
            <<here # 0,                         here>>,
            <<TRUE,                             TheOnly(named)>> >>)

\* Whom a service depends on: by its compose file, where itself does not count, and by its sidecar.
NeedsByCompose(k) ==
    {InStack(fleet, Service(fleet, k).stack, n) : n \in ToSet(Service(fleet, k).dependsOn)} \ {0, k}
NeedsBySidecar(k) == {ResolveRef(k, ref) : ref \in ToSet(Service(fleet, k).sidecar.declared)} \ {0}

\* add: one entry per pair, with either side that mentions it.
Dependency(k, to) == [from |-> k, to |-> to, observed |-> to \in NeedsByCompose(k), declared |-> to \in NeedsBySidecar(k)]

\* Dependencies: service by service; what names nobody is a note or a refusal.
Dependencies ==
    LET apart(k) == {to \in NeedsByCompose(k) \cup NeedsBySidecar(k) : Shared(fleet, k, to) = {}}
    IN  /\ stage = "depends"
        /\ stage' = "match"
        /\ deps' = UNION {{Dependency(k, to) : to \in NeedsByCompose(k) \cup NeedsBySidecar(k)} : k \in Keys(fleet)}
        /\ refused' = UNION {{<<k, i>> : i \in {i \in DOMAIN Service(fleet, k).sidecar.declared :
                        ResolveRef(k, Service(fleet, k).sidecar.declared[i]) = 0}} : k \in Keys(fleet)}
        /\ notes' = [k \in Keys(fleet) |-> notes[k]
                \cup {<<"no such service", n>> : n \in {n \in ToSet(Service(fleet, k).dependsOn) :
                                InStack(fleet, Service(fleet, k).stack, n) = 0}}
                \cup {<<"no shared network", to>> : to \in apart(k)}]
        /\ UNCHANGED <<world, fleet, ingress, origins, proxies, lateVars, logVars>>

-----------------------------------------------------------------------------
\* A service no reader says anything of.
Unsaid == [live |-> <<>>, auth |-> NoAuth, gate |-> <<>>, matched |-> {}]
NameOf(k) == <<Stack(fleet, k).id, Service(fleet, k).name>>

\* What module Readers comes to, service by service: live routers, applications, posture and gate.
Match ==
    LET says == [k \in Keys(fleet) |->
            IF NameOf(k) \in DOMAIN world.says THEN world.says[NameOf(k)] ELSE Unsaid]
    IN  /\ stage = "match"
        /\ stage' = "probe"
        /\ fleet' = [stacks |-> fleet.stacks, warnings |-> fleet.warnings,
                     services |-> [k \in Keys(fleet) |-> [Service(fleet, k) EXCEPT !.live = says[k].live]],
                     auth |-> [k \in Keys(fleet) |-> says[k].auth],
                     matched |-> [k \in Keys(fleet) |-> says[k].matched],
                     gates |-> [k \in Keys(fleet) |->
                                    TheOnly({c \in Keys(fleet) \ {k} : NameOf(c) = says[k].gate})]]
        /\ UNCHANGED <<world, ownVars, lateVars, logVars>>

\* probe.Do: every service that has an address and no login that is known; the requests run at
\* once (module Fanout), and what each service comes to does not depend on the others.
Probe ==
    LET decision == ProbeDecision(world.probe, world.override)
        e == [k \in Keys(fleet) |->
                Eligible(Service(fleet, k), ConfiguredEdgeAuth(fleet.auth[k]), world.lanHost)]
        results == [k \in Keys(fleet) |->
                IF decision.enabled /\ e[k].targets # <<>> THEN Ask(e[k].targets, world.far) ELSE NoProbe]
    IN  /\ stage = "probe"
        /\ stage' = "declare"
        /\ probes' = results
        /\ run' = RunReport(decision, e, results)
        /\ UNCHANGED <<world, fleet, ownVars, verdicts, graph, overview, logVars>>

\* declare.Apply: every service's sidecar against what was detected.
Declare ==
    LET result == [k \in Keys(fleet) |->
            Apply(Service(fleet, k).sidecar, ingress[k], fleet.auth[k], probes[k],
                  {r[2] : r \in {r \in refused : r[1] = k}})]
    IN  /\ stage = "declare"
        /\ stage' = "draw"
        /\ verdicts' = result
        /\ notes' = [k \in Keys(fleet) |-> notes[k] \cup result[k].notes]
        /\ UNCHANGED <<world, fleet, ingress, origins, proxies, deps, refused, probes, run, graph, overview, logVars>>

-----------------------------------------------------------------------------
\* Nodes and edges, by the ids BuildGraph gives them; a second one of an id is dropped.
ServiceNode(k) == <<"svc", k>>
NetworkNode(n) == <<"net", n>>
VolumeNode(v) == <<"vol", v>>
HostNode(h) == <<"host", h>>
Outside == <<"outside", "">>
Edge(kind, source, target) == [kind |-> kind, source |-> source, target |-> target]

Tunnels(k) == {t \in DOMAIN Service(fleet, k).tunnels : Service(fleet, k).tunnels[t].hostname # ""}
RouterHosts(k) == UNION {r.hosts : r \in ToSet(Service(fleet, k).routers)}
HostsOf(k) == {Service(fleet, k).tunnels[t].hostname : t \in Tunnels(k)} \cup RouterHosts(k)

\* declaredVolume: the first whose real name is the source, or the source after the project's name.
VolumeOf(k, m) ==
    LET vols == Stack(fleet, k).volumes
        at == SelectInSeq(vols, LAMBDA v : v.name \in {m.source, Stack(fleet, k).project \o "_" \o m.source})
    IN  IF m.type # "volume" \/ m.source = "" \/ at = 0 THEN {} ELSE {vols[at].name}

\* Mutant: the way through a hop ends there.
PathToTheHop(k, t) ==
    LET host == HostNode(Service(fleet, k).tunnels[t].hostname)
        hop == origins[k][t].hop
    IN  {Edge("ingress", host, ServiceNode(IF hop # 0 THEN hop ELSE k))}

\* ingressEdges: a tunnel goes through the service its origin leads to.
TunnelPath(k, t) ==
    LET host == HostNode(Service(fleet, k).tunnels[t].hostname)
        hop == origins[k][t].hop
    IN  IF hop # 0
          THEN {Edge("ingress", host, ServiceNode(hop)), Edge("ingress", ServiceNode(hop), ServiceNode(k))}
          ELSE {Edge("ingress", host, ServiceNode(k))}

HostEdges == UNION {{Edge("ingress", Outside, HostNode(h)) : h \in HostsOf(k)} : k \in Keys(fleet)}
TunnelEdges == UNION {UNION {TunnelPath(k, t) : t \in Tunnels(k)} : k \in Keys(fleet)}
RouterEdges == UNION {{Edge("ingress", HostNode(h), ServiceNode(k)) : h \in RouterHosts(k)} : k \in Keys(fleet)}
IngressEdges == HostEdges \cup TunnelEdges \cup RouterEdges

\* Mutant: only a dependency's own side of the network knows of it.
FlowOut(k, net) ==
    IF \E d \in deps : net \in Shared(fleet, d.from, d.to) /\ d.from = k
      THEN "to-network" ELSE ""

\* leg: which way a service's use of a network points, from the dependencies it carries.
Flow(k, net) ==
    LET carried == {d \in deps : net \in Shared(fleet, d.from, d.to)}
        out == \E d \in carried : d.from = k
        in == \E d \in carried : d.to = k
    IN  FirstHolding(<< <<out /\ in, "both">>, <<out, "to-network">>, <<in, "to-service">>,
                        <<TRUE, "">> >>)

\* Mutant: a network with one member has no node.
DrawnIfConnecting(net) == Cardinality(Members(fleet, net)) > 1

\* networkNodes: all but the solo local ones.
DrawnNetwork(net) == Drawn(fleet, net)

NetworkEdges ==
    UNION {{[kind |-> "network", source |-> ServiceNode(k), target |-> NetworkNode(net),
             flow |-> Flow(k, net)] :
                net \in {net \in Service(fleet, k).networks : Drawn(fleet, net)}} : k \in Keys(fleet)}

VolumeEdges ==
    UNION {UNION {{Edge("volume", ServiceNode(k), VolumeNode(v)) : v \in VolumeOf(k, m)} :
                    m \in ToSet(Service(fleet, k).mounts)} : k \in Keys(fleet)}

\* authEdges: who gates whom, and the applications with all that stands behind them.
Gating ==
    {Edge("auth", ServiceNode(fleet.gates[k]), ServiceNode(k)) : k \in {k \in Keys(fleet) : fleet.gates[k] # 0}}

\* application: every one that is drawn, matched or not.
DrawnApps == world.unmatched \cup UNION {fleet.matched[k] : k \in Keys(fleet)}

AppNodes ==
    UNION {{<<"app", a.slug>>} \cup UNION {{<<"provider", p.name>>} \cup {<<"outpost", o>> : o \in p.outposts} :
                                            p \in a.providers} : a \in DrawnApps}
\* The routers nobody matched stand by themselves.
RouterNodes == {<<"router", r>> : r \in world.proxy.unmatched}
ProviderEdges(a, p) ==
    {Edge("auth", <<"provider", p.name>>, <<"app", a.slug>>)}
    \cup {Edge("auth", <<"outpost", o>>, <<"provider", p.name>>) : o \in p.outposts}
BehindApps == UNION {UNION {ProviderEdges(a, p) : p \in a.providers} : a \in DrawnApps}
MatchEdges == UNION {{Edge("auth", <<"app", a.slug>>, ServiceNode(k)) : a \in fleet.matched[k]} : k \in Keys(fleet)}
AppEdges == BehindApps \cup MatchEdges

\* Summarize: what either reader read, with what of it was matched.
IdentitySummary ==
    [reachable |-> OK(world.identity.phase), applications |-> Cardinality(DrawnApps),
     configured |-> world.identity.total, withheld |-> world.identity.withheld,
     recovered |-> world.identity.recovered, providers |-> world.identity.providers,
     outposts |-> world.identity.outposts,
     matched |-> Cardinality({k \in Keys(fleet) : fleet.matched[k] # {}}),
     names |-> {a.slug : a \in DrawnApps}]

ProxySummary ==
    LET live(k) == ToSet(Service(fleet, k).live)
    IN  [reachable |-> OK(world.proxy.phase), routers |-> world.proxy.routers,
         middlewares |-> world.proxy.middlewares, services |-> world.proxy.services,
         matched |-> Cardinality({k \in Keys(fleet) : live(k) # {}}),
         names |-> world.proxy.unmatched \cup {r.router : r \in UNION {live(k) : k \in Keys(fleet)}}]

\* mask: what is secret in a service's environment is hidden.
HiddenEnv(svc) == [i \in DOMAIN svc.env |-> Masked(svc.env[i])]

\* A service as it is published: what its files say, with all that was concluded.
Published(k) ==
    LET svc == Service(fleet, k)
        leads(t) == LaidOver(svc.tunnels[t], [leads |-> origins[k][t]])
        judged == [drift |-> verdicts[k].drift, unconfirmed |-> verdicts[k].unconfirmed,
                   agreement |-> verdicts[k].agreement]
        all == [tunnels |-> [t \in DOMAIN svc.tunnels |-> leads(t)],
                sidecar |-> LaidOver(svc.sidecar, judged),
                env |-> HiddenEnv(svc),
                ingress |-> ingress[k], auth |-> <<fleet.auth[k], verdicts[k].exposed>>, apps |-> fleet.matched[k],
                probe |-> probes[k], notes |-> notes[k], stack |-> Stack(fleet, k).id]
    IN  LaidOver(all, svc)

\* The services of one stack, in order.
OfStack(f, s) == Picked([k \in Keys(f) |-> k], {k \in Keys(f) : Service(f, k).stack = s})

\* The stacks by id, each with its services.
Ids(f) == {f.stacks[s].id : s \in DOMAIN f.stacks}
PublishedStacks ==
    LET place == [id \in Ids(fleet) |-> CHOOSE s \in DOMAIN fleet.stacks : fleet.stacks[s].id = id]
        services(s) == [i \in DOMAIN OfStack(fleet, s) |-> Published(OfStack(fleet, s)[i])]
    IN  [id \in Ids(fleet) |->
            LaidOver(fleet.stacks[place[id]], [services |-> services(place[id])])]

\* Run's end: the stacks, the counts, the summaries and a report of every connection.
Overview ==
    LET report(target, end) == [target |-> target, phase |-> end.phase, endpoint |-> end.endpoint]
    IN  [stacks |-> PublishedStacks,
         stats |-> Stats(fleet, ingress, probes, verdicts, deps),
         identity |-> IdentitySummary, proxy |-> ProxySummary,
         connections |-> <<report("docker", world.docker), report("authentik", world.identity),
                           report("traefik", world.proxy),
                           [target |-> "probe", phase |-> run.phase, endpoint |-> ""]>>]

\* BuildGraph: the nodes and the edges of every kind.
BuildGraph ==
    [nodes |->
        {ServiceNode(k) : k \in Keys(fleet)}
        \cup {NetworkNode(n) : n \in {n \in NetworkNames(fleet) : DrawnNetwork(n)}}
        \cup {VolumeNode(v.name) : v \in UNION {ToSet(fleet.stacks[s].volumes) : s \in DOMAIN fleet.stacks}}
        \cup AppNodes \cup RouterNodes
        \cup UNION {{Outside, HostNode(h)} : h \in UNION {HostsOf(k) : k \in Keys(fleet)}},
     edges |->
        NetworkEdges \cup VolumeEdges \cup IngressEdges \cup Gating \cup AppEdges
        \cup {Edge("depends-on", ServiceNode(d.from), ServiceNode(d.to)) : d \in deps}]

\* Run's last stage: the graph is drawn and the overview put together.
Draw ==
    /\ stage = "draw"
    /\ stage' = "describe"
    /\ overview' = Overview
    /\ graph' = BuildGraph
    /\ UNCHANGED <<world, fleet, ownVars, probes, run, verdicts, logVars>>

-----------------------------------------------------------------------------
\* The listener is told: what moved since the scan before.
Tell ==
    /\ stage = "describe"
    /\ stage' = "done"
    /\ note' = Describe(IF before = <<>> THEN <<>> ELSE <<before[1].overview>>, overview)
    /\ UNCHANGED <<world, fleet, ownVars, lateVars, before>>

\* Somebody edits a file, or something else than a file moves, and the next scan looks; one of
\* them is followed.
Rescan ==
    /\ stage = "done"
    /\ before = <<>>
    /\ before' = <<[world |-> world, fleet |-> fleet, overview |-> overview]>>
    /\ world' \in Edits(world)
    /\ fleet' = NoFleet
    /\ stage' = "scan"
    /\ ingress' = <<>>
    /\ origins' = <<>>
    /\ proxies' = {}
    /\ deps' = {}
    /\ refused' = {}
    /\ notes' = <<>>
    /\ probes' = <<>>
    /\ run' = NoRun
    /\ verdicts' = <<>>
    /\ graph' = NoGraph
    /\ overview' = <<>>
    /\ note' = Quietly

Finished == stage = "done" /\ UNCHANGED vars

Next ==
    \/ ReadFleet \/ Routes \/ Classify \/ Origins \/ Dependencies \/ Match \/ Probe \/ Declare \/ Draw
    \/ Tell \/ Rescan \/ Finished
Spec == Init /\ [][Next]_vars

-----------------------------------------------------------------------------
\* Nothing is drawn between things that are not there: every edge the graph ends up with, of
\* whatever stage, has both its nodes (graph.go: nodes and edges are added by different passes).
EveryEdgeHasBothEnds ==
    \A e \in graph.edges : e.source \in graph.nodes /\ e.target \in graph.nodes

ReachedFrom(starts) ==
    LET onward(nodes) ==
            nodes \cup {e.target : e \in {e \in graph.edges : e.kind = "ingress" /\ e.source \in nodes}}
    IN  onward(onward(onward(onward(starts))))

\* What the labels say is open is what the drawing leads to: a public service has a way to it from
\* outside, a routed one too unless its rules name no host, and whatever has one is public, routed
\* or the hop of one that is (the kinds come from ingress.go, the ways from origins.go and graph.go).
IngressIsDrawn ==
    stage \in {"describe", "done"} =>
        \A k \in Keys(fleet) :
            LET reached == ServiceNode(k) \in ReachedFrom({Outside})
            IN  /\ "public" \in ingress[k] => reached
                /\ "traefik" \in ingress[k] => reached \/ RouterHosts(k) = {}
                /\ reached => ingress[k] \cap {"public", "traefik"} # {} \/ k \in proxies

\* A hop is drawn only where nothing else could have been meant: the service an origin leads to
\* shares a network with the one that declares it, and no other that goes by the same name
\* or publishes the same port does.
OriginIsUnambiguous ==
    \A k \in DOMAIN origins : \A t \in DOMAIN origins[k] :
        LET hop == origins[k][t].hop
            a == Service(fleet, k).tunnels[t].origin
            meant == IF a.form = "ip" THEN ByHostPort(fleet, Port(a)) ELSE ByName(fleet, a.host)
        IN  hop # 0 => /\ hop \in meant /\ Shared(fleet, k, hop) # {} /\ hop # k
                       /\ \A other \in meant \ {hop, k} : Shared(fleet, k, other) = {}

\* A dependency over a network is on both its legs: the one of who depends points to the network,
\* the one of who is depended on points away, and a network that carries one is never left out.
DependencyIsOnItsLegs ==
    stage \in {"describe", "done"} =>
        \A d \in deps : \A net \in Shared(fleet, d.from, d.to) :
            LET leg(k, ways) == \E e \in graph.edges :
                    /\ e.kind = "network" /\ e.source = ServiceNode(k) /\ e.target = NetworkNode(net)
                    /\ e.flow \in ways
            IN  leg(d.from, {"to-network", "both"}) /\ leg(d.to, {"to-service", "both"})

\* Every service that is open from outside is accounted for, once: of those that are reachable and
\* show no gate, neither configured nor to the probe, each is counted as exposed or as protected by
\* its declaration, and what the probe found is what the counts say (compare.go:106, drift.go:39-45,
\* stats.go:65-92 and probe.go:144-158 count apart).
ExposureIsAccounted ==
    overview # <<>> =>
        LET open == {k \in Keys(fleet) : /\ ingress[k] \cap ExternalKinds # {}
                                         /\ ~ConfiguredEdgeAuth(fleet.auth[k])
                                         /\ VerdictOf(probes[k]) # "gated"}
            counts == overview.stats
        IN  /\ counts.exposed + counts.declaredProtected = Cardinality(open)
            /\ <<counts.probeGated, counts.probeOpen>> = <<run.gated, run.open>>

\* What a sidecar is said to agree or conflict with was detected in the layer it speaks of, and what
\* it supplies or adds was not: no mechanism is both corroborated and left unconfirmed
\* (compare.go:106-170 and 182-199 decide apart).
CorroborationIsCoherent ==
    \A k \in DOMAIN verdicts :
        LET v == verdicts[k]
            unconfirmed == UnconfirmedMechanisms(Service(fleet, k).sidecar.auth, fleet.auth[k].method)
        IN  /\ v.agreement \in {"redundant", "conflicts"} => v.mechanism \notin unconfirmed
            /\ v.agreement \in {"supplies", "supplements"} /\ DeclaredFamily(v.mechanism) # "" =>
                    v.mechanism \in unconfirmed

\* A stack's files as they are, its services in their order: without what containers and far ends
\* say, the place of the stack and what was remarked on reading them, and with what is secret hidden.
FileSays(svc) == [Without(svc, {"docker", "live", "stack", "notes"}) EXCEPT !.env = HiddenEnv(svc)]
FilesOf(f, id) ==
    {<<f.stacks[s], [i \in DOMAIN OfStack(f, s) |-> FileSays(Service(f, OfStack(f, s)[i]))]>> :
        s \in {s \in DOMAIN f.stacks : f.stacks[s].id = id}}

\* A stack is said to have changed exactly if its own files did: not for a container, a probe or a
\* far end, nor for another stack's files that move what is concluded of this one's
\* (changes.go:113-161 and 213-245, over what every stage before has added).
ChangedMeansItsOwnFiles ==
    before # <<>> /\ stage = "done" =>
        LET was == before[1].fleet
            differs(id) == FilesOf(was, id) # FilesOf(fleet, id)
        IN  /\ \A line \in ToSet(note.config) :
                    line.what \in {"added", "removed", "changed"} => differs(line.id)
            /\ note.config = <<>> => \A id \in Ids(was) \cup Ids(fleet) : ~differs(id)
=============================================================================
