------------------------------- MODULE Readers -------------------------------
(***************************************************************************)
(* internal/pipeline stages 4 to 10, with internal/traefikapi and          *)
(* internal/authentik: the two APIs a scan may read.  Each reader finds    *)
(* its endpoint, request by request, and reads it page by page; what they  *)
(* bring back is matched to the services and weighed with what the labels  *)
(* say.  The far ends answer any way they like, and the identity provider  *)
(* may be edited between two pages.                                        *)
(***************************************************************************)
EXTENDS ProxyApi, IdentityApi, Phases, Secrets

CONSTANTS
    Worlds,     \* what there is to scan: a fleet, a configuration, the two far ends
    Statuses,   \* the statuses the far ends answer with
    Errors,     \* the phases of the errors on the way
    PageSize,   \* entries per page
    MaxPages    \* authentik.maxPages

ASSUME ReadersAssumption ==
    /\ PageSize \in Nat \ {0} /\ MaxPages \in Nat \ {0}
    /\ Statuses \subseteq Nat
    /\ Errors \subseteq NetworkPhases \cup {"authorize"}

\* What a scan can be relied on for: a service has the fields of a service, lists are lists, a router
\* is reached under finitely many hosts, and what the labels refer to is a reference.  What the far
\* ends hold is what such a server writes: the proxy's routers and middlewares are the keys of a
\* document, and a middleware is of one type (wire.go:210); an application is the only one of its
\* slug, and a record names one the provider has.
ServiceParts == {"stack", "name", "container", "image", "labels", "env", "targets", "ports", "docker",
                 "networks", "tunnels", "routers"}
SoundService(svc) ==
    /\ ServiceParts \subseteq DOMAIN svc
    /\ IsList(svc.targets) /\ IsList(svc.docker.targets) /\ IsList(svc.env)
    /\ IsFiniteSet(DOMAIN svc.labels)
    /\ \A name \in NamedAt(svc.labels, "routers") :
         LET route == TraefikRoute(svc.labels, name)
         IN  IsFiniteSet(route.hosts) /\ IsList(route.middlewares) /\ ToSet(route.middlewares) \subseteq DOMAIN BareName
    /\ \A name \in NamedAt(svc.labels, "middlewares") :
         LET chain == ListAt(svc.labels, <<"middlewares", name, "chain">>)
         IN  IsList(chain) /\ ToSet(chain) \subseteq DOMAIN BareName
SoundTable(table) ==
    /\ IsList(table.routers)
    /\ \A r \in ToSet(table.routers) : IsList(r.middlewares) /\ IsList(r.entryPoints)
    /\ \A r, other \in ToSet(table.routers) : r.name = other.name => r = other
    /\ IsFiniteSet(DOMAIN table.middlewares) /\ "" \notin DOMAIN table.middlewares
    /\ \A ref \in DOMAIN table.middlewares :
         LET body == table.middlewares[ref].body
         IN  /\ \A type, other \in ToSet(TypeOrder) \cap DOMAIN body : type = other
             /\ "chain" \in DOMAIN body => IsList(body["chain"])
SoundWorld(w) ==
    /\ {"stacks", "services"} \subseteq DOMAIN w.fleet
    /\ IsList(w.fleet.services)
    /\ \A k \in Keys(w.fleet) : SoundService(Service(w.fleet, k))
    /\ SoundTable(w.table)
    /\ \A ep \in DOMAIN w.entrypoints : IsList(w.entrypoints[ep])
    /\ IsList(w.applications) /\ IsList(w.details) /\ IsList(w.outposts)
    /\ \A app \in ToSet(w.applications) : IsList(app.provider) /\ IsList(app.backchannel)
    /\ \A i, j \in DOMAIN w.applications : w.applications[i].slug = w.applications[j].slug => i = j
    /\ \A d \in ToSet(w.details) :
         SlugOf(d).slug \in {app.slug : app \in ToSet(w.applications)} \cup {""}

ASSUME WorldsAssumption == \A w \in Worlds : SoundWorld(w)

VARIABLES
    world,      \* the one being scanned
    fleet,      \* its services, with their routes once the labels are read
    stage,      \* how far Run is
    proxy,      \* traefikapi.Read
    identity,   \* authentik.Read
    far,        \* the identity provider's applications, as they now are
    edited,     \* history: whether they changed during the walk
    sent,       \* history: the addresses credentials were sent to, per reader
    vouched,    \* history: those that answered the identity reader openly, as an API
    verdict     \* per service, what is concluded about its gate

vars == <<world, fleet, stage, proxy, identity, far, edited, sent, vouched, verdict>>

Outcomes ==
    {[failed |-> TRUE, status |-> 0, json |-> FALSE, phase |-> p] : p \in Errors}
    \cup {[failed |-> FALSE, status |-> s, json |-> j, phase |-> FromStatus(s)] :
            s \in Statuses, j \in BOOLEAN}
Ok(o) == ~o.failed /\ o.phase = "connected"
Body(o) == ReadJSON(IF o.json THEN "json" ELSE "other")

\* A read that brought a body back: connected, or why it is none.
Fetched(o) == IF Ok(o) THEN Body(o) ELSE o.phase

Lists == <<"applications", "proxy", "oauth2", "outposts", "over">>
NoProxy == [pc |-> "idle", at |-> 0, asks |-> <<>>, attempts |-> <<>>, phase |-> "disabled", key |-> 0,
            credential |-> "none", snapshot |-> NoSnapshot]
NoIdentity == [pc |-> "idle", at |-> 0, asks |-> <<>>, attempts |-> <<>>, phase |-> "disabled", page |-> 1,
               total |-> NoCount, applications |-> <<>>, proxy |-> <<>>, oauth2 |-> <<>>, outposts |-> <<>>,
               assembled |-> <<>>, recovered |-> 0]
NoVerdict == [suppressed |-> {}, posture |-> <<>>, gates |-> <<>>, notes |-> <<>>, routers |-> <<>>]

TypeOK ==
    /\ stage \in {"routes", "read", "publish", "done"}
    /\ proxy.pc \in {"idle", "version", "retry", "raw", "entrypoints", "over"}
    /\ proxy.phase \in ConnectionPhases
    /\ identity.pc \in {"idle", "probe"} \cup ToSet(Lists)
    /\ identity.phase \in ConnectionPhases
    /\ identity.page \in 1..MaxPages
    /\ edited \in BOOLEAN

Init ==
    /\ world \in Worlds
    /\ fleet = world.fleet
    /\ stage = "routes"
    /\ proxy = NoProxy
    /\ identity = NoIdentity
    /\ far = world.applications
    /\ edited = FALSE
    /\ sent = {}
    /\ vouched = {}
    /\ verdict = NoVerdict

-----------------------------------------------------------------------------
\* routes: every service's tunnels and routers, from its labels.
Routes ==
    /\ stage = "routes"
    /\ stage' = "read"
    /\ fleet' = [fleet EXCEPT !.services =
            [k \in DOMAIN @ |-> [@[k] EXCEPT !.tunnels = Cloudflare(fleet.services[k].labels),
                                             !.routers = Traefik(fleet.services[k].labels)]]]
    /\ UNCHANGED <<world, proxy, identity, far, edited, sent, vouched, verdict>>

Registry == NewRegistry(fleet)

\* Both readers begin alike: off, at the configured endpoint, or with the candidates in order.
Begin(reader, url, enabled, candidates, first, configured) ==
    FirstHolding(<<
        <<~enabled,            [reader EXCEPT !.pc = "over", !.phase = "disabled"]>>,
        <<url # "",            [reader EXCEPT !.pc = configured, !.asks = <<[host |-> url, owned |-> TRUE]>>]>>,
        <<candidates = <<>>,   [reader EXCEPT !.pc = "over", !.phase = "not-configured"]>>,
        <<TRUE,                [reader EXCEPT !.pc = first, !.at = 1, !.asks = Cut(candidates, MaxCandidates)]>> >>)

Asked(reader) == reader.asks[IF reader.at = 0 THEN 1 ELSE reader.at]

\* reject: a candidate that is none is an attempt; after the last one its phase is the report's.
Rejected(reader, phase, first) ==
    IF reader.at = 0 \/ reader.at = Len(reader.asks)
      THEN [reader EXCEPT !.pc = "over", !.phase = phase,
                          !.attempts = IF reader.at = 0 THEN @ ELSE Append(@, phase)]
      ELSE [reader EXCEPT !.pc = first, !.at = @ + 1, !.attempts = Append(@, phase)]

Reading(s) == stage = "read" /\ s
OnlyProxy == UNCHANGED <<world, fleet, stage, identity, far, edited, vouched, verdict>>
OnlyIdentity == UNCHANGED <<world, fleet, stage, proxy, verdict>>

ProxyStart ==
    /\ Reading(proxy.pc = "idle")
    /\ proxy' = Begin(proxy, world.proxy.url, world.proxy.enabled,
                      ProxyCandidates(fleet, world.origins), "version", "version")
    /\ UNCHANGED sent
    /\ OnlyProxy

Challenged(status) == status \in {401, 403, 407} \cup 300..399

\* Mutant: the configured credential is offered to whoever asks for one.
OffersAnyone == world.proxy.credential

\* Whether a credential may be offered: to the configured endpoint, or a candidate that is proven.
Offers == world.proxy.credential /\ Asked(proxy).owned

Selected(read) == [read EXCEPT !.pc = "raw", !.key = IF read.at = 0 THEN 0 ELSE Asked(read).key]
Send(reader, c) == sent' = sent \cup {[reader |-> reader, host |-> c.host, configured |-> c.configured]}
Target(reader) == [host |-> Asked(reader).host, configured |-> reader.at = 0]

\* handshake: an anonymous read of the version; only a challenge brings out the credential.
ProxyVersion ==
    /\ Reading(proxy.pc = "version")
    /\ \E o \in Outcomes :
         IF ~o.failed /\ Challenged(o.status) /\ Offers
           THEN proxy' = [proxy EXCEPT !.pc = "retry"] /\ Send("proxy", Target(proxy))
           ELSE /\ UNCHANGED sent
                /\ proxy' = IF Fetched(o) = "connected" THEN Selected(proxy)
                            ELSE IF ~o.failed /\ Challenged(o.status) /\ proxy.at = 0
                              THEN Rejected(proxy, "credential", "version")
                              ELSE Rejected(proxy, Fetched(o), "version")
    /\ OnlyProxy

\* retry: the same read, with the credential.
ProxyRetry ==
    /\ Reading(proxy.pc = "retry")
    /\ \E o \in Outcomes :
         proxy' = IF Fetched(o) = "connected" THEN Selected([proxy EXCEPT !.credential = "basic"])
                                              ELSE Rejected(proxy, Fetched(o), "version")
    /\ UNCHANGED sent
    /\ OnlyProxy

\* request: every further read goes the way the handshake did.
SendAsSelected ==
    IF proxy.credential = "basic" THEN Send("proxy", Target(proxy)) ELSE UNCHANGED sent

\* readRawData: without the routing table nothing was read.
ProxyRawData ==
    /\ Reading(proxy.pc = "raw")
    /\ \E o \in Outcomes :
         proxy' = IF Fetched(o) = "connected"
                    THEN [proxy EXCEPT !.pc = "entrypoints", !.snapshot = Absorb(world.table)]
                    ELSE [proxy EXCEPT !.pc = "over", !.phase = Fetched(o)]
    /\ SendAsSelected
    /\ OnlyProxy

\* readEntrypoints: without them the read is a partial one.
ProxyEntrypoints ==
    /\ Reading(proxy.pc = "entrypoints")
    /\ \E o \in Outcomes :
         proxy' = IF Fetched(o) = "connected"
                    THEN [proxy EXCEPT !.pc = "over", !.phase = "connected",
                                       !.snapshot.entrypoints = world.entrypoints,
                                       !.snapshot.entrypointsRead = TRUE]
                    ELSE [proxy EXCEPT !.pc = "over", !.phase = "partial"]
    /\ SendAsSelected
    /\ OnlyProxy

-----------------------------------------------------------------------------
\* With an endpoint the token is next; without a token nothing is asked.
Chosen(read) ==
    IF world.identity.token THEN [read EXCEPT !.pc = "applications"]
                            ELSE [read EXCEPT !.pc = "over", !.phase = "authenticate"]

IdentityStart ==
    /\ Reading(identity.pc = "idle")
    /\ LET begun == Begin(identity, world.identity.url, world.identity.enabled,
                          IdentityCandidates(fleet, Registry), "probe", "chosen")
       IN  identity' = IF begun.pc = "chosen" THEN Chosen(begun) ELSE begun
    /\ UNCHANGED <<far, edited, sent, vouched>>
    /\ OnlyIdentity

\* selectEndpoint: an anonymous read; a refusal ends the search, without a token sent.
IdentityProbe ==
    /\ Reading(identity.pc = "probe")
    /\ \E o \in Outcomes :
         /\ identity' =
              IF ~o.failed /\ o.status \in {401, 403, 407}
                THEN [identity EXCEPT !.pc = "over", !.phase = o.phase]
              ELSE IF Fetched(o) = "connected" THEN Chosen(identity)
              ELSE Rejected(identity, Fetched(o), "probe")
         /\ vouched' = IF Ok(o) /\ o.json THEN vouched \cup {Asked(identity).host} ELSE vouched
    /\ UNCHANGED <<far, edited, sent>>
    /\ OnlyIdentity

\* What the far end has of a list: a page of the applications is cut before the policy filters
\* it, the others are of what the token may read.
Whole(list) ==
    CASE list = "applications" -> far
      [] list = "outposts" -> world.outposts
      [] OTHER -> Picked(world.details, {i \in DOMAIN world.details : world.details[i].list = list})
PageOf(list, p) ==
    Picked(Whole(list), {i \in DOMAIN Whole(list) :
        (p - 1) * PageSize < i /\ i <= p * PageSize /\ (list = "applications" => Whole(list)[i].visible)})
HasNext(list, p) == p * PageSize < Len(Whole(list))

After(list) == Lists[CHOOSE i \in 2..Len(Lists) : Lists[i - 1] = list]

\* Do, behind the last list: the applications are assembled, and what is neither listed nor rebuilt
\* makes the read a partial one.
ReportOf(read) ==
    LET details == read.proxy \o read.oauth2
        recovered == Cardinality(RecoveredSlugs(read.applications, details))
    IN  [read EXCEPT !.phase = IF Invisible(read.total, Len(read.applications), recovered) > 0
                                 THEN "partial" ELSE "connected",
                     !.recovered = recovered,
                     !.assembled = Assemble(read.applications, details, read.outposts)]

\* page and its three callers: one page of the list at hand, with the token.
IdentityPage ==
    /\ Reading(identity.pc \in ToSet(Lists) \ {"over"})
    /\ Send("identity", Target(identity))
    /\ LET list == identity.pc
           p == identity.page
           got == PageOf(list, p)
           read == [identity EXCEPT ![list] = @ \o got,
                        !.total = IF list = "applications" /\ p = 1 /\ world.counted THEN Len(far) ELSE @]
           more == HasNext(list, p) /\ got # <<>> /\ p < MaxPages
           next == [read EXCEPT !.pc = After(list), !.page = 1]
       IN  \E o \in Outcomes :
             identity' = IF Fetched(o) # "connected" THEN [identity EXCEPT !.pc = "over", !.phase = Fetched(o)]
                         ELSE IF more THEN [read EXCEPT !.page = @ + 1]
                         ELSE IF next.pc = "over" THEN ReportOf(next)
                         ELSE next
    /\ UNCHANGED <<far, edited, vouched>>
    /\ OnlyIdentity

\* Somebody edits the far end between two pages: an application goes, and the rest move up.
Edit ==
    /\ Reading(identity.pc \in ToSet(Lists) \ {"over"})
    /\ ~edited
    /\ far # <<>>
    /\ edited' = TRUE
    /\ far' = Tail(far)
    /\ UNCHANGED <<identity, sent, vouched>>
    /\ OnlyIdentity

-----------------------------------------------------------------------------
\* The service that answered as the identity provider's API.
IdentityKey ==
    IF OK(identity.phase) THEN GateService(fleet, [NoAddress EXCEPT !.host = Asked(identity).host, !.form = "bare"])
                          ELSE 0
AnsweredHosts == IF OK(identity.phase) THEN {Asked(identity).host} ELSE {}

\* The evidence that is weighed: a chain that proves the labels wrong takes their place.
Evidence(label, chain, apps) ==
    IF chain.suppress THEN chain.accounts \o apps ELSE label \o chain.accounts \o apps

ProxyNotes(k) ==
    IF k # proxy.key THEN {}
    ELSE (IF OK(proxy.phase) /\ proxy.credential = "none" THEN {<<"open API">>} ELSE {})
         \cup {<<"held", name>> : name \in FileProviderMiddlewares(proxy.snapshot, Registry)}

\* Stages 7 to 10: hints, the two matches, and per service the posture and who gates it; each is
\* concluded once, for those after it.
Conclude ==
    /\ stage = "read"
    /\ proxy.pc = "over"
    /\ identity.pc = "over"
    /\ stage' = "publish"
    /\ \E hints \in {NewHints(HostHints \cup Discover(fleet, Registry) \cup AnsweredHosts)},
          apps \in {ApplyIdentity(identity.assembled, fleet)},
          live \in {ApplyProxy(proxy.snapshot, fleet)} :
       \E label \in {[k \in Keys(fleet) |-> FromLabels(Service(fleet, k), Registry, hints)]} :
       \E chain \in {[k \in Keys(fleet) |-> PostureOf(
                [routers |-> live.byService[k], reachable |-> OK(proxy.phase),
                 chainComplete |-> OK(proxy.phase) /\ proxy.snapshot.entrypointsRead,
                 absent |-> AbsentRouters(live, Service(fleet, k)), labelAccounts |-> label[k],
                 hints |-> hints, fleet |-> fleet, authentikKey |-> IdentityKey,
                 applications |-> apps.byService[k]])]} :
       \E evidence \in {[k \in Keys(fleet) |-> Evidence(label[k], chain[k], apps.accounts[k])]} :
       LET gate(k) == GateService(fleet, GateAddress(evidence[k]))
       IN  verdict' =
             [suppressed |-> {k \in Keys(fleet) : chain[k].suppress},
              posture |-> [k \in Keys(fleet) |-> Resolve(evidence[k])],
              gates |-> [k \in Keys(fleet) |-> IF gate(k) = k THEN 0 ELSE gate(k)],
              notes |-> [k \in Keys(fleet) |-> chain[k].notes \cup apps.notes[k] \cup ProxyNotes(k)
                            \cup CloudflareNotes(Service(fleet, k).labels)
                            \cup TraefikNotes(Service(fleet, k).labels)],
              routers |-> live.byService]
    /\ UNCHANGED <<world, fleet, proxy, identity, far, edited, sent, vouched>>

\* mask: only when nothing reads the values any more.
Publish ==
    /\ stage = "publish"
    /\ stage' = "done"
    /\ fleet' = [fleet EXCEPT !.services =
            [k \in DOMAIN fleet.services |-> [fleet.services[k] EXCEPT
                !.env = [i \in DOMAIN fleet.services[k].env |-> Masked(fleet.services[k].env[i])]]]]
    /\ UNCHANGED <<world, proxy, identity, far, edited, sent, vouched, verdict>>

Finished == stage = "done" /\ UNCHANGED vars

Next ==
    \/ Routes \/ Conclude \/ Publish \/ Finished
    \/ ProxyStart \/ ProxyVersion \/ ProxyRetry \/ ProxyRawData \/ ProxyEntrypoints
    \/ IdentityStart \/ IdentityProbe \/ IdentityPage \/ Edit

Spec == Init /\ [][Next]_vars

-----------------------------------------------------------------------------
\* No password or token goes to an address nobody vouched for: the proxy's only to the configured
\* endpoint or to names and hosts under which a service's own labels publish the API; the
\* identity provider's only to the configured endpoint or to one that answered openly as an API
\* (read.go:287 and 281, candidates.go:118 and 209 decide it together).
CredentialsGoToProvenAddresses ==
    \A s \in sent :
        \/ s.configured /\ s.host = (IF s.reader = "proxy" THEN world.proxy.url ELSE world.identity.url)
        \/ s.reader = "identity" /\ s.host \in vouched
        \/ /\ s.reader = "proxy"
           /\ \E k \in Keys(fleet) :
                LET lbls == Service(fleet, k).labels
                    api == {r \in NamedAt(lbls, "routers") : At(lbls, <<"routers", r, "service">>) = "api@internal"}
                IN  /\ api # {}
                    /\ \/ s.host \in {Service(fleet, k).name, Service(fleet, k).container}
                       \/ \E r \in api : s.host \in At(lbls, <<"routers", r, "rule">>)

\* No application is lost without a word: unless somebody edited the list under the walk, what the
\* provider counts is listed, rebuilt from a record, or the reason why the read is partial -
\* whatever the policy hid, the page limit cut off or a record named twice (read.go:79-84, 206).
WhatIsMissingIsSaid ==
    identity.pc = "over" /\ OK(identity.phase) /\ world.counted /\ ~edited =>
        LET known == {identity.assembled[i].slug : i \in DOMAIN identity.assembled}
        IN  (identity.phase = "connected") = (\A i \in DOMAIN far : far[i].slug \in known)

\* The middlewares a router's requests pass, as the far end has them: its own and its
\* entrypoints', and whatever a chain of them leads on to.
Passed(router) ==
    LET defs == world.table.middlewares
        attached == UNION {ToSet(world.entrypoints[ep]) : ep \in ToSet(router.entryPoints) \cap DOMAIN world.entrypoints}
        inner(ref) == IF ref \in DOMAIN defs /\ "chain" \in DOMAIN defs[ref].body
                        THEN ToSet(defs[ref].body["chain"]) ELSE {}
        reach[n \in 0..Cardinality(DOMAIN defs)] ==
            IF n = 0 THEN ToSet(router.middlewares) \cup attached
                     ELSE reach[n - 1] \cup UNION {inner(ref) : ref \in reach[n - 1]}
    IN  reach[Cardinality(DOMAIN defs)]

\* What the labels claim is only set aside where the proxy was read to the end, a router of the
\* service works, and none of its working routers leads anybody through a gate, however deep in
\* chains or entrypoints it is - unless an entry is reported as too deep to have been looked at
\* (chain.go:242 rests on what snapshot.go:140-224 put together).
SuppressionIsProven ==
    stage \in {"publish", "done"} =>
        \A k \in verdict.suppressed :
            LET working == {r \in ToSet(verdict.routers[k]) : Working(r)}
            IN  /\ proxy.phase = "connected"
                /\ working # {}
                /\ \A r \in working :
                     \/ \E mw \in ToSet(r.middlewares) : mw.error = "deeper"
                     \/ LET raw == CHOOSE x \in ToSet(world.table.routers) : x.name = r.router
                        IN  \A ref \in Passed(raw) \cap DOMAIN world.table.middlewares :
                              DOMAIN world.table.middlewares[ref].body
                                \cap {"forwardauth", "basicauth", "digestauth"} = {}

\* A posture never rests on less than was found: whatever was read of a service, the reported
\* method is no weaker than the strongest gate its labels name, unless the proxy contradicted
\* those labels (pipeline.go:304-308, posture.go:393).
SilenceWeakensNothing ==
    stage \in {"publish", "done"} =>
        \A k \in Keys(fleet) \ verdict.suppressed :
            LET routes == Service(fleet, k).routers
                gates == {ref \in UNION {ToSet(routes[i].middlewares) : i \in DOMAIN routes} :
                    BareName[ref] # "" /\ \E s \in Keys(fleet), t \in {"forwardauth", "basicauth", "digestauth"} :
                        <<"middlewares", BareName[ref], t>> \in DOMAIN Service(fleet, s).labels}
            IN  gates # {} => Detected(verdict.posture[k].method)
                              /\ verdict.posture[k].confidence \in {"confirmed", "observed"}

\* A gate said to be confirmed is one that a request really meets: a middleware of a router that
\* works, on a proxy read to the end, or a provider that is in the path by itself or carried by an
\* outpost, of an application that more than its name ties to this service (posture.go:393 weighs
\* what match.go:575 and chain.go:164 let through).
ConfirmedMeansEnforced ==
    stage \in {"publish", "done"} =>
        \A k \in Keys(fleet) : verdict.posture[k].confidence = "confirmed" =>
            \/ /\ proxy.phase = "connected"
               /\ \E r \in ToSet(verdict.routers[k]) :
                    Working(r) /\ \E mw \in ToSet(r.middlewares) : AuthMethodOf(mw.type) # "none"
            \/ \E app \in ToSet(identity.assembled) :
                 LET match == MatchApplication(fleet, app)
                 IN  match.key = k /\ ~ByNameAlone(match) /\ \E p \in ToSet(app.providers) : Enforced(p)
=============================================================================
