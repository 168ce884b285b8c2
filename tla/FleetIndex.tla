----------------------------- MODULE FleetIndex -----------------------------
(***************************************************************************)
(* internal/fleet, the two tables every later stage looks things up in:    *)
(* the Index of names, ports, addresses and hostnames, and the Networks.   *)
(*                                                                         *)
(* A fleet is a record: the scanned stacks, and the services stack by      *)
(* stack.  A service's key is its place in that sequence, which is unique  *)
(* as stack and service name are together.  A name is a string, and Fold   *)
(* the lower-cased one a lookup goes by; "" is an absent name.             *)
(***************************************************************************)
EXTENDS Integers, FiniteSets, Precedence, SequencesExt

CONSTANTS Fold

\* An address is a record: its scheme, its host as it is folded, what form the host has ("none",
\* "ip", a "bare" name or a dotted "fqdn"), and the port if one is written.
\* ParseAddress: the port that is meant, written or named by the scheme.
Port(address) ==
    FirstHolding(<< <<address.port # "",         address.port>>,
                    <<address.scheme = "http",   "80">>,
                    <<address.scheme = "https",  "443">>,
                    <<TRUE,                      "">> >>)

Keys(fleet) == DOMAIN fleet.services
Service(fleet, key) == fleet.services[key]
Stack(fleet, key) == fleet.stacks[fleet.services[key].stack]

NoDocker == [name |-> "", ips |-> {}, ports |-> <<>>, running |-> FALSE]

Named(entries) == {Fold[e] : e \in entries} \ {""}

\* The Index: what a service is known by. Each is folded on its way in and on its way out.
DnsNames(svc) == Named({svc.name, svc.container, svc.docker.name})
HostPorts(svc) == {p.published : p \in ToSet(svc.ports \o svc.docker.ports)} \ {""}
Hostnames(svc) == Named({r.hostname : r \in ToSet(svc.tunnels)}
                        \cup UNION {r.hosts : r \in ToSet(svc.routers)})

ByName(fleet, name) == {k \in Keys(fleet) : Fold[name] \in DnsNames(Service(fleet, k))}
ByIP(fleet, ip) == {k \in Keys(fleet) : ip \in Service(fleet, k).docker.ips}
ByHostPort(fleet, port) == {k \in Keys(fleet) : port \in HostPorts(Service(fleet, k))}
ByHostname(fleet, host) == {k \in Keys(fleet) : Fold[host] \in Hostnames(Service(fleet, k))}

\* ByURL: a hostname somebody declared before an address, and an address before a name.
ByURL(fleet, address) ==
    FirstHolding(<< <<address.form = "none",                      {}>>,
                    <<ByHostname(fleet, address.host) # {},       ByHostname(fleet, address.host)>>,
                    <<address.form = "ip",                        ByIP(fleet, address.host)>>,
                    <<TRUE,                                       ByName(fleet, address.host)>> >>)

\* The one service of a set; 0 when there is none, or several.
TheOnly(keys) == IF Cardinality(keys) = 1 THEN CHOOSE k \in keys : TRUE ELSE 0

\* InStack: the service of this very name in a stack; 0 when there is none.
InStack(fleet, stack, name) ==
    TheOnly({k \in Keys(fleet) : Service(fleet, k).stack = stack /\ Service(fleet, k).name = name})

\* GateService: the one service an address leads to.
GateService(fleet, address) == TheOnly(ByURL(fleet, address))

-----------------------------------------------------------------------------
\* Networks: membership as declared, external when any stack says so.
NetworkNames(fleet) == UNION {Service(fleet, k).networks : k \in Keys(fleet)}
Members(fleet, net) == {k \in Keys(fleet) : net \in Service(fleet, k).networks}
StacksOn(fleet, net) == {Service(fleet, k).stack : k \in Members(fleet, net)}
External(fleet, net) ==
    \E s \in DOMAIN fleet.stacks : \E d \in ToSet(fleet.stacks[s].networks) : d.external /\ d.name = net

SoloLocal(fleet, net) == ~External(fleet, net) /\ Cardinality(Members(fleet, net)) = 1
Drawn(fleet, net) == ~SoloLocal(fleet, net)

Shared(fleet, a, b) ==
    IF a = b THEN {} ELSE Service(fleet, a).networks \cap Service(fleet, b).networks

Reachable(fleet, from, candidates) ==
    {c \in candidates : c # from /\ Shared(fleet, from, c) # {}}

HasNeighbour(fleet, key) ==
    \E net \in Service(fleet, key).networks : Cardinality(Members(fleet, net)) > 1
=============================================================================
