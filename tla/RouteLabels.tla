----------------------------- MODULE RouteLabels -----------------------------
(***************************************************************************)
(* internal/labels, the routes: what a service's own labels say of the     *)
(* tunnels and the routers that lead to it.                                *)
(*                                                                         *)
(* The labels of a service are a function from parsed keys to values: a    *)
(* key is the tuple of its segments after the prefix, a list value is a    *)
(* sequence, a rule the set of its hosts, an address a record of module    *)
(* FleetIndex with one more field, whether it is an outpost's endpoint.    *)
(***************************************************************************)
EXTENDS FleetIndex

CONSTANTS
    BareName    \* a reference without the provider after its "@"

Absent == "absent"
NoAddress == [scheme |-> "", host |-> "", form |-> "none", port |-> "", outpost |-> FALSE]
NoOrigin == [NoAddress EXCEPT !.form = "absent"]

At(lbls, key) == IF key \in DOMAIN lbls THEN lbls[key] ELSE Absent
ListAt(lbls, key) == IF key \in DOMAIN lbls THEN lbls[key] ELSE <<>>
AddressAt(lbls, key) == IF key \in DOMAIN lbls THEN lbls[key] ELSE NoAddress
NamedAt(lbls, part) == {key[2] : key \in {key \in DOMAIN lbls : key[1] = part}}

Truthy(value) == value \in {"true", "1", "yes", "on"}
Falsy(value) == value \in {"false", "0", "no", "off"}

-----------------------------------------------------------------------------
\* routerTLS: "tls" says so, or a subkey of it without a word against.
RouterTLS(lbls, name) ==
    LET tls == At(lbls, <<"routers", name, "tls">>)
    IN  Truthy(tls) \/ (~Falsy(tls) /\ <<"routers", name, "tls.certresolver">> \in DOMAIN lbls)

\* The port a router leads to: its service's, the one of its name, the only one there is.
ServicePort(lbls, name) ==
    LET port(of) == At(lbls, <<"services", of>>)
        service == At(lbls, <<"routers", name, "service">>)
        ports == NamedAt(lbls, "services")
    IN  FirstHolding(<<
            <<service # Absent /\ port(BareName[service]) # Absent,  port(BareName[service])>>,
            <<port(name) # Absent,                                   port(name)>>,
            <<TRUE, IF Cardinality(ports) = 1 THEN port(CHOOSE p \in ports : TRUE) ELSE Absent>> >>)

TraefikRoute(lbls, name) ==
    [router |-> name,
     rule |-> <<"routers", name, "rule">> \in DOMAIN lbls,
     hosts |-> IF <<"routers", name, "rule">> \in DOMAIN lbls
                 THEN lbls[<<"routers", name, "rule">>] ELSE {},
     middlewares |-> ListAt(lbls, <<"routers", name, "middlewares">>),
     service |-> At(lbls, <<"routers", name, "service">>),
     servicePort |-> ServicePort(lbls, name),
     tls |-> RouterTLS(lbls, name)]

\* Traefik: one route per named router, none at all when the proxy is told to leave it.
Traefik(lbls) ==
    IF Falsy(At(lbls, <<"enable">>)) THEN <<>>
    ELSE LET names == SetToSeq(NamedAt(lbls, "routers"))
         IN  [i \in DOMAIN names |-> TraefikRoute(lbls, names[i])]

TraefikNotes(lbls) ==
    LET enable == At(lbls, <<"enable">>)
    IN  IF Falsy(enable) /\ NamedAt(lbls, "routers") # {} THEN {<<"serves none">>}
        ELSE IF enable # Absent /\ ~Falsy(enable) /\ ~Truthy(enable) THEN {<<"enable is neither">>}
        ELSE {}

-----------------------------------------------------------------------------
Flat == -1   \* the routes without an index, first

\* A tunnel is off by its own word, or by the flat group's when it has none.
TunnelEnable(lbls, i) ==
    LET own == At(lbls, <<"tunnels", i, "enable">>)
    IN  IF own = Absent THEN At(lbls, <<"tunnels", Flat, "enable">>) ELSE own

TunnelOn(lbls, i) ==
    /\ ~Falsy(TunnelEnable(lbls, i))
    /\ At(lbls, <<"tunnels", i, "hostname">>) \notin {Absent, ""}

\* Cloudflare: a route per group that names a hostname and is not switched off.
Cloudflare(lbls) ==
    LET open == {i \in NamedAt(lbls, "tunnels") : TunnelOn(lbls, i)}
        on == [n \in 1..Cardinality(open) |-> CHOOSE i \in open : Cardinality({j \in open : j < i}) = n - 1]
        field(i, f) == At(lbls, <<"tunnels", i, f>>)
        origin(i) == IF <<"tunnels", i, "service">> \in DOMAIN lbls
                       THEN lbls[<<"tunnels", i, "service">>] ELSE NoOrigin
    IN  [n \in DOMAIN on |-> [hostname |-> field(on[n], "hostname"),
                              origin |-> origin(on[n]),
                              access |-> field(on[n], "access") # Absent]]

\* The flat group that only governs the others is no route somebody forgot to finish.
CloudflareNotes(lbls) ==
    LET fields(i) == {key[3] : key \in {key \in DOMAIN lbls : key[1] = "tunnels" /\ key[2] = i}}
        named(i) == At(lbls, <<"tunnels", i, "hostname">>) \notin {Absent, ""}
    IN  {<<"no hostname", i>> : i \in {i \in NamedAt(lbls, "tunnels") :
            /\ ~Falsy(TunnelEnable(lbls, i)) /\ ~named(i)
            /\ ~(i = Flat /\ fields(i) = {"enable"})}}
=============================================================================
