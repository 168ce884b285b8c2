---------------------------- MODULE Declarations ----------------------------
(***************************************************************************)
(* internal/declare and fleet.Stats: what a sidecar says of a service next *)
(* to what the scan detected, and the counts of the whole fleet.           *)
(***************************************************************************)
EXTENDS FleetIndex, Functions

IngressKinds == <<"public", "traefik", "lan", "internal", "none">>
ExternalKinds == {"public", "traefik", "lan"}

\* A service nobody has declared anything of.
NoDeclaration == [present |-> FALSE, auth |-> <<>>, accepted |-> FALSE, expected |-> {}, declared |-> <<>>]

\* The family a detected method or a declared mechanism is of; "" for those of none.
DetectedFamily(method) ==
    FirstHolding(<< <<method \in {"authentik-oauth", "other-oauth"},           "oidc">>,
                    <<method \in {"authentik-ldap", "ldap"},                   "ldap">>,
                    <<method \in {"authentik-forward-auth", "forward-auth"},     "proxy">>,
                    <<TRUE,                                                    "">> >>)
DeclaredFamily(mechanism) ==
    FirstHolding(<< <<mechanism = "app-oidc",         "oidc">>,
                    <<mechanism = "app-ldap",         "ldap">>,
                    <<mechanism = "external-proxy",   "proxy">>,
                    <<TRUE,                           "">> >>)

\* layerOf: a family is in the application or in the gate before it.
LayerOf(family) == FirstHolding(<< <<family \in {"oidc", "ldap"}, "app">>, <<family = "proxy", "gate">>, <<TRUE, "">> >>)

Agrees(agreement, declared, at) ==
    [agreement |-> agreement, mechanism |-> IF at = 0 THEN "" ELSE declared[at]]

\* Compare: the only account; else the first that is the same family, then one of the same layer,
\* then one of the other.
Compare(declared, method, wouldBeExposed) ==
    LET family == DetectedFamily(method)
        same == SelectInSeq(declared, LAMBDA m : DeclaredFamily(m) = family)
        clashing == SelectInSeq(declared, LAMBDA m : DeclaredFamily(m) \notin {"", family}
                                                     /\ LayerOf(DeclaredFamily(m)) = LayerOf(family))
        beside == SelectInSeq(declared, LAMBDA m : LayerOf(DeclaredFamily(m)) \notin {"", LayerOf(family)})
    IN  FirstHolding(<<
            <<declared = <<>>,      Agrees("", declared, 0)>>,
            <<wouldBeExposed,       Agrees("supplies", declared, IF declared = <<>> THEN 0 ELSE 1)>>,
            <<family = "",          Agrees("", declared, 0)>>,
            <<same # 0,             Agrees("redundant", declared, same)>>,
            <<clashing # 0,         Agrees("conflicts", declared, clashing)>>,
            <<beside # 0,           Agrees("supplements", declared, beside)>>,
            <<TRUE,                 Agrees("", declared, 0)>> >>)

\* Mutant: what another family of the layer was detected for corroborates nothing.
UnconfirmedByFamily(declared, method) ==
    {m \in ToSet(declared) : DeclaredFamily(m) \notin {"", DetectedFamily(method)}}

\* UnconfirmedMechanisms: those in whose layer nothing was detected.
UnconfirmedMechanisms(declared, method) ==
    {m \in ToSet(declared) :
        DeclaredFamily(m) # "" /\ LayerOf(DeclaredFamily(m)) # LayerOf(DetectedFamily(method))}

MissingAndUnexpected(expected, detected) == [missing |-> expected \ detected, unexpected |-> detected \ expected]

\* ConfiguredEdgeAuth: what the configuration shows.
Detected(method) == method \notin {"none", ""}
ConfiguredEdgeAuth(auth) == Detected(auth.method) \/ auth.enforced

\* Mutant: a gate only the probe saw is none.
ConfiguredOnly(auth, probe) == ConfiguredEdgeAuth(auth)

\* HasEdgeAuth: what a probe saw besides.
HasEdgeAuth(auth, probe) == ConfiguredEdgeAuth(auth) \/ probe.gate # ""

\* Apply, for one service: what its sidecar comes to, by what was detected. refused are its
\* references that name nobody.
Apply(side, ingress, auth, probe, refused) ==
    LET reachable == ingress \cap ExternalKinds # {}
        wouldBeExposed == reachable /\ ~HasEdgeAuth(auth, probe)
        cmp == Compare(side.auth, auth.method, wouldBeExposed)
        mismatch == MissingAndUnexpected(side.expected, ingress)
        said(what, holds) == IF side.present /\ holds THEN { <<what>> } ELSE {}
    IN  [exposed |-> wouldBeExposed /\ side.auth = <<>>,
         agreement |-> cmp.agreement,
         mechanism |-> cmp.mechanism,
         notes |-> said(cmp.agreement, cmp.agreement \in {"supplies", "supplements"}),
         drift |-> said("stale acceptance", side.accepted /\ ~reachable)
                   \cup said("conflict", cmp.agreement = "conflicts")
                   \cup said("ingress", side.expected # {} /\ (mismatch.missing \cup mismatch.unexpected # {}))
                   \cup (IF side.present THEN {<<"refused", r>> : r \in refused} ELSE {}),
         unconfirmed |-> said("mechanisms", UnconfirmedMechanisms(side.auth, auth.method) # {})
                         \cup said("probe", cmp.agreement = "supplies" /\ probe.status # 0 /\ probe.gate = "")]

-----------------------------------------------------------------------------
\* Stats: the counts over what the stages left.
Stats(fleet, ingress, probes, verdicts, deps) ==
    LET services(P(_)) == Cardinality({k \in Keys(fleet) : P(k)})
        of(kind) == services(LAMBDA k : kind \in ingress[k])
        side(k) == Service(fleet, k).sidecar
        nets == NetworkNames(fleet)
        networks(P(_)) == Cardinality({n \in nets : P(n)})
    IN  [stacks |-> Len(fleet.stacks), services |-> Len(fleet.services),
         running |-> services(LAMBDA k : Service(fleet, k).docker.running),
         byIngress |-> [kind \in ToSet(IngressKinds) |-> of(kind)],
         byMethod |-> [m \in {"none"} \cup {fleet.auth[k].method : k \in Keys(fleet)} |->
                            services(LAMBDA k : fleet.auth[k].method = m)],
         authProtected |-> services(LAMBDA k : Detected(fleet.auth[k].method)),
         exposed |-> services(LAMBDA k : verdicts[k].exposed),
         probeGated |-> services(LAMBDA k : probes[k].asked /\ probes[k].gate # ""),
         probeOpen |-> services(LAMBDA k : probes[k].asked /\ probes[k].gate = "" /\ probes[k].status # 0),
         declaredAuth |-> services(LAMBDA k : side(k).auth # <<>>),
         declaredProtected |-> services(LAMBDA k : verdicts[k].agreement = "supplies"),
         declaredUnconfirmed |-> services(LAMBDA k : verdicts[k].unconfirmed # {}),
         accepted |-> services(LAMBDA k : side(k).accepted),
         drift |-> SumFunctionOnSet([k \in Keys(fleet) |-> Cardinality(verdicts[k].drift)], Keys(fleet)),
         declaredDependencies |-> Cardinality({d \in deps : d.declared}),
         networks |-> Cardinality(nets),
         connecting |-> networks(LAMBDA n : Cardinality(Members(fleet, n)) > 1),
         crossStack |-> networks(LAMBDA n : Cardinality(StacksOn(fleet, n)) > 1),
         soloLocal |-> networks(LAMBDA n : SoloLocal(fleet, n))]
=============================================================================
