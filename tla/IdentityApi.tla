----------------------------- MODULE IdentityApi -----------------------------
(***************************************************************************)
(* internal/authentik: what the identity provider's API says: the          *)
(* applications it lists, those only a provider's record names, the        *)
(* service each belongs to and what that proves about it.                  *)
(*                                                                         *)
(* An application has at most one provider and any number of backchannel   *)
(* ones, all references; the provider lists hold the records behind them.  *)
(***************************************************************************)
EXTENDS Discovery

Kind(raw) == IF raw = "" THEN "other" ELSE raw

\* slug: the application a provider's record is assigned to, and over which channel.
SlugOf(detail) ==
    IF detail.slug # "" THEN [slug |-> detail.slug, backchannel |-> FALSE]
                        ELSE [slug |-> detail.backslug, backchannel |-> TRUE]

OutpostsOf(outposts, pk) == {o.name : o \in {o \in ToSet(outposts) : pk # "" /\ pk \in o.providers}}

NoDetail == [name |-> "", kind |-> "", mode |-> "", internal |-> NoAddress, external |-> NoAddress,
             redirects |-> <<>>]

\* The record behind a reference: the last of that key.
DetailOf(details, pk) ==
    LET of == Picked(details, {i \in DOMAIN details : pk # "" /\ details[i].pk = pk})
    IN  IF of = <<>> THEN NoDetail ELSE Last(of)

\* providersOf: a reference with what its record adds.
Referred(ref, backchannel, details, outposts) ==
    LET d == DetailOf(details, ref.pk)
    IN  [name |-> IF ref.name = "" THEN d.name ELSE ref.name,
         kind |-> Kind(IF ref.kind = "" THEN d.kind ELSE ref.kind),
         mode |-> d.mode, internal |-> d.internal, external |-> d.external, redirects |-> d.redirects,
         outposts |-> OutpostsOf(outposts, ref.pk), backchannel |-> backchannel]

FromDetail(d, outposts) ==
    [name |-> d.name, kind |-> Kind(d.kind), mode |-> d.mode, internal |-> d.internal,
     external |-> d.external, redirects |-> d.redirects,
     outposts |-> OutpostsOf(outposts, d.pk), backchannel |-> SlugOf(d).backchannel]

Listed(app, details, outposts) ==
    [name |-> app.name, slug |-> app.slug, launch |-> app.launch, via |-> "list",
     providers |-> [i \in DOMAIN app.provider |-> Referred(app.provider[i], FALSE, details, outposts)]
                   \o [i \in DOMAIN app.backchannel |-> Referred(app.backchannel[i], TRUE, details, outposts)]]

Rebuilt(slug, details, outposts) ==
    LET of == Picked(details, {i \in DOMAIN details : SlugOf(details[i]).slug = slug})
        name == IF SlugOf(of[1]).backchannel THEN of[1].backname ELSE of[1].appname
    IN  [name |-> IF name = "" THEN slug ELSE name, slug |-> slug, launch |-> NoAddress, via |-> "provider",
         providers |-> [i \in DOMAIN of |-> FromDetail(of[i], outposts)]]

\* Mutant: a record adds its application whether or not that was listed.
RecoveredAnyway(apps, details) == {SlugOf(d).slug : d \in ToSet(details)} \ {""}

\* The applications that only a provider's record names.
RecoveredSlugs(apps, details) ==
    {SlugOf(d).slug : d \in ToSet(details)} \ ({a.slug : a \in ToSet(apps)} \cup {""})

\* assemble: what was listed, then what was rebuilt.
Assemble(apps, details, outposts) ==
    LET slugs == SetToSeq(RecoveredSlugs(apps, details))
    IN  [i \in DOMAIN apps |-> Listed(apps[i], details, outposts)]
        \o [i \in DOMAIN slugs |-> Rebuilt(slugs[i], details, outposts)]

\* Withheld and Invisible: what the count says is there and neither pass found.
NoCount == -1
Withheld(total, listed) == IF total = NoCount THEN 0 ELSE Max({0, total - listed})
Invisible(total, listed, recovered) == Max({0, Withheld(total, listed) - recovered})

-----------------------------------------------------------------------------
IsAddress(a) == a.form \notin {"none", "template"}

\* handedOutURLs: the addresses an application sends its users to; a template and a domain shared
\* by every application are declined.
HandedOut(app) ==
    {a \in {app.launch} : IsAddress(a)}
    \cup UNION {{a \in {p.external} : IsAddress(a) /\ p.mode # "forward_domain"} \cup ToSet(p.redirects) :
                  p \in ToSet(app.providers)}
Declined(app) ==
    \/ app.launch.form = "template"
    \/ \E p \in ToSet(app.providers) : IsAddress(p.external) /\ p.mode = "forward_domain"

RuleInternalHost(fleet, app) ==
    LET hosts == {p.internal : p \in {p \in ToSet(app.providers) : p.kind = "proxy" /\ IsAddress(p.internal)}}
    IN  Rule(hosts # {}, UNION {ByURL(fleet, a) : a \in hosts}, FALSE)

\* ruleURLHost: a bare name only; anything else belongs to whoever has the standard ports.
RuleURLHost(fleet, app) ==
    LET urls == HandedOut(app)
    IN  Rule(urls # {},
             UNION {ByName(fleet, a.host) : a \in {a \in urls : a.form = "bare"}},
             IF urls = {} THEN Declined(app) ELSE \E a \in urls : a.form # "bare")

RuleHostname(fleet, app) ==
    LET hosts == {a.host : a \in {a \in HandedOut(app) : a.form # "ip"}}
    IN  Rule(hosts # {}, UNION {ByHostname(fleet, h) : h \in hosts}, FALSE)

MinDerivedKey == 3
MechanismWords == {"sso", "auth", "oauth", "oauth2", "oidc", "openid", "saml", "ldap", "proxy",
    "forward", "forwardauth", "gate", "login", "signin", "sign", "in", "app", "application",
    "provider", "outpost", "the", "and", "for"}

Tighten(words) == FoldLeft(LAMBDA s, w : s \o w, "", words)
StripMechanism(name) ==
    Tighten(Picked(Tokens[name], {i \in DOMAIN Tokens[name] : Tokens[name][i] \notin MechanismWords}))

NamesOf(fleet, k) ==
    {Stack(fleet, k).id, Service(fleet, k).name, Service(fleet, k).container} \ {""}
NamedRaw(fleet, key) == {k \in Keys(fleet) : key \in {Fold[n] : n \in NamesOf(fleet, k)}}
NamedTight(fleet, key) == {k \in Keys(fleet) : key \in {Tighten(Tokens[n]) : n \in NamesOf(fleet, k)}}

\* ruleName: every name in three forms, the form before the name; the first that anybody has decides.
RuleName(fleet, app) ==
    LET names == <<app.slug, app.name>> \o [i \in DOMAIN app.providers |-> app.providers[i].name]
        tries == [i \in DOMAIN names |-> [key |-> Fold[names[i]], found |-> NamedRaw(fleet, Fold[names[i]])]]
                 \o [i \in DOMAIN names |-> [key |-> Tighten(Tokens[names[i]]),
                                              found |-> NamedTight(fleet, Tighten(Tokens[names[i]]))]]
                 \o [i \in DOMAIN names |-> [key |-> StripMechanism(names[i]),
                                              found |-> NamedTight(fleet, StripMechanism(names[i]))]]
        tried == {i \in DOMAIN tries : Len(tries[i].key) >= MinDerivedKey}
        hits == {i \in tried : tries[i].found # {}}
    IN  Rule(tried # {}, IF hits = {} THEN {} ELSE tries[Min(hits)].found, FALSE)

MatchApplication(fleet, app) ==
    FirstMatch(<<RuleInternalHost(fleet, app), RuleURLHost(fleet, app), RuleHostname(fleet, app),
                 RuleName(fleet, app)>>)
ByNameAlone(match) == match.rule = 4

-----------------------------------------------------------------------------
NeedsOutpost(kind) == kind \in {"proxy", "ldap", "radius"}
Method(kind) ==
    FirstHolding(<< <<kind = "proxy",   "authentik-forward-auth">>,
                    <<kind = "oauth2",  "authentik-oauth">>,
                    <<kind = "ldap",    "authentik-ldap">>,
                    <<TRUE,             "none">> >>)
Enforced(p) == (NeedsOutpost(p.kind) /\ p.outposts # {}) \/ p.kind \in {"oauth2", "saml"}

\* Mutant: a provider counts whether an outpost carries it or not.
AnyProvider(app) == Picked(app.providers, {i \in DOMAIN app.providers : Method(app.providers[i].kind) # "none"})

\* The providers that stand in the way of a request: one that needs an outpost has one.
Standing(app) ==
    Picked(app.providers, {i \in DOMAIN app.providers :
        LET p == app.providers[i]
        IN  Method(p.kind) # "none" /\ (NeedsOutpost(p.kind) => p.outposts # {})})

\* accountsFor: the gates an application stands for.
AccountsFor(app, byName) ==
    [i \in DOMAIN Standing(app) |->
        Account(Method(Standing(app)[i].kind), app.slug, IF byName THEN "observed" ELSE "confirmed",
                Standing(app)[i].internal, TRUE)]

Unenforced(app) ==
    {<<"protects nothing", p.name>> : p \in {p \in ToSet(app.providers) :
        Method(p.kind) # "none" /\ NeedsOutpost(p.kind) /\ p.outposts = {}}}

\* unpassedOutposts: a tunnel straight to the address an outpost forwards to goes round it.
UnpassedOutposts(fleet, app, k) ==
    LET svc == Service(fleet, k)
        direct == {r \in ToSet(svc.tunnels) : r.origin.form \notin {"none", "ip", "absent"}
                                               /\ Fold[r.origin.host] \in DnsNames(svc)}
        forwards == {p \in ToSet(app.providers) : p.kind = "proxy" /\ Enforced(p) /\ IsAddress(p.internal)
                                                   /\ GateService(fleet, p.internal) = k}
    IN  {<<"goes round", r.hostname, p.name>> : r \in direct, p \in forwards}

\* Apply: each application to the one service it identifies, or to none with the reason.
ApplyIdentity(apps, fleet) ==
    LET match == [i \in DOMAIN apps |-> MatchApplication(fleet, apps[i])]
        of(k) == Picked([i \in DOMAIN apps |-> i], {i \in DOMAIN apps : match[i].key = k})
        accounts(k) == FlattenSeq([n \in DOMAIN of(k) |->
                            AccountsFor(apps[of(k)[n]], ByNameAlone(match[of(k)[n]]))])
    IN  [byService |-> [k \in Keys(fleet) |-> {apps[i] : i \in ToSet(of(k))}],
         accounts |-> [k \in Keys(fleet) |-> accounts(k)],
         notes |-> [k \in Keys(fleet) |->
                      UNION {Unenforced(apps[i]) \cup UnpassedOutposts(fleet, apps[i], k) : i \in ToSet(of(k))}],
         unmatched |-> {[slug |-> apps[i].slug, reason |-> Reason(match[i].trace)] :
                            i \in {i \in DOMAIN apps : match[i].key = 0}}]
=============================================================================
