----------------------------- MODULE Judgement -----------------------------
(***************************************************************************)
(* internal/probe: at which addresses a service is asked, what of an       *)
(* anonymous answer is a sign of a login, and what is said of it.          *)
(*                                                                         *)
(* A page is what its reduced markup shows: its refreshes, its forms, its  *)
(* links and controls in order.  A place something points to is a record:  *)
(* whether it resolves, leaves the origin, is a login or a logout path.    *)
(* A pointer that may be nil is a sequence of at most one.                 *)
(***************************************************************************)
EXTENDS FleetIndex, Phases

CONSTANTS
    Patterns,      \* the hosts and ports that are written as a pattern or a range
    MinTextChars   \* how much text makes content, in the unit of a page's text

AddressCap == 4
AttemptCap == 8
StatePaths == <<"/api/", "/api/me", "/api/v1/me", "/api/v1/user">>
MinLinks == 2

-----------------------------------------------------------------------------
(* The addresses. *)

\* hostname: a pattern names no host.
Host(raw) == IF raw \in Patterns THEN "" ELSE Fold[raw]

\* httpOrigin: an origin that speaks HTTP, by its scheme or for want of one.
HttpOrigin(o) == o.form # "absent" /\ (o.scheme \in {"http", "https"} \/ (o.scheme = "" /\ o.form # "none"))

Target(vantage, scheme, host, port) ==
    [vantage |-> vantage, url |-> [scheme |-> scheme, host |-> host, port |-> port]]

\* add: each address once, and no more than AddressCap.
AddTarget(list, t) ==
    IF t.url.host = "" \/ (\E i \in DOMAIN list : list[i].url = t.url) \/ Len(list) >= AddressCap
      THEN list ELSE Append(list, t)

RouteTargets(r) ==
    LET hosts == SetToSeq(r.hosts)
    IN  [i \in DOMAIN hosts |-> Target("traefik", IF r.tls THEN "https" ELSE "http", Host(hosts[i]), "")]

\* bindAnswersAt: a port bound to loopback answers nobody else.
BindAnswersAt(bind, lanHost) ==
    \/ bind \in {"", "0.0.0.0", "::", "*"}
    \/ bind = lanHost
    \/ {bind, lanHost} \subseteq {"127.0.0.1", "localhost", "::1"}

\* publishedPorts: the service's own, then the container's.
PublishedPorts(svc) == svc.ports \o svc.docker.ports

\* Addresses: the tunnels' and the routers'; and the published ports of a service that has one of those.
Addresses(svc, lanHost) ==
    LET tunnels == SelectSeq(svc.tunnels, LAMBDA r : HttpOrigin(r.origin))
        public == [i \in DOMAIN tunnels |-> Target("public", "https", Host(tunnels[i].hostname), "")]
        routes == svc.routers \o svc.live
        declared == FoldLeft(AddTarget, <<>>, public \o FlattenSeq([i \in DOMAIN routes |-> RouteTargets(routes[i])]))
        ports == SelectSeq(PublishedPorts(svc), LAMBDA p : p.published \notin Patterns \cup {""} /\ BindAnswersAt(p.bind, lanHost))
    IN  IF declared = <<>> \/ lanHost = "" THEN declared
        ELSE FoldLeft(AddTarget, declared, [i \in DOMAIN ports |-> Target("lan", "http", lanHost, ports[i].published)])

-----------------------------------------------------------------------------
(* The signs. *)

LoginIntent(form) == form.action \/ form.otp
CredentialForm(form) == ~form.password /\ form.username /\ form.submit /\ LoginIntent(form)

\* rank, strongestForm: the most of a login, and the first of those.
FormRank(form) ==
    FirstHolding(<<
        <<form.password,                                                4>>,
        <<CredentialForm(form),                                         3>>,
        <<form.username /\ form.submit,                                 2>>,
        <<form.username \/ form.submit \/ form.otp \/ form.action,      1>>,
        <<TRUE,                                                         0>> >>)

StrongestForm(forms) ==
    FoldLeft(LAMBDA best, f : IF best = <<>> THEN <<f>>
                              ELSE IF FormRank(f) > FormRank(best[1]) THEN <<f>> ELSE best, <<>>, forms)

\* metaRefresh: the first that points anywhere.
FirstOf(list) == IF list = <<>> THEN <<>> ELSE <<Head(list)>>
MetaRefresh(refreshes) == FirstOf(SelectSeq(refreshes, LAMBDA to : to.resolves))

\* loginOffer: by its path or by its words, and never one that leads out.
OffersLogin(link) ==
    /\ link.words # "logout"
    /\ ~(link.to.resolves /\ link.to.logout)
    /\ (link.to.resolves /\ link.to.login) \/ link.words = "login"

\* anonymousView: a link before a control; a label too long to keep is offered without it.
AnonymousView(page) ==
    LET links == SelectSeq(page.links, OffersLogin)
        controls == SelectSeq(page.controls, LAMBDA c : c.words = "login")
    IN  [text |-> page.text, links |-> Len(page.links),
         href |-> links # <<>> /\ links[1].to.resolves,
         label |-> IF links # <<>> THEN links[1].short ELSE controls # <<>> /\ controls[1].short]

ContentServed(view) == view.text >= MinTextChars /\ view.links >= MinLinks
SignInOffered(view) == view.href \/ view.label

\* A page answered with 200; only then is the body read as one.
IsPage(a) == a.status = 200 /\ a.media = "html"

\* Signals: in this order, and the first is the gate.
Signals(a) ==
    LET drawn == IsPage(a) /\ ~a.page.empty
        redirect == IF a.status \in 300..399 /\ a.location.resolves THEN <<a.location>> ELSE <<>>
        refresh == IF drawn THEN MetaRefresh(a.page.refreshes) ELSE <<>>
        form == IF drawn THEN StrongestForm(a.page.forms) ELSE <<>>
        gate == FirstHolding(<<
            <<a.status \in {401, 407} /\ a.scheme,                                   "challenge">>,
            <<redirect # <<>> /\ a.location.cross,                                   "redirect-origin">>,
            <<redirect # <<>> /\ a.location.login,                                   "redirect-login">>,
            <<\E to \in ToSet(refresh) : to.cross \/ to.login,                       "meta-refresh-login">>,
            <<drawn /\ a.page.saml,                                                  "sso-form">>,
            <<drawn /\ a.page.password,                                              "password-form">>,
            <<\E f \in ToSet(form) : CredentialForm(f),                                "credential-form">>,
            <<TRUE,                                                                  "">> >>)
    IN  [gate |-> gate, redirect |-> redirect, refresh |-> refresh, form |-> form,
         truncated |-> drawn /\ a.page.truncated,
         anon |-> IF drawn THEN <<AnonymousView(a.page)>> ELSE <<>>,
         needsState |-> gate = "" /\ IsPage(a) /\ form = <<>>]

\* AskState: the current-user addresses in turn, up to the first that refuses; far says what each
\* answers, 0 when it does not.
Refusal(status) == status \in {401, 407}
AskState(far) ==
    LET refused == SelectInSeq(far, LAMBDA s : Refusal(s.status))
    IN  IF refused = 0 THEN [asked |-> Len(StatePaths), refused |-> 0, scheme |-> FALSE]
        ELSE [asked |-> refused, refused |-> far[refused].status, scheme |-> far[refused].scheme]

StateGate(state) == IF state.scheme THEN "state-challenge" ELSE ""
BareRefusal(state) == state.refused # 0 /\ ~state.scheme

-----------------------------------------------------------------------------
(* The record of one service. *)

NoProbe == [asked |-> FALSE, vantage |-> "", phase |-> "not-configured", status |-> 0, gate |-> "", redirect |-> <<>>,
            refresh |-> <<>>, form |-> <<>>, truncated |-> FALSE, anon |-> <<>>, state |-> <<>>,
            media |-> "", attempts |-> 0]

\* readAnswer: where the page itself shows nothing, its current-user addresses are asked.
ReadAnswer(t, a, attempts, states) ==
    LET reading == Signals(a)
        state == AskState(states)
    IN  [NoProbe EXCEPT
            !.asked = TRUE, !.vantage = t.vantage, !.phase = "connected", !.status = a.status, !.media = a.media,
            !.redirect = reading.redirect, !.refresh = reading.refresh, !.form = reading.form,
            !.truncated = reading.truncated, !.anon = reading.anon, !.attempts = attempts,
            !.state = IF reading.needsState THEN <<state>> ELSE <<>>,
            !.gate = IF reading.needsState THEN StateGate(state) ELSE reading.gate]

\* ask: the addresses in order, up to the first that answers; the silent ones are attempts.
Ask(targets, far) ==
    LET answering == SelectInSeq(targets, LAMBDA t : t.url \in DOMAIN far.answers)
        silent == IF answering = 0 THEN Len(targets) ELSE answering - 1
        attempts == IF silent > AttemptCap THEN AttemptCap ELSE silent
    IN  IF answering # 0
          THEN ReadAnswer(targets[answering], far.answers[targets[answering].url], attempts, far.states)
          ELSE [NoProbe EXCEPT !.asked = TRUE, !.attempts = attempts,
                               !.vantage = targets[Len(targets)].vantage, !.phase = "connect"]

\* VerdictOf: a page that answered with a gate, without one, or none.
VerdictOf(p) ==
    FirstHolding(<< <<~OK(p.phase), "no-answer">>, <<p.gate # "", "gated">>, <<TRUE, "open">> >>)

\* closestClause: how near an open answer came to a sign, in this order.
ClosestClause(p) ==
    FirstHolding(<<
        <<p.status \in {401, 407},                        "no scheme named">>,
        <<p.status = 403,                                 "refused without a challenge">>,
        <<p.redirect # <<>>,                              "redirect on its own origin">>,
        <<p.status \in 300..399,                          "redirect to nowhere">>,
        <<p.refresh # <<>>,                               "refresh on its own origin">>,
        <<p.form # <<>>,                                  "form falls short">>,
        <<\E s \in ToSet(p.state) : BareRefusal(s),       "client refused without a scheme">>,
        <<p.state # <<>>,                                 "client served">>,
        <<p.status = 200 /\ p.media \notin {"", "html"},  "not a page">>,
        <<p.status = 200,                                 "no content type">>,
        <<TRUE,                                           "no sign">> >>)

\* formShortfall: what the form has of a login's, and what it lacks.
FormParts == {"username", "submit", "otp", "action"}
FormShortfall(form) == [has |-> {f \in FormParts : form[f]}, lacks |-> {f \in FormParts : ~form[f]}]

AnonClause(p) ==
    LET served == \E v \in ToSet(p.anon) : ContentServed(v)
        offered == \E v \in ToSet(p.anon) : SignInOffered(v)
    IN  FirstHolding(<< <<served /\ offered, "content and a way in">>, <<served, "content">>, <<TRUE, "">> >>)

\* Reason: the gate's own clause, or the closest one and what was served.
Reason(p) ==
    FirstHolding(<<
        <<~OK(p.phase),  <<"no answer">> >>,
        <<p.gate # "",   <<p.gate>> >>,
        <<TRUE,          <<ClosestClause(p), AnonClause(p)>> >> >>)

-----------------------------------------------------------------------------
(* The whole run. *)

\* Eligible: a service without an address is none, one whose login is known is not asked.
Eligible(svc, configured, lanHost) ==
    LET targets == Addresses(svc, lanHost)
    IN  [targets |-> IF configured THEN <<>> ELSE targets, skipped |-> configured /\ targets # <<>>]

\* probeDecision: the request's override before the configuration.
ProbeDecision(configured, override) ==
    FirstHolding(<< <<override = "",   [enabled |-> configured,       source |-> "config"]>>,
                    <<TRUE,            [enabled |-> override = "on",  source |-> "request"]>> >>)

NoRun == [enabled |-> FALSE, source |-> "config", skipped |-> 0, gated |-> 0, open |-> 0, silent |-> 0,
          phase |-> "disabled"]

\* Do: e is what each service's eligibility is, in order, results its record.
RunReport(decision, e, results) ==
    LET asking == {k \in DOMAIN e : e[k].targets # <<>>}
        count(verdict) == Cardinality({k \in asking : VerdictOf(results[k]) = verdict})
        skipped == IF decision.enabled THEN Cardinality({k \in DOMAIN e : e[k].skipped}) ELSE Len(e)
    IN  [enabled |-> decision.enabled, source |-> decision.source, skipped |-> skipped,
         gated |-> count("gated"), open |-> count("open"), silent |-> count("no-answer"),
         phase |-> FirstHolding(<<
            <<~decision.enabled,                 "disabled">>,
            <<asking = {} /\ skipped = 0,        "not-found">>,
            <<count("no-answer") > 0,            "partial">>,
            <<TRUE,                              "connected">> >>)]
=============================================================================
