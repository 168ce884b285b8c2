----------------------------- MODULE MCAssembly -----------------------------
EXTENDS Attribution

\* Names as they are written, and as a lookup folds them.
Containers == {p \o "-" \o s \o "-1" : p \in {"one", "two", "own"}, s \in {"app", "db", "proxy", "edge"}}
MCFold == [n \in Containers \cup {"", "app", "proxy", "db", "Edge", "edge", "10.0.0.1", "a.example", "b.example", "*.example"} |->
              IF n = "Edge" THEN "edge" ELSE n]
MCPatterns == {"*.example", "8000-8010"}
MCOrder == <<"A", "B", "K", "L", "PASSWORD", "PATH", "app", "db", "edge", "loose", "one", "proxy", "three", "two">>
MCBareName == "absent" :> "absent"
MCRoot == <<"apps">>
MCComposeNames == <<"compose.yml", "docker-compose.yml">>
MCSidecarNames == <<"labview.yml", "labview.yaml">>
MCSecretKeys == {"PASSWORD"}

\* The texts that are cut at a separator, by their parts.
CutTexts ==
    {<<":", p>> : p \in {<<"80", "80">>, <<"443", "443">>, <<"8000-8010", "8000-8010">>, <<"10.0.0.1", "80", "80">>,
                         <<"10.0.0.1", "8000-8010", "80">>, <<"127.0.0.1", "80", "80">>, <<"data", "/x">>,
                         <<"other", "/x">>, <<"one_data", "/x">>, <<"./conf", "/c", "ro">>}}
    \cup {<<"/", p>> : p \in {<<"one", "db">>, <<"one", "app">>, <<"three", "db">>, <<"a", "b", "c">>, <<"53", "udp">>,
                              <<"..", "two", ".env">>, <<"..", "..", "etc", "far.env">>, <<"", "apps", "one", "own.env">>}}
    \cup {<<"=", p>> : p \in {<<"tr.app.rule", "Host(*)">>, <<"tr.app.tls", "true">>}}
Joined(sep, parts) == FoldLeft(LAMBDA text, p : text \o sep \o p, Head(parts), Tail(parts))
Cuts == [t \in {<<Joined(c[1], c[2]), c[1]>> : c \in CutTexts} |->
            (CHOOSE c \in CutTexts : c[1] = t[2] /\ Joined(c[1], c[2]) = t[1])[2]]
MCSplit(text, sep) == IF <<text, sep>> \in DOMAIN Cuts THEN Cuts[<<text, sep>>] ELSE <<text>>
MCCutRef(ref) == MCSplit(ref, "/")

MCShape(text) ==
    CASE text \in {"./conf", "/srv"} -> "path" [] text = "//./pipe/x" -> "pipe"
      [] text \in {"u://a:b@c", "u://a:z@c"} -> "uri" [] text = "a b" -> "spaced" [] OTHER -> "plain"
MCProjectName(text) == IF text = "Own" THEN "own" ELSE text
MCShorten(text) == IF text = "a long text" THEN "a long.." ELSE text

-----------------------------------------------------------------------------
(* Labels, by the segments of their keys, and the values that are more than text. *)

LabelKeys ==
    ("cf.enable" :> <<"tunnels", -1, "enable">>) @@ ("cf.hostname" :> <<"tunnels", -1, "hostname">>)
    @@ ("cf.service" :> <<"tunnels", -1, "service">>) @@ ("tr.enable" :> <<"enable">>)
    @@ ("tr.app.rule" :> <<"routers", "app", "rule">>) @@ ("tr.app.tls" :> <<"routers", "app", "tls">>)
    @@ ("tr.app.entrypoints" :> <<"routers", "app", "entrypoints">>)
    @@ ("tr.proxy.rule" :> <<"routers", "proxy", "rule">>) @@ ("tr.proxy.tls" :> <<"routers", "proxy", "tls">>)
MCLabelKey(label) == LabelKeys[label]

Origin(scheme, host, form, port) == [scheme |-> scheme, host |-> host, form |-> form, port |-> port, outpost |-> FALSE]
OriginTexts ==
    ("http://edge" :> Origin("http", "edge", "bare", "")) @@ ("http://app" :> Origin("http", "app", "bare", ""))
    @@ ("http://db" :> Origin("http", "db", "bare", "")) @@ ("http://10.0.0.1" :> Origin("http", "10.0.0.1", "ip", ""))
    @@ ("tcp://10.0.0.1" :> Origin("tcp", "10.0.0.1", "ip", ""))
    @@ ("tcp://10.0.0.1:443" :> Origin("tcp", "10.0.0.1", "ip", "443"))
    @@ ("https://b.example" :> Origin("https", "b.example", "fqdn", ""))
    @@ ("http://" :> Origin("http", "", "none", ""))
RuleHosts == ("Host(a)" :> {"a.example"}) @@ ("Host(b)" :> {"b.example"}) @@ ("Host(*)" :> {"*.example"}) @@ ("Path(/)" :> {})
MCLabelValue(key, value) ==
    IF Len(key) = 3 /\ key[3] = "service" THEN OriginTexts[value]
    ELSE IF Len(key) = 3 /\ key[3] = "rule" THEN RuleHosts[value] ELSE value

-----------------------------------------------------------------------------
(* YAML, and a disk of it. *)

Word(kind, raw, name, op, default) == [kind |-> kind, raw |-> raw, name |-> name, op |-> op, default |-> default]
Said(raw) == Word("text", raw, "", "", <<>>)
V(parts) == [kind |-> "scalar", text |-> parts]
S(raw) == V(<<Said(raw)>>)
Q(items) == [kind |-> "sequence", items |-> items]
SQ(words) == Q([i \in DOMAIN words |-> S(words[i])])
Merging(pairs, merged) ==
    [kind |-> "mapping", own |-> [i \in DOMAIN pairs |-> [key |-> pairs[i][1], node |-> pairs[i][2]]], merged |-> merged]
M(pairs) == Merging(pairs, <<>>)
SM(pairs) == M([i \in DOMAIN pairs |-> <<pairs[i][1], S(pairs[i][2])>>])

Dir == [kind |-> "dir", fault |-> ""]
File(lines, doc) == [kind |-> "file", fault |-> "", body |-> [lines |-> lines, doc |-> doc]]
Yaml(node) == File(<<>>, <<node>>)
LinkTo(absolute, to) == [kind |-> "link", absolute |-> absolute, to |-> to]
Set(key, value) == [key |-> key, set |-> TRUE, value |-> value]

InApps(id) == <<"apps", id>>
ComposeAt(id) == <<"apps", id, "compose.yml">>
SidecarAt(id) == <<"apps", id, "labview.yml">>
EnvAt(id) == <<"apps", id, ".env">>
Above == (<<>> :> Dir) @@ (<<"apps">> :> Dir)
StackFiles(id, doc) == (InApps(id) :> Dir) @@ (ComposeAt(id) :> Yaml(doc))

-----------------------------------------------------------------------------
(* What stands around the services: both readers and the probe off. *)

End(phase) == [phase |-> phase, endpoint |-> ""]
Around(plan, disk) ==
    [plan |-> plan, disk |-> disk, containers |-> <<>>, says |-> <<>>, unmatched |-> {}, docker |-> End("connected"),
     identity |-> End("disabled") @@ [total |-> Unknown, withheld |-> 0, recovered |-> 0, providers |-> 0, outposts |-> 0],
     proxy |-> End("disabled") @@ [routers |-> 0, middlewares |-> 0, services |-> 0, unmatched |-> {}],
     lanHost |-> "", probe |-> FALSE, override |-> "", far |-> [answers |-> <<>>, states |-> <<>>]]

\* A service on networks by their real names, or on none.
Names(list) == IF list = <<>> THEN <<"network_mode", S("none")>> ELSE <<"networks", SQ(list)>>
ProxyLabels == <<"labels", SM(<< <<"tr.proxy.rule", "Host(a)">>, <<"tr.proxy.tls", "true">> >>)>>
ProxyNode(container, nets) ==
    M(<< <<"container_name", S(container)>>, <<"ports", SQ(<<"80:80">>)>>, Names(nets), ProxyLabels >>)

NetDecls(external) ==
    LET nets == <<"front", "back", "own", "far">>
    IN  M([i \in DOMAIN nets |->
            <<nets[i], SM(IF nets[i] \in external THEN << <<"external", "true">> >> ELSE << <<"name", nets[i]>> >>)>>])
Top(services, external, volumes) ==
    M(<< <<"services", M(services)>>, <<"networks", NetDecls(external)>>, <<"volumes", volumes>> >>)
Own == M(<< <<"data", Null>> >>)
Shared_ == M(<< <<"other", SM(<< <<"name", "one_data">> >>)>> >>)
Refs(service, list) == <<service, M(<< <<"depends_on", SQ(list)>> >>)>>

\* Two stacks: a service with a tunnel, one it depends on, and two proxies of one container name or two.
AppNode(p) ==
    M(<< <<"ports", SQ(<<"443:443">>)>>, Names(<<"front", "back">>), <<"depends_on", SQ(<<"db", "gone", "app">>)>>,
         <<"volumes", SQ(<<"data:/x", "other:/x">>)>>,
         <<"labels", SM((IF p.hostname = "" THEN << <<"tr.app.rule", "Path(/)">> >> ELSE << <<"tr.app.entrypoints", "web">> >>)
                        \o << <<"cf.hostname", p.hostname>> >>
                        \o (IF p.origin = "" THEN <<>> ELSE << <<"cf.service", p.origin>> >>))>> >>)
DbNode == M(<< <<"expose", SQ(<<"80">>)>>, Names(<<"back", "own">>), <<"volumes", SQ(<<"one_data:/x">>)>> >>)
Providers == {[name |-> "p", outposts |-> {"o"}]}
WiredDisk(p) ==
    Above @@ StackFiles("one", Top(<< <<"app", AppNode(p)>>, <<"db", DbNode>> >>, p.ext, Own))
    @@ (SidecarAt("one") :> Yaml(M(<< <<"services", M(<<Refs("app", p.declared), Refs("db", <<p.back>>)>>)>> >>)))
    @@ (IF p.edit = "gone" THEN <<>>
        ELSE StackFiles("two", Top(<< <<"proxy", ProxyNode("Edge", <<"front">>)>>,
                                      <<IF p.edit = "renamed" THEN "edge" ELSE p.name, ProxyNode("edge", p.nets)>> >>,
                                   p.ext, Shared_)))
    @@ (IF p.edit = "more" THEN StackFiles("three", M(<< <<"services", M(<<>>)>> >>)) ELSE <<>>)
Wired(p) ==
    LET whole == [Around(p, WiredDisk(p)) EXCEPT
                    !.says = (<<"one", "app">> :> [Unsaid EXCEPT !.gate = p.gate])
                             @@ (<<"two", "proxy">> :> [Unsaid EXCEPT !.matched = {[slug |-> "known", providers |-> Providers]}]),
                    !.unmatched = {[slug |-> "lost", providers |-> Providers]}]
    IN  CASE p.edit = "readers" ->
                [whole EXCEPT !.identity.phase = "partial", !.identity.providers = 1, !.proxy.phase = "connected", !.proxy.routers = 2,
                               !.proxy.unmatched = {"adrift"}]
          [] p.edit = "docker" ->
                [whole EXCEPT !.docker = End("connect"),
                              !.containers = <<[project |-> "", service |-> "", state |-> [NoDocker EXCEPT !.name = "one-app-1"]],
                                               [project |-> "one", service |-> "app", state |-> [NoDocker EXCEPT !.name = "edge", !.running = TRUE]]>>]
          [] p.edit = "posture" ->
                [whole EXCEPT !.override = "on", !.says[<<"one", "app">>].auth.method = "forward-auth"]
          [] OTHER -> whole

WiredPlans ==
    {[kind |-> "wired", ext |-> ext, origin |-> origin, hostname |-> hostname, declared |-> declared, back |-> back,
      name |-> name, nets |-> nets, gate |-> gate, edit |-> ""] :
        ext \in {{}, {"front", "own"}}, origin \in {""} \cup DOMAIN OriginTexts, hostname \in {"", "a.example"},
        declared \in {<<>>, <<"one/db", "proxy">>, <<"three/db", "one/app">>}, back \in {"app", "proxy"},
        name \in {"app", "db"}, nets \in {<<"front">>, <<"far">>, <<>>}, gate \in {<<>>, <<"two", "app">>}}
WiredEdits(p) ==
    IF p.gate = <<>> /\ p.ext = {} /\ p.declared # <<>> /\ p.hostname # "" /\ p.origin \in {"http://edge", "http://10.0.0.1"}
      THEN {[p EXCEPT !.edit = edit] : edit \in {"", "gone", "renamed", "more", "readers", "docker", "posture"}} ELSE {}

-----------------------------------------------------------------------------
(* Answers of an application: each comes near one of the signs, or is one. *)

Nowhere == [resolves |-> FALSE, cross |-> FALSE, login |-> FALSE, logout |-> FALSE]
To(cross, login, logout) == [resolves |-> TRUE, cross |-> cross, login |-> login, logout |-> logout]
Places == {Nowhere, To(FALSE, FALSE, FALSE), To(TRUE, FALSE, FALSE), To(FALSE, TRUE, FALSE), To(FALSE, FALSE, TRUE)}
Form(parts) == [p \in {"password", "username", "submit", "otp", "action"} |-> p \in parts]
Plain == [empty |-> FALSE, refreshes |-> <<>>, forms |-> <<>>, saml |-> FALSE, password |-> FALSE,
          truncated |-> FALSE, text |-> 2, links |-> <<>>, controls |-> <<>>]
Offer(words, to) == [words |-> words, to |-> to, short |-> words = "login"]
Bare == [status |-> 200, media |-> "html", scheme |-> FALSE, location |-> Nowhere, page |-> Plain]
Paged(page) == [Bare EXCEPT !.page = page]
Answers ==
    {[Bare EXCEPT !.status = status, !.scheme = scheme, !.media = "json"] :
        status \in {200, 401, 403, 500}, scheme \in BOOLEAN}
    \cup {[Bare EXCEPT !.status = 302, !.location = to] : to \in Places}
    \cup {Paged([Plain EXCEPT !.refreshes = <<Nowhere, to>>]) : to \in Places}
    \cup {Paged([Plain EXCEPT !.forms = <<Form({"submit"}), Form(parts)>>, !.password = "password" \in parts]) :
            parts \in {{"username"}, {"username", "submit"}, {"username", "submit", "otp"}, {"password"}}}
    \cup {Paged([Plain EXCEPT !.empty = TRUE]), Paged([Plain EXCEPT !.saml = TRUE]),
          [Bare EXCEPT !.media = ""]}
    \cup {Paged([Plain EXCEPT !.links = <<Offer("other", Nowhere), Offer(words, to)>>, !.controls = <<Offer("login", Nowhere)>>]) :
            words \in {"other", "login", "logout"}, to \in {Nowhere, To(FALSE, TRUE, FALSE), To(FALSE, FALSE, TRUE)}}
StateAnswer(status, scheme) == [status |-> status, scheme |-> scheme]
States == {<<StateAnswer(0, FALSE), StateAnswer(404, FALSE), StateAnswer(200, TRUE), StateAnswer(0, FALSE)>>,
           <<StateAnswer(200, FALSE), StateAnswer(401, FALSE), StateAnswer(401, TRUE), StateAnswer(0, FALSE)>>,
           <<StateAnswer(0, FALSE), StateAnswer(407, TRUE), StateAnswer(0, FALSE), StateAnswer(0, FALSE)>>}
Url(scheme, host, port) == [scheme |-> scheme, host |-> host, port |-> port]

-----------------------------------------------------------------------------
(* Services by what is declared of them, and by how they can be reached. *)

Side(auth, expected, accepted) == [auth |-> auth, expected |-> expected, accepted |-> accepted]
Sides ==
    {Side(<<"app-saml">>, <<"public">>, TRUE), Side(<<"app-ldap">>, <<>>, FALSE), Side(<<>>, <<>>, FALSE)}
    \cup {Side(auth, expected, FALSE) : auth \in {<<"app-oidc", "app-ldap">>, <<"mtls", "external-proxy">>},
                                        expected \in {<<>>, <<"lan", "internal">>}}
SideNode(s) ==
    M((IF s.auth = <<>> THEN <<>> ELSE << <<"auth", SQ(s.auth)>> >>)
      \o (IF s.expected = <<>> THEN <<>> ELSE << <<"expected", M(<< <<"ingress", SQ(s.expected)>> >>)>> >>)
      \o (IF s.accepted THEN << <<"unauthenticated", SM(<< <<"intentional", "true">>, <<"reason", "why">> >>)>> >> ELSE <<>>))
Methods == {[method |-> m, enforced |-> FALSE] : m \in {"none", "forward-auth", "other-oauth", "ldap", "basic-auth"}}
           \cup {[method |-> "none", enforced |-> TRUE]}

\* A service behind a tunnel, behind routers, on ports of the host beside a router, or on nothing else.
Behind(how) ==
    CASE how = "tunnel" -> << <<"labels", SM(<< <<"cf.hostname", "a.example">>, <<"cf.service", "http://app">> >>)>> >>
      [] how = "pattern" -> << <<"labels", SQ(<<"tr.app.rule=Host(*)", "tr.app.tls=true">>)>> >>
      [] how = "routers" -> << <<"labels", SM(<< <<"cf.hostname", "a.example">>, <<"cf.service", "tcp://10.0.0.1">>,
                                                <<"tr.app.rule", "Host(b)">> >>)>> >>
      [] how = "port" -> << <<"labels", SM(<< <<"tr.app.rule", "Host(b)">> >>)>>,
                            <<"ports", SQ(<<"8000-8010:8000-8010", "10.0.0.1:80:80">>)>> >>
      [] OTHER -> << <<"ports", SQ(<<"127.0.0.1:80:80">>)>>, <<"expose", SQ(<<"80">>)>> >>

LoneDisk(p) ==
    LET app == M(Behind(p.how) \o << Names(<<>>), <<"environment", SM(<< <<"PASSWORD", p.secret>> >>)>> >>)
    IN  Above @@ StackFiles("one", M(<< <<"services", M(<< <<"app", app>> >>)>> >>))
        @@ (SidecarAt("one") :> Yaml(M(<< <<"services", M(<< <<"app", SideNode(p.side)>> >>)>> >>)))
        @@ StackFiles("two", M(<< <<"services", M(<< <<"proxy", ProxyNode("Edge", <<>>)>> >>)>> >>))
Lone(p) ==
    [Around(p, LoneDisk(p)) EXCEPT
        !.says = <<"one", "app">> :> [Unsaid EXCEPT
            !.auth = p.auth,
            !.live = IF p.how = "routers" THEN <<[router |-> "app@docker", hosts |-> {"a.example"}, rule |-> TRUE, tls |-> TRUE]>> ELSE <<>>],
        !.containers = IF p.how = "port" THEN <<[project |-> "one", service |-> "app", state |-> [NoDocker EXCEPT !.running = TRUE]]>> ELSE <<>>,
        !.identity = IF p.edit = "readers" THEN [@ EXCEPT !.phase = "connected", !.total = 3] ELSE @,
        !.probe = p.enabled, !.override = p.override, !.lanHost = "10.0.0.1",
        !.far = [answers |-> p.answers, states |-> p.states]]

Seen(answer) == (Url("https", "a.example", "") :> answer) @@ (Url("http", "10.0.0.1", "80") :> answer)
FirstStates == CHOOSE s \in States : s[2].status = 404
LonePlan(how, side, auth, answers, states, enabled, override) ==
    [kind |-> "lone", how |-> how, side |-> side, auth |-> auth, answers |-> answers, states |-> states,
     enabled |-> enabled, override |-> override, secret |-> "old", edit |-> ""]
LonePlans ==
    {LonePlan(how, side, auth, answers, FirstStates, TRUE, "") :
        how \in {"tunnel", "pattern", "routers", "port", "none"}, side \in Sides, auth \in Methods,
        answers \in {<<>>, Seen(Bare), Seen([Bare EXCEPT !.status = 401, !.scheme = TRUE])}}
    \cup {LonePlan(how, Side(<<>>, <<>>, FALSE), NoAuth, Seen(answer), states, enabled, override) :
        how \in {"tunnel", "port"}, answer \in Answers, states \in States,
        enabled \in BOOLEAN, override \in {"", "on"}}
LoneEdits(p) ==
    IF p.side.auth = <<"app-oidc", "app-ldap">> \/ p.override = "on"
      THEN {p, [p EXCEPT !.edit = "readers", !.override = ""], [p EXCEPT !.secret = "new"],
            [p EXCEPT !.side = Side(<<"external-proxy">>, <<>>, FALSE)]}
      ELSE {}

-----------------------------------------------------------------------------
(* The forms a value can have, over the .env of its stack. *)

Var(name) == Word("reference", "${" \o name \o "}", name, "", <<>>)
Or(name, op, default) == Word("reference", "${" \o name \o op \o "..}", name, op, default)
Forms ==
    {<<Said("v")>>, <<Word("escaped", "$$", "", "", <<>>), Said("v")>>, <<Word("open", "${A", "", "", <<>>)>>,
     <<Var("A")>>, <<Said("v"), Var("A"), Var("B")>>, <<Or("A", "!", <<>>)>>, <<Or("A", "?", <<>>)>>, <<Or("A", ":?", <<>>)>>,
     <<Or("A", "-", <<Said("d")>>)>>, <<Or("A", ":-", <<Said("d")>>)>>, <<Or("A", ":-", <<Var("B")>>)>>,
     <<Or("A", "-", <<Or("B", ":-", <<Said("d"), Said("e")>>)>>)>>,
     <<Or("A", "-", <<Said("d"), Or("A", "-", <<Or("A", "-", <<Said("deep")>>)>>)>>)>>}
DotEnvs ==
    {<<>>, <<Set("A", "x")>>, <<Set("A", "")>>, <<[key |-> "A", set |-> FALSE, value |-> ""]>>,
     <<Set("A", "x"), Set("B", "u://a:b@c"), Set("A", "y"), Set("COMPOSE_PROJECT_NAME", "Own")>>}

\* The block as a mapping, with what it merges; or as a list.
Block(form, list) ==
    IF list THEN Q(<<V(<<Said("K"), Said("=")>> \o form), S("PATH"), V(<<Said("PASSWORD"), Said("="), Said("old")>>), Q(<<>>)>>)
    ELSE Merging(<< <<"K", V(form)>>, <<"PATH", Null>>, <<"PASSWORD", S("old")>> >>,
                 <<M(<< <<"K", S("merged")>>, <<"L", V(form)>>, <<"B", Q(<<>>)>> >>)>>)
EnvDisk(p) ==
    Above @@ (EnvAt("one") :> File(p.lines, <<>>))
    @@ StackFiles("one", M(<< <<"services", M(<< <<"app", M(<< <<"environment", Block(p.form, p.list)>>, <<"image", V(p.form)>> >>)>> >>)>> >>))
EnvPlans == {[kind |-> "env", form |-> form, list |-> list, lines |-> lines] :
                form \in Forms, list \in BOOLEAN, lines \in DotEnvs}
EnvEdits(p) == {[p EXCEPT !.lines = lines] : lines \in DotEnvs}

-----------------------------------------------------------------------------
(* The files a service may take its environment from, and what can be in the way. *)

Wanted(path, required) == SM(<< <<"path", path>>, <<"required", required>> >>)
EnvFileNodes ==
    {S("own.env"), SQ(<<"own.env", "../two/.env">>), SQ(<<"../two/.env", "own.env">>), S("../../etc/far.env"), S("/apps/one/own.env"),
     V(<<Or("A", "-", <<Said("own.env")>>)>>), S("near"), S("away"), S("nowhere"), S("folder"), S("large"), S("locked"), S(""),
     S("gone"), Q(<<Wanted("gone", "false"), Wanted("../two/.env", "true"), Q(<<>>)>>), Q(<<Wanted("gone", "true")>>)}
OwnFiles ==
    (<<"apps", "one", "own.env">> :> File(<<Set("A", "own"), Set("K", "own")>>, <<>>))
    @@ (<<"apps", "one", "near">> :> LinkTo(FALSE, <<"..", "two", ".env">>))
    @@ (<<"apps", "one", "away">> :> LinkTo(TRUE, <<"etc", "far.env">>))
    @@ (<<"apps", "one", "nowhere">> :> LinkTo(TRUE, <<"etc", "gone.env">>))
    @@ (<<"apps", "one", "folder">> :> Dir)
    @@ (<<"apps", "one", "large">> :> [File(<<>>, <<>>) EXCEPT !.fault = "large"])
    @@ (<<"apps", "one", "locked">> :> [File(<<>>, <<>>) EXCEPT !.fault = "unreadable"])
    @@ (<<"etc">> :> Dir) @@ (<<"etc", "far.env">> :> File(<<Set("A", "far")>>, <<>>))
EnvFileDisk(p) ==
    Above @@ OwnFiles @@ (EnvAt("one") :> File(p.mine, <<>>)) @@ (EnvAt("two") :> File(p.theirs, <<>>))
    @@ StackFiles("one", M(<< <<"services", M(<< <<"app", M(<< <<"env_file", p.node>>, <<"environment", p.block>> >>)>> >>)>> >>))
    @@ StackFiles("two", M(<< <<"services", M(<< <<"db", M(<< <<"environment", M(<< <<"K", V(<<Var("A")>>)>> >>)>> >>)>> >>)>> >>))
EnvFilePlans ==
    {[kind |-> "file", node |-> node, block |-> block, mine |-> mine, theirs |-> <<Set("A", "x"), Set("K", "1")>>] :
        node \in EnvFileNodes, block \in {M(<<>>), M(<< <<"K", Null>> >>), SM(<< <<"K", "v">> >>)},
        mine \in {<<>>, <<Set("A", "../two/.env")>>}}
EnvFileEdits(p) ==
    {[p EXCEPT !.theirs = theirs] : theirs \in {<<Set("A", "y"), Set("B", "2")>>, <<[key |-> "K", set |-> FALSE, value |-> ""]>>}}
    \cup {[p EXCEPT !.mine = mine] : mine \in {<<>>, <<Set("A", "../two/.env")>>}}

-----------------------------------------------------------------------------
(* What else may be on a disk. *)

OneApp(fields) == M(<< <<"services", M(<< <<"app", M(fields)>> >>)>> >>)
Documents ==
    {Null, S("text"), M(<<>>), M(<< <<"services", Q(<<>>)>> >>), M(<< <<"name", S("Own")>>, <<"services", M(<< <<"app", Null>>, <<"db", S("text")>> >>)>> >>),
     M(<< <<"networks", M(<< <<"back", M(<< <<"external", SM(<< <<"name", "far">> >>)>> >>)>>, <<"default", SM(<< <<"driver", "bridge">>, <<"name", "own">> >>)>> >>)>>,
          <<"services", M(<< <<"app", M(<< <<"networks", M(<< <<"back", Null>>, <<"gone", Null>>, <<"default", Null>> >>)>> >>)>>,
                             <<"db", M(<< <<"depends_on", M(<< <<"app", Null>> >>)>> >>)>> >>)>> >>),
     OneApp(<< <<"ports", Q(<<SM(<< <<"target", "80">>, <<"published", "443">>, <<"host_ip", "10.0.0.1">> >>),
                              SM(<< <<"target", "80">>, <<"protocol", "udp">>, <<"host_ip", "10.0.0.1">> >>), S("80"), S("53/udp"), Q(<<>>)>>)>>,
               <<"command", SQ(<<"run", "it">>)>>, <<"labels", M(<< <<"tr.enable", S("no")>>, <<"cf.enable", Null>>, <<"tr.app.rule", Q(<<>>)>> >>)>> >>),
     OneApp(<< <<"volumes", Q(<<S("./conf:/c:ro"), S("/srv"), S("//./pipe/x"), SM(<< <<"type", "tmpfs">>, <<"read_only", "true">> >>),
                                SM(<< <<"type", "cluster">> >>), SM(<< <<"source", "data">>, <<"target", "/x">> >>)>>)>>,
               <<"command", V(<<Var("A")>>)>>, <<"labels", Q(<<S("cf.enable"), Null>>)>> >>),
     M(<< <<"services", Merging(<<>>, <<Merging(<<>>, <<M(<< <<"app", Null>> >>), Merging(<<>>, <<M(<< <<"db", Null>> >>)>>)>>)>>)>> >>)}

Entitled_ == M(<< <<"name", S("idp")>>, <<"detail", S("a long text")>> >>)
Rich ==
    M(<< <<"description", S("a long text")>>, <<"depends_on", S("db")>>, <<"colour", S("red")>>, <<"owner", Q(<<>>)>>,
         <<"links", Q(<<SM(<< <<"url", "u://a:b@c">> >>), SM(<< <<"label", "no url">> >>), S("x")>>)>>,
         <<"dependencies", Q(<<Entitled_, S("mail"), S("dropped")>>)>>,
         <<"services", M(<< <<"gone", Null>>, <<"db", S("text")>>,
            <<"app", M(<< <<"auth", Q(<<S("magic"), S("other"), SM(<< <<"mechanism", "other">>, <<"detail", "a door">> >>), S("mtls")>>)>>,
                          <<"depends_on", Q(<<S("a/b/c"), S("a b")>>)>>, <<"expected", M(<< <<"ingress", SQ(<<"lan", "moon">>)>> >>)>>,
                          <<"unauthenticated", SM(<< <<"intentional", "no">> >>)>>, <<"dependencies", S("mail")>> >>)>> >>)>> >>)
SidecarDocs ==
    {Null, S("text"), Rich, M(<< <<"services", Q(<<>>)>>, <<"links", SM(<< <<"label", "l">>, <<"url", "u">> >>)>> >>)}
    \cup {M(<< <<"services", M(<< <<"app", M(<< <<"unauthenticated", accepted>>, <<"expected", expected>>, <<"auth", auth>> >>)>> >>)>> >>) :
            accepted \in {S("yes"), SM(<< <<"intentional", "true">> >>)}, expected \in {S("lan"), M(<< <<"ingress", M(<<>>)>> >>)},
            auth \in {Null, Q(<<Q(<<>>)>>), SM(<< <<"mechanism", "">> >>)}}

Plain_ == OneApp(<< <<"ports", SQ(<<"80:80">>)>> >>)
OneStack == Above @@ StackFiles("one", Plain_)
OddDisks ==
    {Above @@ StackFiles("one", doc) : doc \in Documents}
    \cup {OneStack @@ (SidecarAt("one") :> Yaml(doc)) : doc \in SidecarDocs}
    \cup {OneStack @@ (place :> entry) :
            place \in {SidecarAt("one"), <<"apps", "one", "labview.yaml">>, EnvAt("one"), ComposeAt("two")},
            entry \in {Dir, File(<<>>, <<>>), [File(<<>>, <<>>) EXCEPT !.fault = "large"], [File(<<>>, <<>>) EXCEPT !.fault = "unreadable"],
                       LinkTo(FALSE, <<"compose.yml">>), LinkTo(TRUE, <<"etc", "x">>), LinkTo(FALSE, <<"labview.yml">>)}}
    \cup {(<<>> :> Dir), [OneStack EXCEPT ![<<"apps">>].fault = "unreadable"], [OneStack EXCEPT ![InApps("one")].fault = "unreadable"],
          [OneStack EXCEPT ![ComposeAt("one")] = Dir], [OneStack EXCEPT ![ComposeAt("one")].fault = "unreadable"],
          [OneStack EXCEPT ![ComposeAt("one")] = File(<<>>, <<>>)],
          OneStack @@ (<<"apps", "one", "docker-compose.yml">> :> Yaml(S("text"))),
          Above @@ (InApps("one") :> Dir) @@ (<<"apps", "one", "docker-compose.yml">> :> Yaml(Plain_)),
          OneStack @@ (<<"apps", "loose">> :> File(<<>>, <<>>)) @@ (InApps("two") :> Dir),
          Above @@ (<<"srv">> :> Dir) @@ (<<"srv", "real">> :> Dir) @@ (<<"srv", "real", "compose.yml">> :> Yaml(Plain_))
                @@ (<<"srv", "real", "labview.yml">> :> Yaml(Rich)) @@ (InApps("one") :> LinkTo(TRUE, <<"srv", "real">>))}
OddPlans == {[kind |-> "odd", disk |-> disk] : disk \in OddDisks}
OddEdits(p) == {[p EXCEPT !.disk = OneStack]}

-----------------------------------------------------------------------------
Built(p) ==
    CASE p.kind = "wired" -> Wired(p)
      [] p.kind = "lone" -> Lone(p)
      [] p.kind = "env" -> Around(p, EnvDisk(p))
      [] p.kind = "file" -> Around(p, EnvFileDisk(p))
      [] OTHER -> Around(p, p.disk)

\* What the next scan may find.
PlanEdits(p) ==
    CASE p.kind = "wired" -> WiredEdits(p)
      [] p.kind = "lone" -> LoneEdits(p)
      [] p.kind = "env" -> EnvEdits(p)
      [] p.kind = "file" -> EnvFileEdits(p)
      [] OTHER -> OddEdits(p)

MCWorlds == {Built(p) : p \in WiredPlans} \cup {Built(p) : p \in LonePlans} \cup {Built(p) : p \in EnvPlans}
            \cup {Built(p) : p \in EnvFilePlans} \cup {Built(p) : p \in OddPlans}
MCEdits(w) == {Built(p) : p \in PlanEdits(w.plan)}
=============================================================================
