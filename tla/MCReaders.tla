------------------------------ MODULE MCReaders ------------------------------
EXTENDS Readers

\* Names, their words, and references without their provider.
Words == [absent |-> <<"absent">>, proxy |-> <<"proxy">>, app |-> <<"app">>, idp |-> <<"idp">>,
          blog |-> <<"blog">>, wiki |-> <<"wiki">>, front |-> <<"front">>, authentik |-> <<"authentik">>]
    @@ ("" :> <<>> @@ "app.example" :> <<"app", "example">> @@ "dash.example" :> <<"dash", "example">>
        @@ "sso.example" :> <<"sso", "example">> @@ "blog-oidc" :> <<"blog", "oidc">>
        @@ "my-wiki" :> <<"my", "wiki">> @@ "sso@file" :> <<"sso", "file">>
        @@ "sso" :> <<"sso">> @@ "gate" :> <<"gate">> @@ "outer" :> <<"outer">> @@ "headers" :> <<"headers">>
        @@ "api@internal" :> <<"api", "internal">> @@ "goauthentik.io" :> <<"goauthentik", "io">>
        @@ "idp.local" :> <<"idp", "local">> @@ "dash" :> <<"dash">>)
MCTokens == Words
MCFold == [n \in DOMAIN Words |-> n]
Deep == {"m1", "m2", "m3", "m4", "m5", "m6", "m7"}
MCBareName == [n \in DOMAIN Words \cup Deep \cup {"app@docker", "dash@docker", "extra@file"} |->
    CASE n = "sso@file" -> "sso" [] n = "app@docker" -> "app" [] n = "dash@docker" -> "dash"
      [] n = "extra@file" -> "extra" [] n = "api@internal" -> "api" [] OTHER -> n]

To(host, form) == [NoAddress EXCEPT !.scheme = "http", !.host = host, !.form = form]
Base == [container |-> "", image |-> "other", labels |-> <<>>, env |-> <<>>, targets |-> <<>>, ports |-> <<>>,
         docker |-> [NoDocker EXCEPT !.ips = {}] @@ [targets |-> <<>>],
         networks |-> {}, tunnels |-> <<>>, routers |-> <<>>]

\* The proxy: with its API published by its own labels, or known by its image alone.
Published == (<<"routers", "dash", "rule">> :> {"dash.example"}) @@ (<<"routers", "dash", "service">> :> "api@internal")
Proxy(lbls) == [Base EXCEPT !.image = "traefik", !.labels = lbls] @@ [stack |-> 1, name |-> "proxy"]
\* A service behind it, gated by what its labels name.
App(refs, more, env) ==
    [Base EXCEPT !.labels = (<<"routers", "app", "rule">> :> {"app.example"})
                             @@ (<<"routers", "app", "middlewares">> :> refs) @@ more, !.env = env]
       @@ [stack |-> 2, name |-> "app"]
\* The identity provider.
Idp(lbls) == [Base EXCEPT !.image = "authentik", !.container = "authentik", !.labels = lbls]
       @@ [stack |-> 2, name |-> "idp"]

Stacks == <<[id |-> "front"], [id |-> "blog"]>>
NoTable_ == [routers |-> <<>>, middlewares |-> <<>>, services |-> <<>>]
Off == [enabled |-> FALSE, url |-> "", credential |-> FALSE, token |-> FALSE]
World(services) ==
    [fleet |-> [stacks |-> Stacks, services |-> services], origins |-> {}, proxy |-> Off, identity |-> Off,
     table |-> NoTable_, entrypoints |-> <<>>, applications |-> <<>>, details |-> <<>>, outposts |-> <<>>,
     counted |-> TRUE]

\* Where the endpoints are, and who is offered what.
Searches ==
    {[World(<<Proxy(lbls), App(<<>>, <<>>, <<>>), Idp(<<>>)>>) EXCEPT
        !.origins = origins, !.proxy = [Off EXCEPT !.enabled = TRUE, !.url = url, !.credential = cred]] :
        lbls \in {<<>>, Published,
                  Published @@ (<<"routers", "app", "rule">> :> {"app.example"}),
                  <<"enable">> :> "false"}, origins \in {{}, {2}},
        url \in {"", "dash.example"}, cred \in BOOLEAN}
    \cup
    {[World(<<App(<<>>, <<>>, <<>>), Idp(<<"routers", "idp", "rule">> :> {"sso.example"})>>) EXCEPT
        !.identity = [Off EXCEPT !.enabled = TRUE, !.url = url, !.token = token]] :
        url \in {"", "idp"}, token \in BOOLEAN}

\* What the identity provider holds.
Application(slug, visible, launch, provider) ==
    [slug |-> slug, name |-> slug, visible |-> visible, launch |-> launch, provider |-> provider, backchannel |-> <<>>]
Ref(pk, kind) == [pk |-> pk, name |-> "", kind |-> kind]
Detail(list, pk, kind, slug, internal, mode) ==
    [list |-> list, pk |-> pk, name |-> "blog", kind |-> kind, mode |-> mode, internal |-> internal,
     external |-> To("sso.example", "fqdn"), redirects |-> <<>>, slug |-> slug, backslug |-> IF slug = "" THEN "wiki" ELSE "",
     appname |-> "", backname |-> "my-wiki"]
\* Four applications in pages of two: the fourth is known through two records, or none.
Held ==
    {[World(<<App(<<"sso@file">>, (<<"tunnels", 1, "hostname">> :> "app.example")
                       @@ (<<"tunnels", 1, "service">> :> To("app", "bare")), <<>>), Idp(<<>>)>>) EXCEPT
        !.identity = [Off EXCEPT !.enabled = TRUE, !.url = "idp", !.token = TRUE],
        !.applications = <<Application("app", seen[1], To("app", launch), <<Ref("1", "proxy")>>),
                           Application("blog-oidc", seen[2], [NoAddress EXCEPT !.form = "template"], <<Ref("2", "")>>),
                           Application("wiki", seen[3], NoAddress, <<>>)>>,
        !.details = <<Detail("proxy", "1", "proxy", "app", To("app", "bare"), mode)>> \o more,
        !.outposts = outposts, !.counted = counted] :
        seen \in [1..3 -> BOOLEAN], launch \in {"bare"}, mode \in {"forward_domain", "proxy"},
        more \in {<<>>, <<Detail("oauth2", "2", "oauth2", "blog-oidc", NoAddress, "")>>,
                  <<Detail("proxy", "3", "ldap", "", NoAddress, "ldap"), Detail("oauth2", "4", "oauth2", "", NoAddress, ""),
                    Detail("oauth2", "2", "oauth2", "blog-oidc", NoAddress, "")>>},
        outposts \in {<<>>, <<[name |-> "o", providers |-> {"1", "3"}]>>}, counted \in BOOLEAN}

\* What the proxy holds, against what the labels of the service claim.
Holding(type, held) == [name |-> "", error |-> "", body |-> type :> held]
Gate == Holding("forwardauth", [To("idp", "bare") EXCEPT !.outpost = TRUE])
Router(name, refs, eps, error) ==
    [name |-> name, provider |-> "docker", status |-> "enabled", error |-> error, rule |-> TRUE,
     hosts |-> {"app.example"}, service |-> "app", entryPoints |-> eps, middlewares |-> refs]
Nest(n, last) == [m \in {"m1", "m2", "m3", "m4", "m5", "m6", "m7"} |->
    LET i == CHOOSE i \in 1..7 : m = <<"m1", "m2", "m3", "m4", "m5", "m6", "m7">>[i]
    IN  IF i < n THEN Holding("chain", <<<<"m1", "m2", "m3", "m4", "m5", "m6", "m7">>[i + 1], "m1">>) ELSE last]
Tables ==
    {[World(<<Proxy(<<"middlewares", "gate", "headers">> :> ""),
              App(refs, <<"services", "app">> :> "80", env),
              Idp((<<"middlewares", "gate", "basicauth">> :> "") @@ (<<"middlewares", "outer", "chain">> :> <<"gate">>))>>) EXCEPT
        !.proxy = [Off EXCEPT !.enabled = TRUE, !.url = "dash.example"],
        !.table = [routers |-> <<Router("app@docker", own, <<"web">>, error)>>,
                   middlewares |-> Nest(depth, last), services |-> "app" :> <<To("app", "bare")>>],
        !.entrypoints = "web" :> attached] :
        refs \in {<<>>, <<"sso@file">>, <<"outer">>, <<"gate">>}, own \in {<<>>, <<"m1">>, <<"m4", "m1">>},
        attached \in {<<>>, <<"m1">>, <<"m7">>},
        depth \in {1, 4, 7}, last \in {Gate, Holding("headers", "")}, error \in BOOLEAN,
        env \in {<<>>, <<[key |-> "LDAP_HOST", asks |-> {"ldap"}, value |-> "authentik",
                           secret |-> "uri", masked |-> FALSE],
                          [key |-> "OIDC_SECRET", asks |-> {"oauth"}, value |-> "front",
                           secret |-> "key", masked |-> FALSE]>>}}

MCWorlds == Searches \cup Held \cup Tables
=============================================================================
