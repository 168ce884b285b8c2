------------------------------ MODULE Sidecars ------------------------------
(***************************************************************************)
(* internal/scan/sidecar.go: the declaration file beside a compose file,   *)
(* what of it is kept and what is said of the rest.  Nothing in it is      *)
(* substituted.                                                            *)
(***************************************************************************)
EXTENDS Compose, Secrets

CONSTANTS
    SidecarNames,        \* the configured filenames, in order; names in this directory
    MaxSidecarEntries,   \* maxSidecarEntries
    MaxSidecarAuth,      \* maxSidecarAuth
    RedactUris,          \* secrets.redactUriCredentials
    Shorten(_)           \* a text cut to maxSidecarString; itself if it is short enough

Mechanisms == {"app-local-accounts", "app-ldap", "app-oidc", "app-saml", "app-token", "mtls",
               "network-restricted", "external-proxy", "other"}
IngressNames == {"public", "traefik", "lan", "internal", "none"}

Reject(where, what) == Got(<<>>, {<<what, where>>})
Written(n) == IF IsScalar(n) THEN RawText(n.text) ELSE ""

\* findSidecar: the first that is there, were it a link to nothing.
FindSidecar(disk, dir) ==
    SelectSeq(SidecarNames, LAMBDA name : \E place \in ToSet(Real(disk, dir)) : Append(place, name) \in DOMAIN disk)

\* capString, str: text, up to its cap.
CapString(text, where) ==
    Got(Shorten(text), IF Shorten(text) = text THEN {} ELSE {<<"truncated", where>>})

StrOf(v, key) ==
    IF v = Null THEN Got("", {})
    ELSE IF ~IsScalar(v) THEN Got("", {<<"expected text", key>>})
    ELSE CapString(RawText(v.text), key)
Str(n, key) == StrOf(Field(n, key), key)

\* required: one warning, whether it is missing, empty or no text.
RequiredOf(v, s, key) ==
    IF v = Null \/ (IsScalar(v) /\ s.got = "") THEN Got("", s.notes \cup {<<"needs one", key>>}) ELSE s
Required(n, key) == LET v == Field(n, key) IN RequiredOf(v, StrOf(v, key), key)

\* listOf: a list, or what stands for a list of one.
ListOf(v) == IF v = Null THEN <<>> ELSE IF IsSequence(v) THEN v.items ELSE <<v>>

\* The entries of a list up to its limit, those that are rejected left out.
UpTo(nodes, key, limit, Read(_)) ==
    Saying(As(Each(SubSeq(nodes, 1, IF Len(nodes) > limit THEN limit ELSE Len(nodes)), Read), FlattenSeq),
           IF Len(nodes) > limit THEN {<<"the rest ignored", key>>} ELSE {})
ReadList(n, key, limit, Read(_)) == UpTo(ListOf(Field(n, key)), key, limit, Read)

\* links: the address is redacted before the label falls back to it.
Labelled(label, url) == [label |-> IF label = "" THEN url ELSE label, url |-> url]
Shown(url) == IF RedactUris /\ Shape(url) = "uri" THEN RedactURIs(url) ELSE url
LinkOf(url, label) ==
    IF url.got = "" THEN Got(<<>>, url.notes)
    ELSE Got(<<Labelled(label.got, Shown(url.got))>>, url.notes \cup label.notes)
Link(item) ==
    IF IsMapping(item) THEN LinkOf(Required(item, "url"), Str(item, "label")) ELSE Reject("links", "expected {label, url}")

\* A bare name, or a mapping with a detail.
Entitled(name, detail) == [name |-> name, detail |-> detail]
NamedOf(name, detail) ==
    IF name.got = "" THEN Got(<<>>, name.notes)
    ELSE Got(<<Entitled(name.got, detail.got)>>, name.notes \cup detail.notes)
NamedEntry(item, key, complaint) ==
    IF IsScalar(item) THEN As(CapString(Written(item), key), LAMBDA text : <<Entitled(text, "")>>)
    ELSE IF ~IsMapping(item) THEN Reject(key, complaint)
    ELSE NamedOf(Required(item, key), Str(item, "detail"))

\* validServiceRef: one name or two, neither of them blank.
ValidServiceRef(ref) ==
    /\ Len(Split(ref, "/")) \in {1, 2}
    /\ \A part \in ToSet(Split(ref, "/")) : part # "" /\ Shape(part) # "spaced"

RefOf(read) ==
    IF \A e \in ToSet(read.got) : ValidServiceRef(e.name) THEN read
    ELSE Got(<<>>, read.notes \cup {<<"no service reference", "depends_on">>})
ServiceRef(item) == RefOf(NamedEntry(item, "service", "expected stack/service"))

\* auth: a known mechanism; "other" says nothing without a detail. A bare one is not cut.
AuthOf(read) ==
    IF \E e \in ToSet(read.got) : e.name \notin Mechanisms
      THEN Got(<<>>, read.notes \cup {<<"unknown mechanism", "auth">>})
    ELSE IF \E e \in ToSet(read.got) : e.name = "other" /\ e.detail = ""
      THEN Got(<<>>, read.notes \cup {<<"needs a detail", "auth">>})
    ELSE read
Auth(item) ==
    AuthOf(IF IsScalar(item) THEN Got(<<Entitled(Written(item), "")>>, {})
           ELSE NamedEntry(item, "mechanism", "expected a mechanism"))

\* unauthenticated: an acceptance has a reason.
AcceptedOf(v, reason) ==
    LET refused(what) == Got(<<>>, reason.notes \cup {<<what, "unauthenticated">>})
    IN  IF v = Null THEN Got(<<>>, {})
        ELSE IF ~IsMapping(v) THEN Reject("unauthenticated", "expected {intentional, reason}")
        ELSE IF Written(Field(v, "intentional")) # "true" THEN refused("not intentional")
        ELSE IF reason.got = "" THEN refused("needs a reason")
        ELSE Got(<<reason.got>>, reason.notes)
Unauthenticated(n) == LET v == Field(n, "unauthenticated") IN AcceptedOf(v, Str(v, "reason"))

\* expected: the kinds that are kinds.
ExpectedKind(item) ==
    IF Written(item) \in IngressNames THEN Got(<<Written(item)>>, {}) ELSE Reject("expected", "no kind of ingress")
ExpectedOf(v, kinds) ==
    IF v = Null THEN Got({}, {})
    ELSE IF ~IsMapping(v) THEN Got({}, {<<"expected {ingress}", "expected">>})
    ELSE IF IsMapping(kinds) THEN Got({}, {<<"expected a list", "expected">>})
    ELSE As(Each(ListOf(kinds), ExpectedKind), LAMBDA list : ToSet(FlattenSeq(list)))
Expected(n) == LET v == Field(n, "expected") IN ExpectedOf(v, Field(v, "ingress"))

-----------------------------------------------------------------------------
CommonKeys == {"description", "owner", "criticality", "notes", "data", "links", "dependencies"}
TopKeys == CommonKeys \cup {"services"}
ServiceKeys == CommonKeys \cup {"depends_on", "auth", "unauthenticated", "expected"}

\* unknownKeys: named, not dropped; one that only is at the wrong level apart.
UnknownKeys(n, accepted) ==
    LET unknown == {e.key : e \in ToSet(Entries(n))} \ accepted
    IN  (IF "depends_on" \in unknown THEN {<<"a service-level key", "depends_on">>} ELSE {})
        \cup (IF unknown \ {"depends_on"} # {} THEN {<<"unknown keys", "">>} ELSE {})

\* declaration: what a stack and a service have in common.
Strings(n, keys) == [key \in keys |-> Str(n, key)] @@ <<>>
DeclarationOf(fields) == Got([f \in DOMAIN fields |-> fields[f].got] @@ <<>>, AllNotes(fields))
Declaration(n) ==
    DeclarationOf(
        Strings(n, {"description", "owner", "criticality", "notes", "data"})
        @@ [links |-> ReadList(n, "links", MaxSidecarEntries, Link),
            dependencies |-> ReadList(n, "dependencies", MaxSidecarEntries,
                                      LAMBDA item : NamedEntry(item, "name", "expected a name"))])

EmptyDeclaration(d) ==
    (\A key \in DOMAIN d \ {"links", "dependencies"} : d[key] = "") /\ d.links = <<>> /\ d.dependencies = <<>>

\* One service's block; an empty one declares nothing.
BlockOf(d) ==
    LET empty == /\ EmptyDeclaration(d.common.got)
                 /\ <<d.auth.got, d.refs.got, d.accepted.got, d.expected.got>> = <<<<>>, <<>>, <<>>, {}>>
        names(list) == [i \in DOMAIN list |-> list[i].name]
        details(list) == [i \in DOMAIN list |-> list[i].detail]
    IN  Got(IF empty THEN <<>>
            ELSE <<[present |-> TRUE, auth |-> names(d.auth.got), accepted |-> d.accepted.got # <<>>,
                    expected |-> d.expected.got, declared |-> names(d.refs.got),
                    said |-> <<d.common.got, details(d.auth.got), details(d.refs.got), d.accepted.got>>]>>,
            AllNotes(d))
ServiceDeclaration(n) ==
    Saying(BlockOf([common |-> Declaration(n),
                    auth |-> ReadList(n, "auth", MaxSidecarAuth, Auth),
                    refs |-> ReadList(n, "depends_on", MaxSidecarEntries, ServiceRef),
                    accepted |-> Unauthenticated(n), expected |-> Expected(n)]),
           UnknownKeys(n, ServiceKeys))

\* services: the blocks of those the compose file defines.
BlockEntry(e) == As(ServiceDeclaration(e.node), LAMBDA block : [key |-> e.key, block |-> block])
BlocksByKey(list) ==
    LET kept == ByKey(SelectSeq(list, LAMBDA b : b.block # <<>>)) IN [key \in DOMAIN kept |-> kept[key].block[1]]
SidecarWarnings(n, names) ==
    LET entries == ToSet(Entries(n))
    IN  {<<"no such service", e.key>> : e \in {e \in entries : e.key \notin names}}
        \cup {<<"expected a mapping", e.key>> :
                e \in {e \in entries : e.key \in names /\ ~IsMapping(e.node) /\ e.node # Null}}
        \cup (IF n # Null /\ ~IsMapping(n) THEN {<<"expected a mapping", "services">>} ELSE {})
SidecarServices(n, names) ==
    Saying(As(Each(SelectSeq(Entries(n), LAMBDA e : e.key \in names /\ IsMapping(e.node)), BlockEntry), BlocksByKey),
           SidecarWarnings(n, names))

\* parse: the stack's own declaration and its services'.
NoSidecar(warnings) == [stack |-> <<>>, services |-> <<>>, warnings |-> warnings]
SidecarOf(stack, services, warnings) ==
    [stack |-> IF EmptyDeclaration(stack.got) THEN <<>> ELSE <<stack.got>>,
     services |-> services.got,
     warnings |-> warnings \cup stack.notes \cup services.notes]
ParseSidecar(doc, names) ==
    IF doc = Null THEN NoSidecar({})
    ELSE IF ~IsMapping(doc) THEN NoSidecar({<<"expected a mapping", "">>})
    ELSE SidecarOf(Declaration(doc), SidecarServices(Field(doc, "services"), names), UnknownKeys(doc, TopKeys))

\* readSidecar: found, allowed, read, parsed.
SidecarIn(entry, name, names) ==
    IF Trouble(entry) # "" THEN NoSidecar({<<Trouble(entry), name>>})
    ELSE IF entry.body.doc = <<>> THEN NoSidecar({<<"not YAML", name>>})
    ELSE ParseSidecar(entry.body.doc[1], names)
ReadSidecar(disk, root, dir, names) ==
    LET found == FindSidecar(disk, dir)
    IN  IF found = <<>> THEN NoSidecar({})
        ELSE IF ~Allows(disk, root, Append(dir, found[1])) THEN NoSidecar({<<"outside the scan root", found[1]>>})
        ELSE SidecarIn(Entry(disk, Append(dir, found[1])), found[1], names)
=============================================================================
