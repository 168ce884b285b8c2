------------------------------- MODULE Compose -------------------------------
(***************************************************************************)
(* internal/scan, the compose file: compose.go with the YAML reader it     *)
(* goes through (node.go) and the substitution of its stack's .env         *)
(* (interp.go).                                                            *)
(*                                                                         *)
(* A YAML node is nothing, a scalar, a sequence or a mapping, whose        *)
(* entries are its own and the ones "<<" merges in; an alias is the node   *)
(* it stands for.  A scalar's text is the sequence of its parts: text as   *)
(* it is written, or a reference to a variable.  What reading something    *)
(* leaves is what was got from it and the notes made on the way.           *)
(***************************************************************************)
EXTENDS Files

CONSTANTS
    Order,            \* every name there is, in the order names are sorted in
    MaxMergeDepth,    \* maxMergeDepth
    MaxInterpDepth,   \* maxInterpDepth
    Split(_, _),      \* a text at a separator: at "=" the first one only
    Shape(_),         \* what a text looks like: a "path", a "pipe", a "uri" with a password
    ProjectName(_),   \* normalizeProjectName
    SecretKeys        \* the keys config.Masked withholds the values of

Got(got, notes) == [got |-> got, notes |-> notes]
InOrder(names) == SelectSeq(Order, LAMBDA n : n \in names)

\* Something made of what was got, and something more said of it.
As(read, Made(_)) == Got(Made(read.got), read.notes)
Saying(read, notes) == Got(read.got, read.notes \cup notes)
AllNotes(reads) == UNION {reads[r].notes : r \in DOMAIN reads}

\* Every element read; as a sequence, which is evaluated once.
ReadEach(list, Read(_)) == [i \in DOMAIN list |-> Read(list[i])] \o <<>>

\* What was got, and all the notes.
Gathered(reads) == Got([i \in DOMAIN reads |-> reads[i].got], AllNotes(reads))
Each(list, Read(_)) == Gathered(ReadEach(list, Read))

-----------------------------------------------------------------------------
(* node.go *)

Null == [kind |-> "null"]
IsScalar(n) == n.kind = "scalar"
IsSequence(n) == n.kind = "sequence"
IsMapping(n) == n.kind = "mapping"

\* The first entry of each key.
FirstOfEach(list) ==
    FoldLeft(LAMBDA kept, e : IF \E i \in DOMAIN kept : kept[i].key = e.key THEN kept ELSE Append(kept, e),
             <<>>, list)

\* mergedEntries: a mapping's own entries before the merged ones, and those only so deep.
RECURSIVE MergedEntries(_, _)
MergedEntries(n, depth) ==
    IF ~IsMapping(n) \/ depth > MaxMergeDepth THEN <<>>
    ELSE FirstOfEach(n.own \o FlattenSeq([i \in DOMAIN n.merged |-> MergedEntries(n.merged[i], depth + 1)]))

Entries(n) == MergedEntries(n, 0)
Items(n) == IF IsSequence(n) THEN n.items ELSE <<>>
FirstUnder(entries, key) ==
    LET at == SelectInSeq(entries, LAMBDA e : e.key = key)
    IN  IF at = 0 THEN Null ELSE entries[at].node
Field(n, key) == FirstUnder(Entries(n), key)

-----------------------------------------------------------------------------
(* interp.go *)

RawText(parts) == FoldLeft(LAMBDA text, p : text \o p.raw, "", parts)
SingleRef(parts) == Len(parts) = 1 /\ parts[1].kind = "reference"

AsWritten(p, what) == [text |-> p.raw, from |-> {"shell"}, notes |-> {what}]
Given(text) == [text |-> text, from |-> {"env-file"}, notes |-> {}]
Literal(text) == [text |-> text, from |-> {}, notes |-> {}]

\* lookup: a name no file sets is the shell's, and is left as written.
Lookup(p, vars) == IF p.name \in DOMAIN vars THEN Given(vars[p.name]) ELSE AsWritten(p, "not set")

\* The forms with a colon take an empty value for none.
MissingVar(p, vars) == p.name \notin DOMAIN vars \/ (vars[p.name] = "" /\ p.op \in {":-", ":?"})

\* evalBraced and expandAt: a default is only looked at when it is needed.
RECURSIVE ExpandAt(_, _, _)
Defaulted(p, default) == IF SingleRef(p.default) THEN default ELSE [default EXCEPT !.from = @ \cup {"default"}]

Part(p, vars, depth) ==
    CASE p.kind = "text" -> Literal(p.raw)
      [] p.kind = "escaped" -> Literal("$")
      [] p.kind = "open" -> AsWritten(p, "no closing brace")
      [] p.kind = "reference" /\ p.op = "" -> Lookup(p, vars)
      [] p.kind = "reference" /\ p.op \in {":-", "-"} ->
            IF MissingVar(p, vars) THEN Defaulted(p, ExpandAt(p.default, vars, depth + 1)) ELSE Given(vars[p.name])
      [] p.kind = "reference" /\ p.op \in {":?", "?"} ->
            IF MissingVar(p, vars) THEN AsWritten(p, "required") ELSE Given(vars[p.name])
      [] OTHER -> AsWritten(p, "no reference")

Together(part) ==
    [text |-> FoldLeft(LAMBDA text, p : text \o p.text, "", part),
     from |-> UNION {part[i].from : i \in DOMAIN part},
     notes |-> AllNotes(part)]

ExpandAt(parts, vars, depth) ==
    IF depth > MaxInterpDepth
      THEN [text |-> RawText(parts), from |-> {"shell"}, notes |-> {"too deep"}]
      ELSE Together(ReadEach(parts, LAMBDA p : Part(p, vars, depth)))

Expand(parts, vars) == ExpandAt(parts, vars, 0)

\* Mutant: only a value nothing supplied is taken for the shell's.
SourceOfUnset(from, declaredIn) ==
    IF "shell" \in from THEN "shell-default" ELSE IF from = {"env-file"} THEN "env-file" ELSE declaredIn

\* sourceOf: the weakest of what supplied a value.
SourceOf(from, declaredIn) ==
    IF from \cap {"default", "shell"} # {} THEN "shell-default"
    ELSE IF "env-file" \in from THEN "env-file"
    ELSE declaredIn

\* envMap: the last line of a key, if it gives it a value.
EnvMap(lines) ==
    LET last == [key \in {lines[i].key : i \in DOMAIN lines} |->
                    lines[CHOOSE i \in DOMAIN lines : /\ lines[i].key = key
                                                      /\ \A j \in DOMAIN lines : lines[j].key = key => j <= i]]
    IN  [key \in {key \in DOMAIN last : last[key].set} |-> last[key].value]

-----------------------------------------------------------------------------
(* compose.go.  ctx is what one file is read with: where its stack is, the variables, and the
   names its networks have. *)

Noted(e, where) == Got(e.text, {<<what, where>> : what \in e.notes})
Expanded(ctx, n, where) == Noted(Expand(n.text, ctx.vars), where)
TextOf(ctx, v, where) == IF IsScalar(v) THEN Expanded(ctx, v, where) ELSE Got("", {})
Text(ctx, n, key) == TextOf(ctx, Field(n, key), key)
Texts(ctx, n, keys) == [key \in keys |-> Text(ctx, n, key)] @@ <<>>

\* The scalars of a list; anything else in it is passed over.
Scalars(ctx, n, where) ==
    Each(SelectSeq(Items(n), IsScalar), LAMBDA item : Expanded(ctx, item, where))

\* A list of names, or a mapping from them.
KeysOf(entries) == [i \in DOMAIN entries |-> entries[i].key]
NameList(ctx, v, where) == IF IsMapping(v) THEN Got(KeysOf(Entries(v)), {}) ELSE Scalars(ctx, v, where)

\* resolveDecl: the name a network or volume really has.
Declared(ctx, key, ext, legacy, said) ==
    LET external == (IsScalar(ext) /\ RawText(ext.text) = "true") \/ IsMapping(ext)
        real == IF said["name"].got # "" THEN said["name"].got
                ELSE IF legacy.got # "" THEN legacy.got
                ELSE IF external THEN key
                ELSE ctx.project \o "_" \o key
    IN  Got([key |-> key, name |-> real, external |-> external, driver |-> said["driver"].got],
            legacy.notes \cup AllNotes(said))
ResolveDecl(ctx, e) ==
    LET ext == Field(e.node, "external")
    IN  Declared(ctx, e.key, ext, Text(ctx, ext, "name"), Texts(ctx, e.node, {"name", "driver"}))

DeclaredNames(ctx, n) == Each(Entries(n), LAMBDA e : ResolveDecl(ctx, e))

\* defaultNetwork: as it is declared, if it is.
RealNetwork(ctx, key) ==
    LET at == SelectInSeq(ctx.nets, LAMBDA d : d.key = key)
    IN  IF at = 0 THEN ctx.project \o "_" \o key ELSE ctx.nets[at].name

\* networks: the real ones, the default one for a service that names none.
NetworksOf(ctx, mode, keys) ==
    LET undeclared == {key \in ToSet(keys.got) : key # "default" /\ \A i \in DOMAIN ctx.nets : ctx.nets[i].key # key}
    IN  IF mode.got # "" THEN Got({}, mode.notes \cup {<<"no compose network", mode.got>>})
        ELSE IF keys.got = <<>> THEN Got({RealNetwork(ctx, "default")}, mode.notes \cup keys.notes)
        ELSE Got({RealNetwork(ctx, key) : key \in ToSet(keys.got)},
                 mode.notes \cup keys.notes \cup {<<"not declared", key>> : key \in undeclared})
Networks(ctx, n) ==
    NetworksOf(ctx, Text(ctx, n, "network_mode"), NameList(ctx, Field(n, "networks"), "networks"))

PortMapping(published, target, protocol, bind) ==
    [published |-> published, target |-> target, protocol |-> protocol, bind |-> bind]

\* shortPort: the address it is bound to, what is published, what it leads to.
ShortPort(raw) ==
    LET halves == Split(raw, "/")
        protocol == IF Len(halves) > 1 /\ Last(halves) # "" THEN Last(halves) ELSE "tcp"
        fields == Split(halves[1], ":")
    IN  PortMapping(IF Len(fields) = 1 THEN "" ELSE fields[Len(fields) - 1], Last(fields), protocol,
             IF Len(fields) < 3 THEN "" ELSE fields[1])

\* longPort: an address only stands in the short spelling it is put into if a port does.
LongPortOf(part) ==
    Got(PortMapping(part["published"].got, part["target"].got,
                    IF part["protocol"].got = "" THEN "tcp" ELSE part["protocol"].got,
                    IF part["published"].got = "" THEN "" ELSE part["host_ip"].got),
        AllNotes(part))
LongPort(ctx, n) == LongPortOf(Texts(ctx, n, {"published", "target", "protocol", "host_ip"}))

ShortOrLong(list, Short(_), Long(_)) ==
    Each(SelectSeq(list, LAMBDA item : IsScalar(item) \/ IsMapping(item)),
         LAMBDA item : IF IsScalar(item) THEN Short(item) ELSE Long(item))

Ports(ctx, n) ==
    ShortOrLong(Items(Field(n, "ports")),
                LAMBDA item : As(Expanded(ctx, item, "ports"), ShortPort),
                LAMBDA item : LongPort(ctx, item))

\* mountTypeOf: a path is bound, a name is a volume.
MountType(source) ==
    CASE Shape(source) = "pipe" -> "npipe" [] Shape(source) = "path" -> "bind" [] OTHER -> "volume"

ShortMount(raw) ==
    LET fields == Split(raw, ":")
        source == IF Len(fields) = 1 THEN "" ELSE fields[1]
    IN  [type |-> MountType(source), source |-> source,
         target |-> IF Len(fields) = 1 THEN fields[1] ELSE fields[2],
         readOnly |-> Len(fields) > 2 /\ "ro" \in ToSet(Split(fields[3], ","))]

LongMountOf(part, only) ==
    LET said == part["type"].got
        type == CASE said \in {"bind", "volume", "tmpfs", "npipe"} -> said
                  [] said = "" -> MountType(part["source"].got)
                  [] OTHER -> "unknown"
    IN  Got([type |-> type, source |-> part["source"].got, target |-> part["target"].got,
             readOnly |-> IsScalar(only) /\ RawText(only.text) = "true"],
            AllNotes(part) \cup (IF type = "unknown" THEN {<<"not a mount type", said>>} ELSE {}))
LongMount(ctx, n) == LongMountOf(Texts(ctx, n, {"source", "target", "type"}), Field(n, "read_only"))

Mounts(ctx, n) ==
    ShortOrLong(Items(Field(n, "volumes")),
                LAMBDA item : As(Expanded(ctx, item, "volumes"), ShortMount),
                LAMBDA item : LongMount(ctx, item))

\* A function from a list of entries, of which the last of a key counts.
ByKey(list) ==
    [key \in {list[i].key : i \in DOMAIN list} |->
        list[CHOOSE i \in DOMAIN list : list[i].key = key /\ \A j \in DOMAIN list : list[j].key = key => j <= i]]

\* labels: a mapping, whose values are text or nothing; or a list of "key=value".
Pair(key, value) == [key |-> key, value |-> value]
CutPair(text) ==
    LET halves == Split(text, "=") IN Pair(halves[1], IF Len(halves) = 1 THEN "" ELSE halves[2])
Values(pairs) == LET byKey == ByKey(pairs) IN [key \in DOMAIN byKey |-> byKey[key].value]

TextOrNothing(e) == IsScalar(e.node) \/ e.node = Null
LabelEntry(ctx, e) == As(TextOf(ctx, e.node, "labels"), LAMBDA text : Pair(e.key, text))
LabelMap(ctx, entries) ==
    Saying(Each(SelectSeq(entries, TextOrNothing), LAMBDA e : LabelEntry(ctx, e)),
           {<<"expected text", "labels">> : e \in {e \in ToSet(entries) : ~TextOrNothing(e)}})
LabelsOf(ctx, v) ==
    As(IF IsMapping(v) THEN LabelMap(ctx, Entries(v)) ELSE As(Scalars(ctx, v, "labels"), LAMBDA l : ReadEach(l, CutPair)),
       Values)
Labels(ctx, n) == LabelsOf(ctx, Field(n, "labels"))

-----------------------------------------------------------------------------
(* The environment. *)

\* The value of an entry may be missing, which is not the empty one.
EnvVar(key, set, value, source) ==
    [key |-> key, set |-> set, value |-> value, source |-> source, masked |-> FALSE,
     secret |-> IF key \in SecretKeys THEN "key" ELSE IF set /\ Shape(value) = "uri" THEN "uri" ELSE ""]

FromShell(key) == EnvVar(key, FALSE, "", "shell-default")

\* What keeps a file from being read.
Trouble(entry) ==
    CASE entry.kind = "missing" -> "could not be read"
      [] entry.kind = "dir" -> "a directory"
      [] entry.kind = "file" /\ entry.fault = "large" -> "too large"
      [] entry.kind = "file" /\ entry.fault = "unreadable" -> "could not be read"
      [] OTHER -> ""

\* readEnvFile: where it may be read, it is read as it stands.
EnvLines(entry, path, required) ==
    IF entry.kind = "missing" /\ ~required THEN Got(<<>>, {})
    ELSE IF Trouble(entry) # "" THEN Got(<<>>, {<<Trouble(entry), path>>})
    ELSE Got(entry.body.lines, {})
ReadEnvFile(ctx, path, required) ==
    LET names == Split(path, "/")
        full == IF names[1] = "" THEN Tail(names) ELSE ctx.dir \o names
    IN  IF path = "" THEN Got(<<>>, {})
        ELSE IF ~Allows(ctx.disk, ctx.root, full) THEN Got(<<>>, {<<"outside the scan root", path>>})
        ELSE EnvLines(Entry(ctx.disk, full), path, required)

\* envFiles: one, or several in their order.
FromPath(ctx, path, required) == Saying(ReadEnvFile(ctx, path.got, required), path.notes)
Described(ctx, path, required) == FromPath(ctx, path, ~IsScalar(required) \/ RawText(required.text) # "false")
EnvFilesOf(ctx, v) ==
    As(ShortOrLong(IF IsScalar(v) THEN <<v>> ELSE Items(v),
                   LAMBDA item : FromPath(ctx, Expanded(ctx, item, "env_file"), TRUE),
                   LAMBDA item : Described(ctx, Text(ctx, item, "path"), Field(item, "required"))),
       FlattenSeq)
EnvFiles(ctx, n) == EnvFilesOf(ctx, Field(n, "env_file"))

\* envEntry: text, nothing, or what cannot be one.
Valued(key, e) ==
    Got(EnvVar(key, TRUE, e.text, SourceOf(e.from, "environment")), {<<what, key>> : what \in e.notes})
EnvEntry(ctx, e) ==
    IF e.node = Null THEN Got(FromShell(e.key), {})
    ELSE IF ~IsScalar(e.node) THEN Got(EnvVar(e.key, FALSE, "", "environment"), {<<"expected text", e.key>>})
    ELSE Valued(e.key, Expand(e.node.text, ctx.vars))

\* One item of the list form: cut before anything is substituted; "=" is a part of its own.
EnvItem(ctx, item) ==
    LET cut == SelectInSeq(item.text, LAMBDA p : p.raw = "=")
        key == RawText(IF cut = 0 THEN item.text ELSE SubSeq(item.text, 1, cut - 1))
    IN  IF cut = 0 THEN Got(FromShell(key), {})
        ELSE Valued(key, Expand(SubSeq(item.text, cut + 1, Len(item.text)), ctx.vars))
EnvBlock(ctx, v) ==
    IF IsMapping(v) THEN Each(Entries(v), LAMBDA e : EnvEntry(ctx, e))
    ELSE Each(SelectSeq(Items(v), IsScalar), LAMBDA item : EnvItem(ctx, item))

\* env: the files in order, and the environment block over them; sorted by key.
FileVar(line) == IF line.set THEN EnvVar(line.key, TRUE, line.value, "env-file") ELSE FromShell(line.key)
Sorted(byKey) == ReadEach(InOrder(DOMAIN byKey), LAMBDA key : byKey[key])
Over(files, block) ==
    Got(Sorted(ByKey(ReadEach(files.got, FileVar) \o block.got)), files.notes \cup block.notes)
Env(ctx, n) == Over(EnvFiles(ctx, n), EnvBlock(ctx, Field(n, "environment")))

-----------------------------------------------------------------------------
Spaced(words) == FoldLeft(LAMBDA text, word : IF text = "" THEN word ELSE text \o " " \o word, "", words)
Command(ctx, v) == IF IsScalar(v) THEN Expanded(ctx, v, "command") ELSE As(Scalars(ctx, v, "command"), Spaced)

\* service: with the container name Compose would give it, if it is given none.
ServiceFields(ctx, n, generated) ==
    [image |-> Text(ctx, n, "image"), restart |-> Text(ctx, n, "restart"), command |-> Command(ctx, Field(n, "command")),
     container |-> As(Text(ctx, n, "container_name"), LAMBDA name : IF name = "" THEN generated ELSE name),
     dependsOn |-> NameList(ctx, Field(n, "depends_on"), "depends_on"),
     networks |-> Networks(ctx, n), ports |-> Ports(ctx, n),
     expose |-> Scalars(ctx, Field(n, "expose"), "expose"), mounts |-> Mounts(ctx, n),
     env |-> Env(ctx, n), labels |-> Labels(ctx, n)]
NoFields(generated) ==
    [image |-> "", restart |-> "", command |-> "", container |-> generated, dependsOn |-> <<>>,
     networks |-> {}, ports |-> <<>>, expose |-> <<>>, mounts |-> <<>>, env |-> <<>>, labels |-> <<>>]
ServiceOf(name, fields) ==
    [f \in DOMAIN fields |-> fields[f].got] @@ [name |-> name, notes |-> AllNotes(fields)]
ComposeService(ctx, e) ==
    LET generated == ctx.project \o "-" \o e.key \o "-1"
    IN  IF IsMapping(e.node) THEN ServiceOf(e.key, ServiceFields(ctx, e.node, generated))
        ELSE NoFields(generated) @@ [name |-> e.key, notes |-> {}]

\* services: sorted by name.
InNameOrder(services) ==
    ReadEach(InOrder({services[i].name : i \in DOMAIN services}),
             LAMBDA name : services[SelectInSeq(services, LAMBDA svc : svc.name = name)])
Services(ctx, n) == InNameOrder(ReadEach(Entries(n), LAMBDA e : ComposeService(ctx, e)))

ServicesWarnings(v) ==
    IF v = Null THEN {<<"no services", "">>}
    ELSE IF ~IsMapping(v) THEN {<<"expected a mapping", "services">>}
    ELSE {<<"expected a mapping", e.key>> : e \in {e \in ToSet(Entries(v)) : ~IsMapping(e.node) /\ e.node # Null}}

Unreadable(id, what) ==
    [name |-> id, project |-> ProjectName(id), networks |-> <<>>, volumes |-> <<>>, services |-> <<>>,
     warnings |-> {<<what, "">>}]
FileOf(id, ctx, declared, networks, volumes, services) ==
    [name |-> IF declared.got # "" THEN declared.got ELSE id, project |-> ctx.project,
     networks |-> networks.got, volumes |-> volumes.got,
     services |-> Services([ctx EXCEPT !.nets = networks.got], services),
     warnings |-> declared.notes \cup networks.notes \cup volumes.notes \cup ServicesWarnings(services)]

\* projectName: what the file says, then its .env, then the directory.
Project(id, declared, vars) ==
    LET own == IF "COMPOSE_PROJECT_NAME" \in DOMAIN vars THEN vars["COMPOSE_PROJECT_NAME"] ELSE ""
    IN  ProjectName(IF declared # "" THEN declared ELSE IF own # "" THEN own ELSE id)

InProject(id, ctx, declared, doc) ==
    FileOf(id, ctx, declared, DeclaredNames(ctx, Field(doc, "networks")), DeclaredNames(ctx, Field(doc, "volumes")),
           Field(doc, "services"))
WithName(id, ctx, declared, doc) == InProject(id, [ctx EXCEPT !.project = Project(id, declared.got, ctx.vars)], declared, doc)

\* parseCompose: disk, root and dir are where the stack is, lines those of its .env.
ParseCompose(id, disk, root, dir, lines, doc) ==
    LET ctx == [project |-> ProjectName(id), vars |-> EnvMap(lines), nets |-> <<>>,
                disk |-> disk, root |-> root, dir |-> dir]
    IN  IF doc = Null THEN Unreadable(id, "empty")
        ELSE IF ~IsMapping(doc) THEN Unreadable(id, "not a mapping")
        ELSE WithName(id, ctx, Text(ctx, doc, "name"), doc)
=============================================================================
