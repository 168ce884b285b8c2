-------------------------------- MODULE Scan --------------------------------
(***************************************************************************)
(* internal/scan, the walk: every directory below the root that holds a    *)
(* compose file is a stack, whatever is wrong with what it holds.          *)
(***************************************************************************)
EXTENDS Sidecars, Declarations

CONSTANTS
    Root,           \* the configured root
    ComposeNames    \* the configured filenames, in order

\* readStackEnv: the lines of a stack's .env, or why there are none.
StackEnv(disk, dir) ==
    LET entry == Entry(disk, Append(dir, ".env"))
    IN  IF ".env" \notin Listing(disk, dir) THEN Got(<<>>, {})
        ELSE IF entry.kind = "dir" THEN Got(<<>>, {<<"could not be read", ".env">>})
        ELSE EnvLines(entry, ".env", TRUE)

\* attachDeclarations: each service with its block of the sidecar, if there is one.
WithDeclarations(services, sidecar) ==
    [i \in DOMAIN services |->
        services[i] @@ [sidecar |-> IF services[i].name \in DOMAIN sidecar.services
                                      THEN sidecar.services[services[i].name] ELSE NoDeclaration]]

\* scanStack: the sidecar is only read when the compose file could be.
BrokenStack(id, notes) == [Unreadable(id, "") EXCEPT !.warnings = notes] @@ [id |-> id, declared |-> <<>>]
StackOf(id, env, parsed, sidecar) ==
    [parsed EXCEPT !.warnings = env.notes \cup @ \cup sidecar.warnings, !.services = WithDeclarations(@, sidecar)]
    @@ [id |-> id, declared |-> sidecar.stack]
WithSidecar(id, disk, root, env, parsed) ==
    StackOf(id, env, parsed,
            ReadSidecar(disk, root, Append(Root, id), {parsed.services[i].name : i \in DOMAIN parsed.services}))
FromFile(id, disk, root, env, file, name) ==
    IF file.kind # "file" \/ file.fault = "unreadable"
      THEN BrokenStack(id, env.notes \cup {<<"could not be read", name>>})
    ELSE IF file.body.doc = <<>> THEN BrokenStack(id, env.notes \cup {<<"could not be parsed", name>>})
    ELSE WithSidecar(id, disk, root, env,
                     ParseCompose(id, disk, root, Append(Root, id), env.got, file.body.doc[1]))
ScanStack(disk, root, id) ==
    LET dir == Append(Root, id)
        names == Listing(disk, dir)
        candidates == SelectSeq(ComposeNames, LAMBDA name : name \in names)
    IN  IF candidates = <<>> THEN <<>>
        ELSE <<FromFile(id, disk, With(disk, root, dir), StackEnv(disk, dir),
                        Entry(disk, Append(dir, candidates[1])), candidates[1])>>

\* isDir: a link to a directory is one.
Directories(disk) ==
    InOrder({id \in Listing(disk, Root) : Entry(disk, Append(Root, id)).kind = "dir"})

Readable(disk, dir) == Entry(disk, dir).kind = "dir" /\ Entry(disk, dir).fault = ""

\* Run: the stacks by id, and what is wrong with the root or a directory.
Walk(disk, root, found, readable) ==
    [stacks |-> FlattenSeq(ReadEach(readable, LAMBDA id : ScanStack(disk, root, id))),
     warnings |-> {<<"could not be read", id>> : id \in ToSet(found) \ ToSet(readable)}]
ReadRoot(disk, found) ==
    Walk(disk, NewRoot(disk, Root), found, SelectSeq(found, LAMBDA id : Readable(disk, Append(Root, id))))
ScanRun(disk) ==
    IF Readable(disk, Root) THEN ReadRoot(disk, Directories(disk))
    ELSE [stacks |-> <<>>, warnings |-> {<<"could not be read", "root">>}]
=============================================================================
