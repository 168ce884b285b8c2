-------------------------------- MODULE Files --------------------------------
(***************************************************************************)
(* internal/scan/contain.go, with the file system it stands on: where a    *)
(* path leads, and whether a file that another file names may be read.     *)
(*                                                                         *)
(* A path is the sequence of its names from the top.  A disk is a function *)
(* from the paths of what it holds to entries: a directory, a file with a  *)
(* body, or a link that names a path, from the top or from where it is.    *)
(* A place that may be none is a sequence of at most one path.             *)
(***************************************************************************)
EXTENDS Integers, FiniteSets, SequencesExt

CONSTANTS MaxLinks   \* the links a resolution follows before it gives up

Parent(path) == IF path = <<>> THEN <<>> ELSE Front(path)

\* filepath.Clean: ".." goes up, and not above the top.
Clean(path) == FoldLeft(LAMBDA done, name : IF name = ".." THEN Parent(done) ELSE Append(done, name), <<>>, path)

RECURSIVE Follow(_, _, _, _)
Follow(disk, done, rest, links) ==
    LET here == Clean(Append(done, Head(rest)))
        entry == disk[here]
    IN  IF rest = <<>> THEN <<done>>
        ELSE IF here = <<>> THEN Follow(disk, here, Tail(rest), links)
        ELSE IF here \notin DOMAIN disk THEN <<>>
        ELSE IF entry.kind # "link" THEN Follow(disk, here, Tail(rest), links)
        ELSE IF links = 0 THEN <<>>
        ELSE Follow(disk, IF entry.absolute THEN <<>> ELSE done, entry.to \o Tail(rest), links - 1)

\* filepath.EvalSymlinks: where a path leads, if all of it is there.
Real(disk, path) == Follow(disk, <<>>, path, MaxLinks)

\* os.Stat and os.ReadFile: what is found there, links followed.
NoEntry == [kind |-> "missing"]
Entry(disk, path) ==
    LET place == Real(disk, path) IN IF place = <<>> THEN NoEntry ELSE disk[place[1]]

\* os.ReadDir: the names in a directory.
Listing(disk, dir) ==
    {Last(path) : path \in {path \in DOMAIN disk : path # <<>> /\ <<Front(path)>> = Real(disk, dir)}}

-----------------------------------------------------------------------------
\* NewRoot: the root as it is spelled and as it resolves.
NewRoot(disk, path) == {Clean(path)} \cup ToSet(Real(disk, Clean(path)))

\* With: a stack's directory as it resolves is another place to read from.
With(disk, root, dir) == root \cup ToSet(Real(disk, Clean(dir)))

\* within: below one of the forms, name by name.
Within(root, path) == \E form \in root : IsPrefix(form, path)

\* pointsAt: where a path that does not resolve would be.
PointsAt(disk, path, parent) ==
    LET entry == disk[Append(parent, Last(path))]
        target == Clean(IF entry.absolute THEN entry.to ELSE parent \o entry.to)
    IN  IF Append(parent, Last(path)) \notin DOMAIN disk \/ entry.kind # "link" THEN Append(parent, Last(path))
        ELSE IF Real(disk, target) # <<>> THEN Real(disk, target)[1]
        ELSE IF Real(disk, Parent(target)) # <<>> THEN Append(Real(disk, Parent(target))[1], Last(target))
        ELSE target

\* Allows: by its spelling, and by where it leads as far as it is there.
Allows(disk, root, path) ==
    LET clean == Clean(path)
        place == Real(disk, clean)
        parent == Real(disk, Parent(clean))
    IN  /\ Within(root, clean)
        /\ IF place # <<>> THEN Within(root, place[1])
           ELSE parent # <<>> /\ Within(root, PointsAt(disk, clean, parent[1]))
=============================================================================
