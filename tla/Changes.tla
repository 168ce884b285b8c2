------------------------------ MODULE Changes ------------------------------
(***************************************************************************)
(* internal/changes: the note a scan leaves in the log: what moved in the  *)
(* files, and apart from that what moved at the far ends.                  *)
(*                                                                         *)
(* An overview is a record: the stacks by id, each with the services as    *)
(* published; the counts; the two readers' summaries; the reports of the   *)
(* connections.  A first scan is compared with nothing: <<>>.              *)
(***************************************************************************)
EXTENDS Integers, FiniteSets, FiniteSetsExt, SequencesExt

CONSTANTS
    MaxStackLines,   \* the most lines about stacks
    MaxNames         \* the most names in a line

ASSUME CapAssumption == MaxStackLines \in Nat

Quietly == [baseline |-> <<>>, config |-> <<>>, integration |-> <<>>]

\* deltas: what counts moved, by how much; one that was not known on both sides did not.
Unknown == -1
Deltas(now, was, counts) ==
    LET moved == {c \in counts : now[c] # was[c] /\ Unknown \notin {now[c], was[c]}}
    IN  [c \in moved |-> now[c] - was[c]]
HeadLine(deltas) == IF DOMAIN deltas = {} THEN <<>> ELSE <<[what |-> "counts", id |-> "", by |-> deltas]>>

\* capped: what is too long says how much of it is left out.
Capped(lines) ==
    IF Len(lines) <= MaxStackLines THEN lines
    ELSE Append(SubSeq(lines, 1, MaxStackLines),
                [what |-> "not listed", id |-> "", by |-> Len(lines) - MaxStackLines])

\* list: so many, and the first of them.
Listed(names) == [count |-> Cardinality(names), named |-> Min({Cardinality(names), MaxNames})]

-----------------------------------------------------------------------------
(* The files. *)

\* What the reads and the analysis add to a service, and to what its sidecar declares.
Concluded == {"docker", "apps", "live", "ingress", "auth", "notes", "probe"}
VerdictParts == {"drift", "unconfirmed", "agreement"}

\* A list of names to leave out: what is not named stays in.
Without(record, parts) == [p \in DOMAIN record \ parts |-> record[p]]
WithoutVerdicts(side) == Without(side, VerdictParts)
WithoutOrigins(tunnels) == [i \in DOMAIN tunnels |-> Without(tunnels[i], {"leads"})]

\* Mutant: where a tunnel's origin leads is left in.
StripAllButOrigins(svc) == [Without(svc, Concluded) EXCEPT !.sidecar = WithoutVerdicts(@)]

\* strip: what the reads and the analysis added to a service.
Strip(svc) ==
    [Without(svc, Concluded) EXCEPT !.tunnels = WithoutOrigins(@), !.sidecar = WithoutVerdicts(@)]

\* Fingerprint: two of them are equal when what is left is.
Fingerprint(stack) == [stack EXCEPT !.services = [i \in DOMAIN @ |-> Strip(@[i])]]

ServiceCount(overview, id) ==
    IF id \in DOMAIN overview.stacks THEN Len(overview.stacks[id].services) ELSE 0

\* configuration: stack by stack, those that are new, then gone, then not what they were.
Configuration(prev, next) ==
    LET before == DOMAIN prev.stacks
        after == DOMAIN next.stacks
        changed == {id \in before \cap after : Fingerprint(prev.stacks[id]) # Fingerprint(next.stacks[id])}
        lines(what, ids) ==
            LET sorted == SetToSeq(ids)
            IN  [i \in DOMAIN sorted |->
                    [what |-> what, id |-> sorted[i], by |->
                        ServiceCount(next, sorted[i]) - ServiceCount(prev, sorted[i])]]
    IN  IF before = after /\ changed = {} THEN <<>>
        ELSE HeadLine(Deltas(next.stats, prev.stats, {"stacks", "services"}))
             \o Capped(lines("added", after \ before) \o lines("removed", before \ after) \o lines("changed", changed))

-----------------------------------------------------------------------------
(* The far ends. *)

\* identity and proxy: the counts that moved, and the records that came and went by name.
Moved(was, now, counts) ==
    LET line(what, names) == IF names = {} THEN <<>> ELSE << <<what, Listed(names)>> >>
    IN  HeadLine(Deltas(now, was, counts))
        \o line("gained", now.names \ was.names) \o line("lost", was.names \ now.names)

IdentityCounts == {"applications", "configured", "withheld", "recovered", "providers", "outposts", "matched"}
ProxyCounts == {"routers", "middlewares", "services", "matched"}

\* reach: two scans that were both answered are compared; else it started, stopped or neither.
Reader(prev, next, which, counts) ==
    LET was == prev # <<>> /\ prev[1][which].reachable
        now == next[which].reachable
    IN  CASE ~was /\ ~now -> <<>>
          [] ~was /\ now  -> << <<"started">> >>
          [] was /\ ~now  -> << <<"stopped">> >>
          [] OTHER        -> Moved(prev[1][which], next[which], counts)

\* connections: a report that is not the same as that of the same target before.
Same(a, b) == a.target = b.target /\ a.phase = b.phase /\ a.endpoint = b.endpoint
Connections(prev, next) ==
    IF prev = <<>> THEN <<>>
    ELSE SelectSeq(next.connections, LAMBDA now :
            \E was \in ToSet(prev[1].connections) : was.target = now.target /\ ~Same(was, now))

Integration(prev, next) ==
    Reader(prev, next, "identity", IdentityCounts) \o Reader(prev, next, "proxy", ProxyCounts)
    \o Connections(prev, next)

-----------------------------------------------------------------------------
\* Describe: a first scan states what it found, a later one what moved.
Describe(prev, next) ==
    IF prev = <<>>
      THEN [Quietly EXCEPT !.baseline = <<next.stats.stacks, next.stats.services>>,
                           !.integration = Integration(prev, next)]
      ELSE [Quietly EXCEPT !.config = Configuration(prev[1], next), !.integration = Integration(prev, next)]

Quiet(note) == note.baseline = <<>> /\ note.config = <<>> /\ note.integration = <<>>

\* Lines: where only the far ends moved, that the files did not is said too.
Lines(note) ==
    IF note.baseline # <<>> THEN <<note.baseline>> \o note.integration
    ELSE IF Quiet(note) THEN <<>>
    ELSE (IF note.config = <<>> THEN <<"no config changes">> ELSE note.config) \o note.integration
=============================================================================
