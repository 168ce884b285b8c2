----------------------------- MODULE Attribution -----------------------------
(***************************************************************************)
(* A scan of a disk (module Scan) and what is concluded of it (module      *)
(* Assembly): which file a value of the fleet is said to come from.        *)
(***************************************************************************)
EXTENDS Assembly, Scan

\* The entries of one service's environment, by what supplied them.
FromSource(svc, sources) == {e \in ToSet(svc.env) : e.source \in sources}
FromFiles(svc) == [svc EXCEPT !.docker = NoDocker, !.live = <<>>, !.tunnels = <<>>, !.routers = <<>>, !.notes = {}]
ButForFiles(svc) == [FromFiles(svc) EXCEPT !.env = SelectSeq(@, LAMBDA e : e.set /\ e.source # "env-file")]

IsDotEnv(path) == path # <<>> /\ Last(path) = ".env"
SameButForDotEnvs(was, now) ==
    /\ DOMAIN was = DOMAIN now
    /\ \A path \in DOMAIN was : was[path] # now[path] => IsDotEnv(path)

\* What a value is attributed to is what can change it: between two scans of which only the .env
\* files of stacks were edited, a value the compose file is credited with is the same in both, and a
\* service whose own stack's .env is as it was differs in no value but those credited
\* to a file (interp.go:174-206 decides by what supplied a part, compose.go:606-697 by who wrote last).
AttributionIsTrue ==
    before # <<>> /\ stage = "routes" /\ SameButForDotEnvs(before[1].world.disk, world.disk) =>
        LET was == before[1].fleet
            env(disk, s) == Entry(disk, Root \o <<fleet.stacks[s].id, ".env">>)
        IN  /\ Ids(was) = Ids(fleet)
            /\ \A k \in Keys(fleet) \cap Keys(was) :
                    LET then == Service(was, k)
                        now == Service(fleet, k)
                    IN  /\ then.name = now.name
                        /\ FromSource(then, {"environment"}) = FromSource(now, {"environment"})
                        /\ env(before[1].world.disk, now.stack) = env(world.disk, now.stack) =>
                                ButForFiles(then) = ButForFiles(now)
=============================================================================
