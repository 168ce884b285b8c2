------------------------------ MODULE MCFanout ------------------------------
EXTENDS Fanout

MCActors == {Main} \cup {Inspector(w) : w \in 1..2} \cup Readers \cup {Asker(s) : s \in Subjects}
MCClients == {"docker", "authentik", "traefik", "probe"}
\* The second container shares a key with the first, as two runs of one compose service do.
MCKeysOf == <<{"a", "shared"}, {"b", "shared"}>>
MCMaxConcurrency == [c \in MCClients |-> IF c = "docker" THEN 2 ELSE IF c = "probe" THEN 1 ELSE -1]
MCErrors == {{"refused", "dial"}}

\* What the Engine is asked and whom the probe asks meet only at the join: a start has one of
\* the two in full, with the readers around it.
MCInit == /\ Init
          /\ (socket = "present") = (\A s \in Subjects : kind[s] = "no address")
          /\ (socket # "present") => \A r \in Readers : r[1] = "proxy" => mode[r] = "off"
MCSpec == MCInit /\ [][Next]_vars /\ Fairness
=============================================================================
