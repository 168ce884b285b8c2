----------------------------- MODULE MCThrottle -----------------------------
(* Small instances of Throttle for TLC. *)
EXTENDS Throttle, TLC

\* Two spellings of one name share a key; every name outside the pattern has one key.
Folded == [u \in {"ada", "Ada", "eve"} |-> IF u = "eve" THEN "eve" ELSE "ada"]
Spelled == DOMAIN Folded

Goroutines == Permutations(Handlers)
=============================================================================
