----------------------------- MODULE MCScanLog -----------------------------
(* Small instances of ScanLog for TLC. *)
EXTENDS ScanLog, TLC

\* What the two routes and Warm pass when nobody names an override.
PlainAsks == [forced : BOOLEAN, probe : {Unset}]

\* The requests are interchangeable.
Callers == Permutations(Requests)
=============================================================================
