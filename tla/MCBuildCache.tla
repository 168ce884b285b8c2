---------------------------- MODULE MCBuildCache ----------------------------
(* Small instances of BuildCache for TLC. *)
EXTENDS BuildCache, TLC

\* GET /api/overview and Warm, POST /api/rescan, and the unforced call that names
\* an override, which only the package's own tests make.
EveryAsk == [forced : BOOLEAN, probe : Override]

\* What the two routes and Warm pass when nobody names an override.
PlainAsks == [forced : BOOLEAN, probe : {Unset}]

\* The requests that stay are interchangeable.
Stayers == Permutations(Requests \ Leavers)
=============================================================================
