------------------------------- MODULE MCGate -------------------------------
(* Small instances of Gate for TLC. *)
EXTENDS Gate, TLC

\* Two calls of Current per request, and one of another handler.
Hooks == (Requests \X {"headers", "guard"}) \cup {<<"login", "handler">>}

\* A dashboard that polls without a session, one that has one, and a POST to /api/rescan
\* from another site's page.
Clients == [gated : {TRUE}, crossPost : {FALSE}, signedIn : BOOLEAN]
             \cup [gated : {TRUE}, crossPost : {TRUE}, signedIn : {TRUE}]
=============================================================================
