-------------------------------- MODULE Gate --------------------------------
(***************************************************************************)
(* internal/access: the two hooks around every request.  Headers asks for  *)
(* the posture to decide on Cache-Control, Guard asks for it again to      *)
(* decide whether the request goes through.                                *)
(***************************************************************************)
EXTENDS Postures

CONSTANTS
    Requests,   \* the HTTP requests the model makes
    Kinds       \* what of a request Guard looks at

ASSUME GateAssumption ==
    /\ Requests \X {"headers", "guard"} \subseteq Callers
    /\ Kinds \subseteq [gated : BOOLEAN, crossPost : BOOLEAN, signedIn : BOOLEAN]

VARIABLE request   \* per request, how far it is and what it was answered

gateVars == <<vars, request>>

Headers(r) == <<r, "headers">>
Guard(r) == <<r, "guard">>

\* The handlers behind the hooks that ask for a posture of their own: POST /api/login,
\* GET /api/session and the handshake.
Others == Callers \ (Requests \X {"headers", "guard"})

GateInit ==
    /\ Init
    /\ request \in [Requests -> [kind : Kinds, noStore : {FALSE}, status : {0}]]

\* Headers: asks for the posture on an API path, and sets no-store when it enforces.
SetHeaders(r) ==
    /\ caller[Headers(r)].pc = "answered"
    /\ caller[Guard(r)].pc = "idle"
    /\ request' = [request EXCEPT ![r].noStore = Enforced(caller[Headers(r)].posture)]
    /\ Arrive(Guard(r))

\* Mutant: a session that was refused is let through as nobody's.
AnyoneDecides(k, p) == IF Enforced(p) /\ k.crossPost THEN 403 ELSE 200

\* Guard: open unless enforced, then the origin of a POST, then the session, which only
\* the API outside the allowlist needs.
Decision(k, p) ==
    IF ~Enforced(p) THEN 200
    ELSE IF k.crossPost THEN 403
    ELSE IF k.gated /\ ~k.signedIn THEN 401
    ELSE 200

Decide(r) ==
    /\ caller[Guard(r)].pc = "answered"
    /\ request[r].status = 0
    /\ request' = [request EXCEPT ![r].status =
                      Decision(request[r].kind, caller[Guard(r)].posture)]
    /\ UNCHANGED vars

\* The model has made every request it is going to make and they have been answered.
AllServed ==
    /\ now = MaxTime
    /\ \A c \in Callers : caller[c].pc = "answered"
    /\ \A r \in Requests : request[r].status # 0
    /\ UNCHANGED gateVars

GateNext ==
    \/ Environment /\ UNCHANGED request
    \/ \E c \in Callers : CallStep(c) /\ UNCHANGED request
    \/ \E r \in Requests : Arrive(Headers(r)) /\ UNCHANGED request
    \/ \E c \in Others : Arrive(c) /\ UNCHANGED request
    \/ \E r \in Requests : SetHeaders(r) \/ Decide(r)
    \/ AllServed

GateSpec == GateInit /\ [][GateNext]_gateVars

-----------------------------------------------------------------------------
\* Fleet data goes to somebody who is not signed in, and a POST from another origin to its
\* handler, only if there was a moment, less than PostureTTL before the request reached
\* Guard or later, when the file called for no sign-in method at all.
DataIsGated ==
    \A r \in Requests :
        LET k == request[r].kind
        IN  request[r].status = 200 /\ (k.crossPost \/ (k.gated /\ ~k.signedIn)) =>
                \E p \in CalledForSince(caller[Guard(r)].arrived) : ~Enforced(p)

=============================================================================
