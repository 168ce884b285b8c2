------------------------------- MODULE Phases -------------------------------
(***************************************************************************)
(* internal/conn: the phase an outbound read ended in, and the one         *)
(* classification that every reader takes it from.  An error is the set of *)
(* the things the standard library's types say about it, a status its      *)
(* number, a body what the JSON reader makes of it.                        *)
(***************************************************************************)
EXTENDS Integers, Precedence

\* payload.ConnectionPhases, the closed set, in the order of a read's progress.
BeforeTheNetwork == {"disabled", "not-configured"}
NetworkPhases == {"not-found", "credential", "resolve", "connect", "tls", "timeout"}
AnswerPhases == {"authenticate", "authorize", "path", "status", "protocol", "partial",
                 "connected"}
ConnectionPhases == BeforeTheNetwork \cup NetworkPhases \cup AnswerPhases

\* What errors.Is and errors.As can find in an error, several at once: a failed look-up is
\* also a failed dial, a failed handshake often also a teardown.
Traits == {"canceled", "deadline", "dns", "missing", "forbidden", "refused", "tls",
           "teardown", "dial"}

\* OK: a partial read counts as one that worked.
OK(phase) == phase \in {"connected", "partial"}

\* FromError: the phase of an error. Only a teardown, and an error nothing recognises, look
\* at the clock; canceled is none of the things it knows.
FromError(error, elapsed, budget) ==
    LET outOfTime == budget > 0 /\ elapsed >= budget
    IN  FirstHolding(<<
            <<"deadline" \in error,                          "timeout">>,
            <<"dns" \in error,                               "resolve">>,
            <<"missing" \in error,                           "not-found">>,
            <<"forbidden" \in error,                         "authorize">>,
            <<"refused" \in error,                           "connect">>,
            <<"tls" \in error,                               "tls">>,
            <<"dial" \in error /\ "teardown" \notin error,   "connect">>,
            <<outOfTime,                                     "timeout">>,
            <<TRUE,                                          "connect">> >>)

\* FromStatus: the phase of a status.
FromStatus(status) ==
    FirstHolding(<<
        <<status \in 200..299,    "connected">>,
        <<status \in {401, 407},  "authenticate">>,
        <<status = 403,           "authorize">>,
        <<status \in {404, 405},  "path">>,
        <<TRUE,                   "status">> >>)

\* ReadJSON: a body that is not the JSON asked for is somebody else answering.
ReadJSON(body) == IF body = "json" THEN "connected" ELSE "protocol"
=============================================================================
