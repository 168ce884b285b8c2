------------------------------ MODULE Secrets ------------------------------
(***************************************************************************)
(* internal/secrets and the pipeline's mask: what of an environment value  *)
(* is published.  An entry says whether its key is a secret one, or its    *)
(* value an address with a password in it.                                 *)
(***************************************************************************)
EXTENDS Precedence

Mask == "********"
MaskValue(value) == IF value = "" THEN "" ELSE Mask

\* RedactURIs: the user and the host stay; of two addresses that differ in the password, nothing.
RedactURIs(value) == "://user:********@host"

\* mask: once nothing reads the values any more.
Masked(e) ==
    FirstHolding(<<
        <<e.secret = "key", [e EXCEPT !.masked = TRUE, !.value = MaskValue(@)]>>,
        <<e.secret = "uri", [e EXCEPT !.masked = TRUE, !.value = RedactURIs(@)]>>,
        <<TRUE,             e>> >>)
=============================================================================
