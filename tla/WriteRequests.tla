--------------------------- MODULE WriteRequests ---------------------------
(***************************************************************************)
(* What the services that append to a Session's log share: they look at    *)
(* rows before their transaction, and answer a repeated key with what is   *)
(* stored.                                                                 *)
(***************************************************************************)

CONSTANTS
    Null,        \* no row, no key, nobody
    Keys,        \* idempotency keys, as clients choose them
    Requests     \* places for requests at work in the server
=============================================================================
