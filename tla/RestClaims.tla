------------------------------ MODULE RestClaims ------------------------------
(***************************************************************************)
(* What a test of the repository says of the weight guard, as a property   *)
(* of RestClient.  It is refuted by a run: README.md tells the story.      *)
(***************************************************************************)
EXTENDS RestClient

\* __tests__/weight-limiter.test.ts:154: after a 429 or 418 every request is
\* held back for the time its Retry-After gave.
RetryAfterIsRespected ==
    [][\A c \in Callers : calls[c].pc = "acquiring" /\ calls'[c].pc = "sent" => banLeft = 0]_vars
===============================================================================
