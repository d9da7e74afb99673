------------------------------ MODULE HubClaims ------------------------------
(***************************************************************************)
(* A statement of the hub that its code does not keep.                     *)
(***************************************************************************)
EXTENDS SseHub

\* "A failed start() is not this function's business, there is nothing to stop
\* then" (realtime.ts:180): while the hub neither runs nor starts nor stops,
\* no connection is open.
FailedStartLeavesNothing ==
    hubBus = NoBus /\ ~Starting /\ stopping = NoBus =>
        \A c \in Clients : client[c].state = "gone"
===============================================================================
