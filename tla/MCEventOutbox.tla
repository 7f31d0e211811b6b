---------------------------- MODULE MCEventOutbox ----------------------------
(* A small instance of EventOutbox for TLC: the service's loop and, beside   *)
(* it, a request that processes the outbox too.                             *)
EXTENDS EventOutbox, TLC

CONSTANTS e1, e2, r1, worker, request

\* The second occurrence is newer than the first.
OneByOne == [e \in Occurrences |-> IF e = e1 THEN 1 ELSE 2]
=============================================================================
