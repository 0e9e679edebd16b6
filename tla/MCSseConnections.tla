-------------------------- MODULE MCSseConnections --------------------------
(* SseConnections on a small instance: two calls share an id, so that an     *)
(* older connection can be cleaned up under a newer one.                     *)
EXTENDS SseConnections

CONSTANTS c1, c2, c3, i1, i2

MCIdOf == [c \in Calls |-> IF c = c3 THEN i2 ELSE i1]
=============================================================================
