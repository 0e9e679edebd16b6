-------------------------- MODULE MCMcpConnections --------------------------
(* McpConnections on a small instance.                                       *)
EXTENDS McpConnections, TLC

CONSTANTS s1, t1, t2, c1, k1, k2, d1, d2

\* A server of one configuration.
MCOneServer == [k \in Configs |-> Definitions]

\* A configuration that is edited into another one.
MCOffers == [k \in Configs |-> IF k = k1 THEN {d1} ELSE {d2}]

\* Servers that were approved and enabled, or added but never approved.
MCPersisted ==
  [config : {k1}, enabled : {TRUE}, approved : Definitions, updatedAt : {0}]
    \cup [config : {k1}, enabled : {FALSE}, approved : {None}, updatedAt : {0}]

Symmetry == Permutations(Tests)
=============================================================================
