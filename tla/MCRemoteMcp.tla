---------------------------- MODULE MCRemoteMcp ----------------------------
(* RemoteMcp on a small instance: a server of this machine without          *)
(* credentials, and one of the network with them.                           *)
EXTENDS RemoteMcp, TLC

CONSTANTS t1, t2, r1, r2, plain, secret, here, there

Symmetry == Permutations(Tests)

MCOriginOf == (plain :> here) @@ (secret :> there)
=============================================================================
