---------------------------- MODULE MCLocalAgent ----------------------------
(* LocalAgent on a small instance: one turn, which begins in Plan Mode.      *)
EXTENDS LocalAgent

CONSTANTS t1
=============================================================================
