---------------------------- MODULE MCSseBridge ----------------------------
(* SseBridge on a small instance.                                           *)
EXTENDS SseBridge

CONSTANT r1
=============================================================================
