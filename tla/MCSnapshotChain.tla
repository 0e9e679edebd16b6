--------------------------- MODULE MCSnapshotChain ---------------------------
(* SnapshotChain on a small instance.                                        *)
EXTENDS SnapshotChain

CONSTANT p
=============================================================================
