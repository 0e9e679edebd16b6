--------------------------- MODULE MCGenerationRun ---------------------------
(* GenerationRun on small instances.  Runs, conversations and settings are   *)
(* model values and nothing but equality is asked of them.                   *)
EXTENDS GenerationRun, TLC

Symmetry == Permutations(Runs) \cup Permutations(Conversations)
              \cup Permutations(Configs)
=============================================================================
