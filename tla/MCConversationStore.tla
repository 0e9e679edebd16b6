------------------------ MODULE MCConversationStore ------------------------
(* ConversationStore on a small instance; attachments are interchangeable.   *)
EXTENDS ConversationStore, TLC

CONSTANTS A, B, x, y

Symmetry == Permutations(Ids) \cup Permutations(Attachments)
=============================================================================
