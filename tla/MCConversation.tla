--------------------------- MODULE MCConversation ---------------------------
(* Model values, symmetry and bounds for TLC's runs of Conversation. *)
EXTENDS Conversation, TLC

Symmetry == Permutations(Runs)
=============================================================================
