-------------------------- MODULE MCConversationStore --------------------------
(* The store alone, driven by callers that pass any argument in any order. *)
EXTENDS ConversationStore, TLC

Symmetry == Permutations(Owners) \cup Permutations(Conversations)
              \cup Permutations(Turns) \cup Permutations(ConfirmationIDs)

===============================================================================
