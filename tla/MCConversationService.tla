------------------------- MODULE MCConversationService -------------------------
(* The service on a small instance. *)
EXTENDS ConversationService, TLC

Symmetry == Permutations(Handlers) \cup Permutations(Turns)
              \cup Permutations(ConfirmationIDs)

===============================================================================
