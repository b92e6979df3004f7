------------------------ MODULE MCChatCompletionsStream ------------------------
(* The Chat Completions adapter, fed with any pieces of two calls. *)
EXTENDS ChatCompletionsStream, TLC

Symmetry == Permutations(CallIDs) \cup Permutations(Fragments)

===============================================================================
