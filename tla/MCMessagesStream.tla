---------------------------- MODULE MCMessagesStream ---------------------------
(* The Messages adapter, fed with any events of a small alphabet. *)
EXTENDS MessagesStream, TLC

Symmetry == Permutations(CallIDs)

===============================================================================
