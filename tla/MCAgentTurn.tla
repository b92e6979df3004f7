------------------------------ MODULE MCAgentTurn ------------------------------
(* One turn of the agent, with a small model and a small catalog. *)
EXTENDS AgentTurn, TLC

Symmetry == Permutations(Tools) \cup Permutations(CallIDs)

===============================================================================
