------------------------------ MODULE MCAskStream ------------------------------
(* One request, up to the end of its stream. *)
EXTENDS AskStream, TLC

\* Two tools are told apart, and nothing more is asked of them.
Symmetry == Permutations(Tools)

===============================================================================
