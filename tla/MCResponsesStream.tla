---------------------------- MODULE MCResponsesStream --------------------------
(* The Responses adapter, fed with any events of a small alphabet. *)
EXTENDS ResponsesStream

===============================================================================
