------------------------- MODULE MCConversationMessages -------------------------
(* Arguments of every kind: compact, with white space, and with bytes that   *)
(* encoding escapes, within the limit of a call and beyond it.               *)
EXTENDS ConversationMessages

Bytes(blank, plain, special) == [blank |-> blank, plain |-> plain, special |-> special]

Compact == Bytes(0, 1, 0)
Spaced == Bytes(1, 1, 0)
Escaped == Bytes(0, 1, 1)
Outgrown == Bytes(0, 1, 2)

Call(id, arguments) == [id |-> id, arguments |-> arguments]
Request(text, calls) == [text |-> text, calls |-> calls]

SomeRequests ==
    {Request(5, <<Call(1, Compact)>>),
     Request(8, <<Call(1, Spaced), Call(2, Escaped)>>),
     Request(0, <<Call(3, Outgrown)>>),
     Request(0, <<Call(1, Compact), Call(1, Compact)>>)}

===============================================================================
