----------------------------- MODULE HelloMessage -----------------------------
(***************************************************************************)
(* The classes generated from demo.proto, HelloRequest and HelloReply,     *)
(* which differ in their names only:  string message = 1;                  *)
(* A message of either class is its text.  Wire holds what protobuf does   *)
(* for all classes.                                                        *)
(***************************************************************************)
EXTENDS Naturals, Sequences

Wire == INSTANCE MsgData

MessageTag == 10     \* field 1, length-delimited

Clear == <<>>

_InternalSerialize(message) ==
  IF message = <<>> THEN <<>>
  ELSE <<MessageTag>> \o Wire!Varint[Len(message)] \o message

\* Fault: the length is counted with one byte, whatever it is.
ByteSizeShortLen(message) == IF message = <<>> THEN 0 ELSE 2 + Len(message)

ByteSizeLong(message) ==
  IF message = <<>> THEN 0 ELSE 1 + Len(Wire!Varint[Len(message)]) + Len(message)

SerializeToString(message) == SubSeq(_InternalSerialize(message), 1, ByteSizeLong(message))

\* The field is there once or not at all; what is cut short or no text fails.
ParseFromString(s) ==
  IF s = <<>> THEN [ok |-> TRUE, message |-> Clear]
  ELSE
    LET body == Tail(s)
        n == Wire!VarintLen(body)
        text == Wire!Rest(body, n)
    IN [ok |-> s[1] = MessageTag /\ n > 0 /\ Wire!VarintValue[SubSeq(body, 1, n)] = Len(text)
               /\ Wire!IsText(text),
        message |-> text]
=============================================================================
