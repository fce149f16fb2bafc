------------------------------- MODULE MsgData -------------------------------
(***************************************************************************)
(* MsgData of msg.proto, the payload of AsyncEchoServer2 and its client,   *)
(* as the generated class puts it into bytes and takes it out again:       *)
(*     int32 id = 1;  string data = 2;                                     *)
(* A field that holds its default is not on the wire.  Ids are             *)
(* non-negative, texts are ASCII; the byte 255, which is in no UTF-8 text, *)
(* stands for what is not text.  Fields of other numbers, which no client  *)
(* of the repository sends, are left out.                                  *)
(***************************************************************************)
EXTENDS Integers, Sequences

Bytes == Seq(0..255)
AnyMsgData == [id : Nat, data : Bytes]

IdTag == 8       \* field 1, varint
DataTag == 18    \* field 2, length-delimited

\* As constructed.
MsgData == [id |-> 0, data |-> <<>>]

Set(id, data) == [id |-> id, data |-> data]

Clear(m) == MsgData

\* Seven bits a byte, the lowest first, the high bit on all but the last.
Varint[n \in Nat] ==
  IF n < 128 THEN <<n>> ELSE <<128 + (n % 128)>> \o Varint[n \div 128]

_InternalSerialize(m) ==
  (IF m.id # 0 THEN <<IdTag>> \o Varint[m.id] ELSE <<>>)
  \o (IF m.data # <<>> THEN <<DataTag>> \o Varint[Len(m.data)] \o m.data ELSE <<>>)

\* Fault: the id is counted with one byte, whatever its value.
ByteSizeShortId(m) ==
  (IF m.data # <<>> THEN 1 + Len(Varint[Len(m.data)]) + Len(m.data) ELSE 0)
  + (IF m.id # 0 THEN 2 ELSE 0)

ByteSizeLong(m) ==
  (IF m.data # <<>> THEN 1 + Len(Varint[Len(m.data)]) + Len(m.data) ELSE 0)
  + (IF m.id # 0 THEN 1 + Len(Varint[m.id]) ELSE 0)

SerializeToString(m) ==  \* the string is given its size first, then filled
  SubSeq(_InternalSerialize(m), 1, ByteSizeLong(m))

-----------------------------------------------------------------------------
(* Parsing.  s is what is left of the bytes, m what has been set so far.   *)

\* The varint at the start of s: how many bytes it takes, 0 for none; ten at most.
VarintLen(s) ==
  LET ends == {k \in 1..10 \cap DOMAIN s : s[k] < 128 /\ \A j \in 1..(k - 1) : s[j] >= 128}
  IN IF ends = {} THEN 0 ELSE CHOOSE k \in ends : TRUE

VarintValue[s \in Bytes] ==
  IF s[1] < 128 THEN s[1] ELSE s[1] - 128 + 128 * VarintValue[Tail(s)]

Rest(s, n) == SubSeq(s, n + 1, Len(s))
IsText(data) == \A i \in DOMAIN data : data[i] # 255

Stop(ok, m) == [ok |-> ok, msg |-> m]

Fields[s \in Bytes, m \in AnyMsgData] ==
  IF s = <<>> THEN Stop(TRUE, m)
  ELSE
    LET body == Tail(s)
        n == VarintLen(body)
        value == VarintValue[SubSeq(body, 1, n)]
        data == SubSeq(body, n + 1, n + value)
    IN CASE n = 0 -> Stop(FALSE, m)
         [] n > 0 /\ s[1] = IdTag -> Fields[Rest(body, n), [m EXCEPT !.id = value]]
         [] n > 0 /\ s[1] = DataTag /\ n + value <= Len(body) ->
              IF IsText(data)
              THEN Fields[Rest(body, n + value), [m EXCEPT !.data = data]]
              ELSE Stop(FALSE, [m EXCEPT !.data = data])
         [] OTHER -> Stop(FALSE, m)

ParseFromString(m, s) == Fields[s, Clear(m)]   \* a failure keeps what was set
=============================================================================
