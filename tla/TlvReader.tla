------------------------------ MODULE TlvReader ------------------------------
(***************************************************************************)
(* The receiving half of CSession (LogicServer and the two pool servers):  *)
(* HandleRead cuts the byte stream of the peer back into frames            *)
(*     id (2 bytes) | length (2 bytes) | body (length bytes)               *)
(* whatever the chunks async_read_some returns, and posts each one to the  *)
(* logic layer.  The Session of AsyncEchoServer2 has the same HandleRead   *)
(* for a head without an id (HEAD_ID_LEN = 0).  TlvServer and EchoSession  *)
(* build on it, and check the properties stated here.                      *)
(*                                                                         *)
(* Bytes are numbers, in network order on the wire.  One step is one pass  *)
(* of the while loop of HandleRead, by the branch it takes; the peer and   *)
(* the logic thread may run between two passes.  data is what the chunk    *)
(* still holds from copy_len on, so bytes_transferred is Len(data); head   *)
(* is what _recv_head_node holds below its _cur_len.                       *)
(***************************************************************************)
EXTENDS Integers, Sequences

CONSTANTS
  HEAD_ID_LEN,   \* bytes of the id in the head: 2, or 0 for no id
  Frames,        \* [id, len, body] records the peer may send, in any order:
                 \* what a head says, and the bytes that come after it
  MAX_LENGTH,    \* size of _data; also the largest id and length taken
  MaxFrames,     \* bound: how many frames the peer sends
  InitHeadParse  \* what the uninitialised _b_head_parse may hold at first

HEAD_DATA_LEN == 2
HEAD_TOTAL_LEN == HEAD_ID_LEN + HEAD_DATA_LEN

Byte == 0..255

SHRT_MIN == -32768
SHRT_MAX == 32767
Short == SHRT_MIN..SHRT_MAX

\* Any id and any length fit a head.  Where a body is collected, the bytes
\* that come are its bytes; after another head they are never looked at.
ConstantsOK ==  \* without an id in the head, every frame has the id 0
  /\ HEAD_ID_LEN \in {0, 2} /\ InitHeadParse \subseteq BOOLEAN
  /\ MAX_LENGTH \in Nat \ {0} /\ MAX_LENGTH <= SHRT_MAX
  /\ \A f \in Frames :
       /\ f \in [id : Short, len : Short, body : Seq(Byte)]
       /\ f.len \in 0..MAX_LENGTH => Len(f.body) = f.len
       /\ HEAD_ID_LEN = 0 => f.id = 0

VARIABLES
  wire,           \* bytes sent by the peer and not read yet
  sent,           \* history: the frames the peer sent, in order
  data,           \* the part of _data still to be parsed
  head,           \* the bytes of the head node
  _b_head_parse,  \* the head is parsed, the body is being collected
  msg,            \* _recv_msg_node, or NoMsg while the pointer is null
  posted,         \* history: the frames given to PostMsg2Que, in order
  pc              \* "reading": a read is pending; "parsing": in HandleRead;
                  \* "stopped": no read is pending any more; "crashed":
                  \* an exception, or undefined behaviour, ended HandleRead

vars == <<wire, sent, data, head, _b_head_parse, msg, posted, pc>>
peerVars == <<wire, sent>>

Min2(a, b) == IF a < b THEN a ELSE b
Take(s, n) == SubSeq(s, 1, n)
Drop(s, n) == SubSeq(s, n + 1, Len(s))

NoMsg == [id |-> SHRT_MAX + 1, len |-> 0, body |-> <<>>]

\* host_to_network_short and back: signed 16 bits, high byte first.
Encode16(n) == <<(n % 65536) \div 256, n % 256>>
Decode16(hi, lo) == LET n == 256 * hi + lo IN IF n <= SHRT_MAX THEN n ELSE n - 65536

EncodeId(f) == IF HEAD_ID_LEN = 0 THEN <<>> ELSE Encode16(f.id)

Encode(f) == EncodeId(f) \o Encode16(f.len) \o f.body

Init ==
  /\ wire = <<>> /\ sent = <<>>
  /\ data = <<>>
  /\ head = <<>>
  /\ _b_head_parse \in InitHeadParse
  /\ msg = NoMsg
  /\ posted = <<>>
  /\ pc = "reading"

-----------------------------------------------------------------------------
(* The peer and the kernel.                                                *)

PeerSend(f) ==
  /\ Len(sent) < MaxFrames
  /\ sent' = Append(sent, f)
  /\ wire' = wire \o Encode(f)
  /\ UNCHANGED <<data, head, _b_head_parse, msg, posted, pc>>

ReadSome(n) ==  \* async_read_some completes with any n bytes that fit
  /\ pc = "reading"
  /\ n \in 1..Min2(Len(wire), MAX_LENGTH)
  /\ data' = Take(wire, n)
  /\ wire' = Drop(wire, n)
  /\ pc' = "parsing"
  /\ UNCHANGED <<sent, head, _b_head_parse, msg, posted>>

ReadFails ==  \* the error branch of HandleRead: Close, ClearSession
  /\ pc = "reading"
  /\ pc' = "stopped"
  /\ UNCHANGED <<peerVars, data, head, _b_head_parse, msg, posted>>

-----------------------------------------------------------------------------
(* One pass of the loop.                                                   *)

Parsing == pc = "parsing" /\ data # <<>>

ReadOn == data' = <<>> /\ pc' = "reading"     \* async_read_some; return

\* Fault: an exhausted chunk does not start the next read.
KeepNoRead(rest) == data' = rest /\ pc' = pc

Keep(rest) ==  \* stay in the loop until the chunk is used up
  IF rest = <<>> THEN ReadOn ELSE data' = rest /\ pc' = pc

HeadIncomplete == Len(head) + Len(data) < HEAD_TOTAL_LEN

HeadShort ==
  /\ Parsing /\ ~_b_head_parse /\ HeadIncomplete
  /\ head' = head \o data
  /\ ReadOn
  /\ UNCHANGED <<peerVars, _b_head_parse, msg, posted>>

head_remain == HEAD_TOTAL_LEN - Len(head)
WholeHead == head \o Take(data, head_remain)
msg_id == IF HEAD_ID_LEN = 0 THEN 0 ELSE Decode16(WholeHead[1], WholeHead[2])
msg_len == Decode16(WholeHead[HEAD_ID_LEN + 1], WholeHead[HEAD_ID_LEN + 2])
AfterHead == Drop(data, head_remain)

HeadComplete == Parsing /\ ~_b_head_parse /\ ~HeadIncomplete

ValidHead == msg_id <= MAX_LENGTH /\ msg_len <= MAX_LENGTH

HeadInvalid ==  \* ClearSession, and no further read
  /\ HeadComplete /\ ~ValidHead
  /\ data' = AfterHead
  /\ pc' = "stopped"
  /\ UNCHANGED <<peerVars, head, _b_head_parse, msg, posted>>

\* MsgNode asks new for msg_len + 1 bytes: it throws, which ends run(), or,
\* if that is none at all, goes on to write where it has no memory.
NewBodyNegative ==
  /\ HeadComplete /\ ValidHead /\ msg_len < 0
  /\ pc' = "crashed"
  /\ UNCHANGED <<peerVars, data, head, _b_head_parse, msg, posted>>

NewBodyShort ==  \* _cur_len of the head node stays what it was
  /\ HeadComplete /\ ValidHead /\ msg_len >= 0
  /\ Len(AfterHead) < msg_len
  /\ msg' = [id |-> msg_id, len |-> msg_len, body |-> AfterHead]
  /\ _b_head_parse' = TRUE
  /\ ReadOn
  /\ UNCHANGED <<peerVars, head, posted>>

\* Fault: the head node is not cleared.
StartOverNoClear == _b_head_parse' = FALSE /\ UNCHANGED head

StartOver == _b_head_parse' = FALSE /\ head' = <<>>  \* Clear() the head node

FinishBody(node, rest) ==  \* the body is complete: post the node
  /\ msg' = node
  /\ posted' = Append(posted, node)
  /\ StartOver
  /\ Keep(rest)
  /\ UNCHANGED peerVars

NewBodyWhole ==
  /\ HeadComplete /\ ValidHead /\ msg_len >= 0
  /\ Len(AfterHead) >= msg_len
  /\ FinishBody([id |-> msg_id, len |-> msg_len, body |-> Take(AfterHead, msg_len)],
                Drop(AfterHead, msg_len))

msg_remain == msg.len - Len(msg.body)

BodyShort ==
  /\ Parsing /\ _b_head_parse /\ msg # NoMsg
  /\ Len(data) < msg_remain
  /\ msg' = [msg EXCEPT !.body = @ \o data]
  /\ ReadOn
  /\ UNCHANGED <<peerVars, head, _b_head_parse, posted>>

BodyWhole ==
  /\ Parsing /\ _b_head_parse /\ msg # NoMsg
  /\ Len(data) >= msg_remain
  /\ FinishBody([msg EXCEPT !.body = @ \o Take(data, msg_remain)], Drop(data, msg_remain))

NullBody ==  \* _recv_msg_node->_total_len through a null pointer
  /\ Parsing /\ _b_head_parse /\ msg = NoMsg
  /\ pc' = "crashed"
  /\ UNCHANGED <<peerVars, data, head, _b_head_parse, msg, posted>>

HandleRead ==
  \/ HeadShort \/ HeadInvalid \/ NewBodyNegative \/ NewBodyShort \/ NewBodyWhole
  \/ BodyShort \/ BodyWhole \/ NullBody

Read == \E n \in 1..MAX_LENGTH : ReadSome(n)

-----------------------------------------------------------------------------
BodyNode == [id : SHRT_MIN..MAX_LENGTH, len : 0..MAX_LENGTH, body : Seq(Byte)]

(* Every variable stays in its domain; only ids and lengths up to          *)
(* MAX_LENGTH, and no negative length, are let through.                    *)
TypeOK ==
  /\ wire \in Seq(Byte)
  /\ sent \in Seq(Frames)
  /\ data \in Seq(Byte)
  /\ head \in Seq(Byte)
  /\ _b_head_parse \in BOOLEAN
  /\ msg = NoMsg \/ msg \in BodyNode
  /\ posted \in Seq(BodyNode)
  /\ pc \in {"reading", "parsing", "stopped", "crashed"}

(* The copies of HandleRead stay inside the buffers it copies into: the    *)
(* head node always has room for another byte, and so does the body node   *)
(* while it is being collected.                                            *)
WithinBuffers ==
  /\ Len(head) < HEAD_TOTAL_LEN
  /\ Len(data) <= MAX_LENGTH
  /\ Len(msg.body) <= msg.len
  /\ _b_head_parse /\ msg # NoMsg => Len(msg.body) < msg.len

(* No step of the parsing leaves the state ill-formed, whatever signed     *)
(* numbers the heads of the stream hold: what is over the limit is not let *)
(* through, and what is collected fits where it is collected.  With a      *)
(* negative length, which the code does let through, no body node comes to *)
(* be: there HandleRead ends, see Reassembled.                             *)
WellFormed == TypeOK /\ WithinBuffers

(* However the stream is cut into chunks, the frames posted are the frames *)
(* sent, in order, none lost, repeated, merged or split; and when all the  *)
(* bytes have been parsed and nothing is half collected, all are posted.   *)
(* Nothing ends HandleRead early but a body without a node, or a head with *)
(* a negative length right after the last frame posted.                    *)
Reassembled ==
  /\ Len(posted) <= Len(sent)
  /\ \A i \in DOMAIN posted : posted[i] = sent[i]
  /\ pc = "reading" /\ wire = <<>> => head = <<>> /\ posted = sent
  /\ pc = "crashed" =>
       \/ _b_head_parse
       \/ Len(posted) < Len(sent) /\ sent[Len(posted) + 1].len < 0
=============================================================================
