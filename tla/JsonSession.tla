----------------------------- MODULE JsonSession -----------------------------
(***************************************************************************)
(* A session of JsonServer.  It reads with asio::async_read, which         *)
(* completes when the whole buffer is filled: HandleReadHead and           *)
(* HandleReadMsg alternate, and each answer goes to the queue of           *)
(* SendQueue.  (The HandleRead of the other servers is still there, but    *)
(* nothing starts it.)                                                     *)
(*                                                                         *)
(* The server has one thread, so a handler is one step; HandleReadMsg      *)
(* sleeps for two seconds in it, during which nothing else is handled.     *)
(* Bytes are numbers; the k-th frame and its answer are the number k on    *)
(* the sending side.                                                       *)
(***************************************************************************)
EXTENDS Integers, Sequences

CONSTANTS
  Frames,     \* [len, body] records the client may send, in any order:
              \* what a head says, and the bytes that come after it
  MAX_LENGTH,
  MaxFrames,  \* bound: how many frames the client sends
  MAX_QUESIZE, Partial

HEAD_LENGTH == 2
Byte == 0..255

SHRT_MIN == -32768
SHRT_MAX == 32767
Short == SHRT_MIN..SHRT_MAX

\* Where a body is read, the bytes that come are its bytes.
ConstantsOK ==
  /\ \A f \in Frames :
       /\ f \in [len : Short, body : Seq(Byte)]
       /\ f.len \in 0..MAX_LENGTH => Len(f.body) = f.len
  /\ MAX_LENGTH \in Nat \ {0} /\ MAX_LENGTH <= SHRT_MAX
  /\ MaxFrames \in Nat /\ MAX_QUESIZE \in Nat /\ Partial \in BOOLEAN

VARIABLES
  wire,    \* bytes the client has sent and no read has taken
  sent,    \* history: the frames the client sent
  pc,      \* "head", "body": the async_read that is pending; "headRead",
           \* "bodyRead": its handler is to run; "stopped": there is none;
           \* "crashed": an exception has ended main's run()
  _recv_head_node, _recv_msg_node,  \* what the nodes were filled with
  data_len,                         \* the size of the body's node
  posted,  \* history: the frames handed to Send
  _send_queue, writes, completed, open, cleared, out, cut,   \* see SendQueue,
  accepted, refused,                                         \* out: its wire
  listed   \* the session is in CServer::_session

readerVars == <<wire, sent, pc, _recv_head_node, _recv_msg_node, data_len, posted>>
senderVars == <<_send_queue, writes, completed, open, cleared, out, cut, accepted, refused>>
vars == <<readerVars, senderVars, listed>>

Sender == INSTANCE SendQueue
  WITH Msgs <- 1..MaxFrames, MAX_SENDQUE_SIZE <- MAX_QUESIZE, wire <- out

Take(s, n) == SubSeq(s, 1, n)
Drop(s, n) == SubSeq(s, n + 1, Len(s))

\* host_to_network_short and back: signed 16 bits, high byte first.
EncodeLen(n) == <<(n % 65536) \div 256, n % 256>>
DecodeLen(b) == LET n == 256 * b[1] + b[2] IN IF n <= SHRT_MAX THEN n ELSE n - 65536

Encode(f) == EncodeLen(f.len) \o f.body

Init ==  \* as Start and then handle_accept leave the session
  /\ wire = <<>> /\ sent = <<>> /\ posted = <<>>
  /\ pc = "head"
  /\ _recv_head_node = <<>> /\ _recv_msg_node = <<>> /\ data_len = 0
  /\ Sender!Init
  /\ listed = TRUE

-----------------------------------------------------------------------------
(* The client, and the completion of an async_read.                        *)

Alive == pc # "crashed"

PeerSend(f) ==
  /\ Alive /\ Len(sent) < MaxFrames
  /\ sent' = Append(sent, f)
  /\ wire' = wire \o Encode(f)
  /\ UNCHANGED <<pc, _recv_head_node, _recv_msg_node, data_len, posted, senderVars, listed>>

ReadHead ==
  /\ pc = "head" /\ Len(wire) >= HEAD_LENGTH
  /\ pc' = "headRead"
  /\ _recv_head_node' = Take(wire, HEAD_LENGTH)
  /\ wire' = Drop(wire, HEAD_LENGTH)
  /\ UNCHANGED <<sent, _recv_msg_node, data_len, posted, senderVars, listed>>

ReadBody ==  \* at once when the length is 0
  /\ pc = "body" /\ Len(wire) >= data_len
  /\ pc' = "bodyRead"
  /\ _recv_msg_node' = Take(wire, data_len)
  /\ wire' = Drop(wire, data_len)
  /\ UNCHANGED <<sent, _recv_head_node, data_len, posted, senderVars, listed>>

-----------------------------------------------------------------------------
(* The handlers.                                                           *)

ClearSession == listed' = FALSE

EndSession ==  \* Close, ClearSession, and no further read
  /\ pc' = "stopped"
  /\ Sender!Close
  /\ ClearSession
  /\ UNCHANGED <<wire, sent, _recv_head_node, _recv_msg_node, data_len, posted>>

BodyLength == DecodeLen(_recv_head_node)

HeadValid ==
  /\ pc = "headRead" /\ BodyLength \in 0..MAX_LENGTH
  /\ pc' = "body"
  /\ data_len' = BodyLength
  /\ UNCHANGED <<wire, sent, _recv_head_node, _recv_msg_node, posted, senderVars, listed>>

HeadInvalid == pc = "headRead" /\ BodyLength > MAX_LENGTH /\ EndSession

\* MsgNode asks new for data_len + 1 bytes: it throws, which ends run(), or,
\* if that is none at all, goes on to write where it has no memory.
HeadNegative ==
  /\ pc = "headRead" /\ BodyLength < 0
  /\ pc' = "crashed"
  /\ UNCHANGED <<wire, sent, _recv_head_node, _recv_msg_node, data_len, posted,
                 senderVars, listed>>

Send(k) == Sender!SendAccepted(k) \/ Sender!SendRefused(k)

NextRead == pc' = "head"

HandleReadMsg ==
  /\ pc = "bodyRead"
  /\ posted' = Append(posted, _recv_msg_node)
  /\ Send(Len(posted'))
  /\ NextRead
  /\ _recv_head_node' = <<>>                \* Clear
  /\ UNCHANGED <<wire, sent, _recv_msg_node, data_len, listed>>

ReadFails == pc \in {"head", "body"} /\ EndSession

Write ==
  /\ Alive
  /\ Sender!Write
  /\ UNCHANGED <<readerVars, listed>>

HandleWrite ==
  /\ Alive
  /\ \/ Sender!HandleWriteOk /\ UNCHANGED listed
     \/ Sender!HandleWriteError /\ ClearSession
  /\ UNCHANGED readerVars

HandleReadHead == HeadValid \/ HeadInvalid \/ HeadNegative

Read == ReadHead \/ ReadBody
HandleRead == HandleReadHead \/ HandleReadMsg

Next ==
  \/ \E f \in Frames : PeerSend(f)
  \/ Read \/ HandleRead \/ ReadFails
  \/ Write \/ HandleWrite

Spec == Init /\ [][Next]_vars

(* A read completes when its bytes have arrived, the kernel completes      *)
(* every write, and the thread runs the handlers.                          *)
Fairness == WF_vars(Read) /\ WF_vars(HandleRead) /\ WF_vars(Write) /\ WF_vars(HandleWrite)

FairSpec == Spec /\ Fairness

-----------------------------------------------------------------------------
(* Every variable stays in its domain. *)
TypeOK ==
  /\ wire \in Seq(Byte) /\ sent \in Seq(Frames)
  /\ pc \in {"head", "headRead", "body", "bodyRead", "stopped", "crashed"}
  /\ _recv_head_node = <<>> \/ Len(_recv_head_node) = HEAD_LENGTH
  /\ data_len \in 0..MAX_LENGTH
  /\ posted \in Seq(Seq(Byte))
  /\ Sender!TypeOK /\ listed \in BOOLEAN

(* The session is in the server's map exactly while it reads, except after *)
(* a failed write, which takes it out while it still reads.                *)
MapExact == Alive => (listed <=> pc # "stopped" /\ ~cleared)

(* The two reads that alternate, the send queue and the map agree. *)
Consistent == TypeOK /\ MapExact

(* Every frame is answered, unless the queue was full, the session has     *)
(* left the map, because its reading ended or a write failed, or the       *)
(* process ended, after a head with a negative length.                     *)
Echoed ==
  \A k \in 1..MaxFrames :
    Len(sent) >= k ~>
      (Sender!InSeq(k, out) \/ k \in refused \/ ~listed \/ ~Alive)

Service == INSTANCE EchoService
  WITH Frames <- {f.body : f \in Frames}, asked <- [i \in DOMAIN sent |-> sent[i].body],
       answers <- [i \in DOMAIN out |-> [nr |-> out[i], frame |-> posted[out[i]]]],
       over <- cleared \/ ~open \/ ~Alive

(* The client gets its answers in the order of its frames, and each with   *)
(* the content of its frame.                                               *)
ImplementsEcho == Service!Spec
=============================================================================
