----------------------------- MODULE EchoSession -----------------------------
(***************************************************************************)
(* A session of AsyncEchoServer2, both halves and its place in the         *)
(* server's map: the reader of TlvReader, for a head of a length only, and *)
(* the queue of SendQueue, joined by HandleRead, which answers every frame *)
(* it completes.                                                           *)
(*                                                                         *)
(* The server has one thread.  HandleRead is still one step per pass of    *)
(* its loop, since the peer sends and the kernel writes meanwhile; no      *)
(* other handler runs before it has returned.  The k-th frame and its      *)
(* answer are the number k on the sending side; what they hold is a        *)
(* MsgData, or bytes that are none.                                        *)
(***************************************************************************)
EXTENDS Integers, Sequences

CONSTANTS
  Messages,   \* [id, data] records the client may send
  Garbage,    \* bodies that are no message; not even their first field is
  Hellos,     \* bodies ClientDriveByThread may send, of lengths that with
              \* their bytes the other way round are over MAX_LENGTH or negative
  Prefix,     \* what HandleRead puts before the data: "server has receive ..."
  MAX_LENGTH, MaxFrames, InitHeadParse, MAX_QUESIZE, Partial

VARIABLES
  wire, sent, data, head, _b_head_parse, msg, posted, pc,     \* see TlvReader
  _send_queue, writes, completed, open, cleared, out, cut,    \* see SendQueue,
  accepted, refused,                                          \* out: its wire
  listed,   \* the session is in CServer::_session
  requests  \* history: the message of each frame in sent

readerVars == <<wire, sent, data, head, _b_head_parse, msg, posted, pc>>
senderVars == <<_send_queue, writes, completed, open, cleared, out, cut, accepted, refused>>
vars == <<readerVars, senderVars, listed, requests>>

ClientCodec == INSTANCE MsgData   \* both ends are built with the same class
ServerCodec == INSTANCE MsgData

\* ClientDriveByThread copies the length as it is in memory, low byte first.
SwappedLen(body) ==
  LET n == 256 * (Len(body) % 256) + Len(body) \div 256 IN IF n < 32768 THEN n ELSE n - 65536

Frame(body) == [id |-> 0, len |-> Len(body), body |-> body]
HelloFrame(body) == [Frame(body) EXCEPT !.len = SwappedLen(body)]
ClientFrames == {Frame(ClientCodec!SerializeToString(m)) : m \in Messages}
                \cup {Frame(body) : body \in Garbage}
                \cup {HelloFrame(body) : body \in Hellos}

Reader == INSTANCE TlvReader WITH HEAD_ID_LEN <- 0, Frames <- ClientFrames
Sender == INSTANCE SendQueue
  WITH Msgs <- 1..MaxFrames, MAX_SENDQUE_SIZE <- MAX_QUESIZE, wire <- out

FramesOK ==
  /\ MaxFrames \in Nat /\ MAX_QUESIZE \in Nat /\ Partial \in BOOLEAN /\ Reader!ConstantsOK
  /\ \A body \in Hellos : Len(body) < 32768 /\ SwappedLen(body) \notin 0..MAX_LENGTH

Init ==  \* as handle_accept leaves it
  Reader!Init /\ Sender!Init /\ listed = TRUE /\ requests = <<>>

Alive == pc # "crashed"
Idle == pc \in {"reading", "stopped"}     \* the thread is free for a handler

ClearSession == listed' = FALSE

-----------------------------------------------------------------------------
PeerSend(m, frame) ==
  /\ Alive
  /\ Reader!PeerSend(frame)
  /\ requests' = Append(requests, m)
  /\ UNCHANGED <<senderVars, listed>>

SendMessage(m) == PeerSend(m, Frame(ClientCodec!SerializeToString(m)))
SendGarbage(body) == PeerSend(ClientCodec!MsgData, Frame(body))

Unanswerable == ClientCodec!Set(-1, <<>>)   \* the echo of which nothing decodes to

SendHello(body) == PeerSend(Unanswerable, HelloFrame(body))

ReadSome ==
  /\ Reader!Read
  /\ UNCHANGED <<senderVars, listed, requests>>

Send(k) == Sender!SendAccepted(k) \/ Sender!SendRefused(k)

Finished == Len(posted') > Len(posted)      \* this pass completed a frame

\* Fault: frames that end within a chunk are not answered.
AnswerLast == IF Finished /\ pc' = "reading" THEN Send(Len(posted')) ELSE UNCHANGED senderVars

Answer == IF Finished THEN Send(Len(posted')) ELSE UNCHANGED senderVars

HandleRead ==  \* one pass; a head with an invalid length ends the reading
  /\ Reader!HandleRead
  /\ Answer
  /\ IF pc' = "stopped" THEN ClearSession ELSE UNCHANGED listed
  /\ UNCHANGED requests

\* What HandleRead makes of a body: the result of the parsing is not looked at.
Reply(body) ==
  LET recvdata == ServerCodec!ParseFromString(ServerCodec!MsgData, body).msg
  IN ServerCodec!SerializeToString(ServerCodec!Set(recvdata.id, Prefix \o recvdata.data))

ReadFails ==
  /\ Reader!ReadFails
  /\ Sender!Close
  /\ ClearSession
  /\ UNCHANGED requests

Write ==
  /\ Alive
  /\ Sender!Write
  /\ UNCHANGED <<readerVars, listed, requests>>

HandleWrite ==
  /\ Idle
  /\ \/ Sender!HandleWriteOk /\ UNCHANGED listed
     \/ Sender!HandleWriteError /\ ClearSession
  /\ UNCHANGED <<readerVars, requests>>

Next ==
  \/ \E m \in Messages : SendMessage(m)
  \/ \E body \in Garbage : SendGarbage(body)
  \/ \E body \in Hellos : SendHello(body)
  \/ ReadSome \/ HandleRead \/ ReadFails
  \/ Write \/ HandleWrite

Spec == Init /\ [][Next]_vars

(* Arrived bytes are read, the kernel completes every write, and the       *)
(* thread runs the handlers: neither direction waits for the other.        *)
Fairness ==
  WF_vars(ReadSome) /\ WF_vars(HandleRead) /\ WF_vars(Write) /\ WF_vars(HandleWrite)

FairSpec == Spec /\ Fairness

-----------------------------------------------------------------------------
Listening == pc = "reading"                 \* a read is pending

(* Every variable of both halves stays in its domain, and the reader       *)
(* within its buffers.                                                     *)
TypeOK ==
  /\ Reader!WellFormed /\ Sender!TypeOK
  /\ listed \in BOOLEAN /\ Len(requests) = Len(sent)

(* The two halves fit: each frame read was passed to Send exactly once, in *)
(* the order of the frames, and no read handler leaves an answer unqueued. *)
AnswersMatch ==
  LET taken == {accepted[i] : i \in DOMAIN accepted} IN
  /\ taken \cup refused = 1..Len(posted)
  /\ \A i, j \in DOMAIN accepted : i < j => accepted[i] < accepted[j]

(* AsyncEchoServer2/README.md, CServer: the map keeps a session alive for  *)
(* as long as it reads.  A session that waits for its peer is in the map,  *)
(* unless a write has failed, and one that has ended is not.               *)
MapExact == Idle => (listed <=> Listening /\ ~cleared)

(* The reader, the send queue and the server's map agree. *)
PartsFit == TypeOK /\ AnswersMatch /\ MapExact

(* AsyncEchoServer2/README.md:8: the head is read first, and the body node *)
(* is built from the length it gives; so body bytes are never collected    *)
(* without a body node.                                                    *)
HeadFirst == pc = "parsing" /\ _b_head_parse => msg # Reader!NoMsg

(* Every frame is answered, unless the queue was full, the session has     *)
(* left the map, because its reading ended or a write failed, or the       *)
(* process ended, after a negative length or a body without a node.        *)
Echoed ==
  \A k \in 1..MaxFrames :
    Len(sent) >= k ~>
      Sender!InSeq(k, out) \/ k \in refused \/ ~listed \/ ~Alive

\* What is promised for a message, and what the client makes of a reply.
Echo(m) == ClientCodec!Set(m.id, Prefix \o m.data)
Decoded(reply) == ClientCodec!ParseFromString(ClientCodec!MsgData, reply)

Service == INSTANCE EchoService
  WITH Frames <- {Echo(m) : m \in Messages \cup {ClientCodec!MsgData, Unanswerable}},
       asked <- [i \in DOMAIN requests |-> Echo(requests[i])],
       answers <- [i \in DOMAIN out |->
                    [nr |-> out[i], frame |-> Decoded(Reply(posted[out[i]].body)).msg]],
       over <- cleared \/ ~open \/ ~Alive

(* However the stream is cut into chunks and the writes are delayed, the   *)
(* client gets answers in the order of its messages, and each, once        *)
(* decoded, has the id of its message and, after the prefix, its data.  To *)
(* what is no message the answer has id 0 and nothing after the prefix; a  *)
(* length in the wrong byte order is not answered at all.                  *)
ImplementsEcho == Service!Spec
=============================================================================
