------------------------------ MODULE TlvServer ------------------------------
(***************************************************************************)
(* One connection of the TLV servers from end to end: the session's reader *)
(* (TlvReader), the logic queue with its worker (LogicSystem) and the      *)
(* session's send queue (SendQueue).  The three servers have the same      *)
(* code; IOThreadPoolServer, which is mapped here, binds the handlers of a *)
(* session to a strand besides.                                            *)
(*                                                                         *)
(* Two threads: main runs the handlers of the session one at a time, the   *)
(* worker runs DealMsg, whose callback calls Send.  A LogicNode is a frame *)
(* with its number on the connection, and so is the answer made of it.     *)
(* main's exit is left to LogicSystem and ServerLifetime.                  *)
(***************************************************************************)
EXTENDS Integers, Sequences

CONSTANTS
  Frames,         \* [id, len, body] records the peer may send, in any order
  MaxFrames,      \* bound: how many frames the peer sends
  RegisteredIds,  \* the keys of _func_callbacks
  Malformed,      \* bodies that make the callback throw
  MAX_LENGTH, MAX_SENDQUE_SIZE, Partial,
  Main            \* the thread that runs the handlers

VARIABLES
  wire, sent, data, head, _b_head_parse, msg, posted, pc,  \* see TlvReader
  _msg_que, notifying, workerPc, pushed, handled,          \* see LogicSystem,
  _b_stop, mainPc,                     \* pushed: its posted; no stop is modelled
  _send_queue, writes, completed, open, cleared, out, cut, \* see SendQueue,
  accepted, refused,                                       \* out: its wire
  listed  \* the session is in CServer::_session

readerVars == <<wire, sent, data, head, _b_head_parse, msg, posted, pc>>
logicVars == <<_msg_que, notifying, workerPc, pushed, handled, _b_stop, mainPc>>
senderVars == <<_send_queue, writes, completed, open, cleared, out, cut, accepted, refused>>
vars == <<readerVars, logicVars, senderVars, listed>>

LogicNode(k, f) == [nr |-> k, frame |-> f]
Nodes == [nr : 1..MaxFrames, frame : Frames]
Registered == {n \in Nodes : n.frame.id \in RegisteredIds}
Throwing == {n \in Registered : n.frame.body \in Malformed}

Reader == INSTANCE TlvReader WITH HEAD_ID_LEN <- 2, InitHeadParse <- {FALSE}
Logic == INSTANCE LogicSystem WITH Posters <- {Main}, posted <- pushed
Sender == INSTANCE SendQueue WITH Msgs <- Nodes, wire <- out

ASSUME FramesOK ==
  MaxFrames \in Nat /\ MAX_SENDQUE_SIZE \in Nat /\ Partial \in BOOLEAN /\ Reader!ConstantsOK

Init ==  \* as handle_accept leaves it
  Reader!Init /\ Logic!Init /\ Sender!Init /\ listed = TRUE

\* An exception that leaves HandleRead ends main's run(); the worker may
\* take more steps before the process is gone.
Alive == Logic!Alive /\ pc # "crashed"
Idle == pc \in {"reading", "stopped"} /\ notifying = {}  \* main runs no handler

ClearSession == listed' = FALSE

-----------------------------------------------------------------------------
PeerSend(f) ==
  /\ Alive
  /\ Reader!PeerSend(f)
  /\ UNCHANGED <<logicVars, senderVars, listed>>

ReadSome ==
  /\ Alive /\ Idle
  /\ Reader!Read
  /\ UNCHANGED <<logicVars, senderVars, listed>>

Finished == Len(posted') > Len(posted)      \* this pass completed a frame
NewNode == LogicNode(Len(posted'), posted'[Len(posted')])

\* Fault: frames that end within a chunk are not posted.
PostLast ==
  IF Finished /\ pc' = "reading"
  THEN Logic!PostMsg2Que(Main, NewNode) ELSE UNCHANGED logicVars

Post == IF Finished THEN Logic!PostMsg2Que(Main, NewNode) ELSE UNCHANGED logicVars

HandleRead ==  \* one pass; it waits for _mutex when it has a node to post
  /\ Alive /\ notifying = {}
  /\ Reader!HandleRead
  /\ Post
  /\ IF pc' = "stopped" THEN ClearSession ELSE UNCHANGED listed
  /\ UNCHANGED senderVars

Notify ==  \* the end of PostMsg2Que
  /\ Logic!Notify(Main)
  /\ UNCHANGED <<readerVars, senderVars, listed>>

ReadFails ==
  /\ Alive /\ Idle
  /\ Reader!ReadFails
  /\ Sender!Close
  /\ ClearSession
  /\ UNCHANGED logicVars

-----------------------------------------------------------------------------
Send(n) == Sender!SendAccepted(n) \/ Sender!SendRefused(n)

Answer(n) == Send(n)  \* HelloWorldCallback, which ends with Send

Dispatch ==
  /\ Logic!Dispatch
  /\ IF Head(_msg_que) \in Registered THEN Answer(Head(_msg_que)) ELSE UNCHANGED senderVars
  /\ UNCHANGED <<readerVars, listed>>

WorkerStep ==  \* the rest of DealMsg
  /\ \/ Logic!Lock \/ Logic!TestPredicate \/ Logic!Wait
     \/ Logic!StartDispatch \/ Logic!CallbackThrows
  /\ UNCHANGED <<readerVars, senderVars, listed>>

SpuriousWakeup ==
  /\ Logic!SpuriousWakeup
  /\ UNCHANGED <<readerVars, senderVars, listed>>

-----------------------------------------------------------------------------
Write ==
  /\ Alive
  /\ Sender!Write
  /\ UNCHANGED <<readerVars, logicVars, listed>>

HandleWrite ==
  /\ Alive /\ Idle
  /\ \/ Sender!HandleWriteOk /\ UNCHANGED listed
     \/ Sender!HandleWriteError /\ ClearSession
  /\ UNCHANGED <<readerVars, logicVars>>

Next ==
  \/ \E f \in Frames : PeerSend(f)
  \/ ReadSome \/ HandleRead \/ Notify \/ ReadFails
  \/ Dispatch \/ WorkerStep \/ SpuriousWakeup
  \/ Write \/ HandleWrite

Spec == Init /\ [][Next]_vars

(* The kernel delivers what has arrived and completes every write; both    *)
(* threads run.  HandleRead is strongly fair: main gets a mutex that is    *)
(* free again and again, even if the worker's waits wake spuriously        *)
(* without end.                                                            *)
Fairness ==
  /\ WF_vars(ReadSome) /\ SF_vars(HandleRead) /\ WF_vars(Notify)
  /\ WF_vars(Dispatch) /\ WF_vars(WorkerStep)
  /\ WF_vars(Write) /\ WF_vars(HandleWrite)

FairSpec == Spec /\ Fairness

-----------------------------------------------------------------------------
Listening == pc = "reading"                 \* a read is pending

(* Every variable of the three parts stays in its domain, and the reader   *)
(* within its buffers.                                                     *)
TypeOK == Reader!WellFormed /\ Logic!TypeOK /\ Sender!TypeOK /\ listed \in BOOLEAN

(* The parts fit: a frame that was read is in exactly one place on its way *)
(* - queued for the worker, passed over for its id, or handed to Send,     *)
(* which took or refused it - and the two queues keep the frames' order.   *)
OnePlace ==
  LET answered == {accepted[i] : i \in DOMAIN accepted} \cup refused
      queued == {_msg_que[i] : i \in DOMAIN _msg_que}
      read == {pushed[i] : i \in DOMAIN pushed} IN
  /\ pushed = [i \in DOMAIN posted |-> LogicNode(i, posted[i])]
  /\ answered \cap queued = {}
  /\ answered = (read \cap Registered) \ queued
  /\ \A i, j \in DOMAIN accepted : i < j => accepted[i].nr < accepted[j].nr

(* IOThreadPoolServer/CServer.cpp: the map holds the session for as long   *)
(* as it reads, unless a write has failed.                                 *)
MapExact == Idle => (listed <=> Listening /\ ~cleared)

(* The reader, the two queues and the server's map agree. *)
PartsFit == TypeOK /\ OnePlace /\ MapExact

(* However the stream is cut into chunks, and whatever the worker does     *)
(* meanwhile, the frames posted are the frames sent, in order, none lost,  *)
(* repeated, merged or split.                                              *)
Reassembled == Reader!Reassembled

(* A request with a registered id is answered, unless the send queue was   *)
(* full, the session has left the map, because its reading ended or a      *)
(* write failed, or the process ended, by a callback's exception or after  *)
(* a head with a negative length.                                          *)
Answered ==
  \A k \in 1..MaxFrames :
    (k \in DOMAIN sent /\ sent[k].id \in RegisteredIds) ~>
      \/ k \in {out[i].nr : i \in DOMAIN out} \cup {n.nr : n \in refused}
      \/ ~listed \/ ~Alive

Service == INSTANCE EchoService
  WITH asked <- sent, answers <- out, over <- cleared \/ ~open \/ ~Alive

(* Across the two threads and both queues, the client gets answers in the  *)
(* order of its requests, each at most once, to what it asked.             *)
ImplementsEcho == Service!Spec
=============================================================================
