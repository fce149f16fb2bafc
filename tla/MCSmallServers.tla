--------------------------- MODULE MCSmallServers ---------------------------
(* The servers that share no module with another, one of them in a run:    *)
(*   AsyncEchoServer  two sessions of up to three bytes, a buffer of two;  *)
(*   SyncServer       two clients, arrays of three bytes;                  *)
(*   JsonServer       a session with MAX_LENGTH = 3: frames that are       *)
(*                    empty, that look like a head, over the limit, and of *)
(*                    a negative length;                                   *)
(*   GrpcServer       two callers; names of no bytes, of two, of one that  *)
(*                    is no text, and one whose length takes one byte in   *)
(*                    the request and, with the prefix, two in the reply.  *)
EXTENDS Integers, AsyncEcho

CONSTANTS
  Clients, MAX_LENGTH,                        \* SyncServer; see JsonSession too
  Frames, MaxFrames, MAX_QUESIZE, Partial,    \* JsonSession
  Callers, Names, prefix, Error               \* Greeter

VARIABLES
  running,  \* the server of this run
  mainPc, backlog, thread_set, threadPc, buffer, clientPc, request, up, down, reply,
  wire, frames, pc, _recv_head_node, _recv_msg_node, data_len, posted,
  _send_queue, writes, completed, open, cleared, out, cut, accepted, refused, listed,
  serving, callPc, name, message, result

syncVars == <<mainPc, backlog, thread_set, threadPc, buffer, clientPc, request, up, down, reply>>
jsonVars == <<wire, frames, pc, _recv_head_node, _recv_msg_node, data_len, posted,
              _send_queue, writes, completed, open, cleared, out, cut, accepted, refused, listed>>
grpcVars == <<serving, callPc, name, message, result>>

Sync == INSTANCE SyncServer
Json == INSTANCE JsonSession WITH sent <- frames
Grpc == INSTANCE Greeter

MCFrames ==
  { [len |-> 0, body |-> <<>>],
    [len |-> 2, body |-> <<0, 1>>],
    [len |-> 4, body |-> <<0, 0, 0, 1>>],
    [len |-> -2, body |-> <<>>] }
MCNames == {<<>>, <<104, 105>>, <<255>>, [i \in 1..126 |-> 97]}
MCPrefix == <<58, 32>>

MCInit ==
  /\ running \in {"AsyncEchoServer", "SyncServer", "JsonServer", "GrpcServer"}
  /\ Init /\ Sync!Init /\ Json!Init /\ Grpc!Init

MCNext ==
  /\ \/ running = "AsyncEchoServer" /\ Next /\ UNCHANGED <<syncVars, jsonVars, grpcVars>>
     \/ running = "SyncServer" /\ Sync!Next /\ UNCHANGED <<vars, jsonVars, grpcVars>>
     \/ running = "JsonServer" /\ Json!Next /\ UNCHANGED <<vars, syncVars, grpcVars>>
     \/ running = "GrpcServer" /\ Grpc!Next /\ UNCHANGED <<vars, syncVars, jsonVars>>
  /\ UNCHANGED running

(* The servers that do not run stay in their initial states, where nothing *)
(* is enabled that has to happen, so their fairness holds.                 *)
MCSpec ==
  /\ MCInit /\ [][MCNext]_<<running, vars, syncVars, jsonVars, grpcVars>>
  /\ Fairness /\ Sync!Fairness /\ Json!Fairness /\ Grpc!Fairness

(* The assumptions of SyncServer and JsonServer, which reach TLC by this   *)
(* module alone.                                                           *)
ASSUME SyncConstantsOK == Sync!ConstantsOK
ASSUME JsonConstantsOK == Json!ConstantsOK

(* Of every server: the objects, queues and containers of a connection     *)
(* agree on where it is.                                                   *)
AllConsistent == Consistent /\ Json!Consistent /\ Grpc!TypeOK

(* See the modules of the servers. *)
SyncConsistent == Sync!Consistent
SyncOwnEcho == Sync!OwnEcho
SyncServed == Sync!Served
JsonEchoed == Json!Echoed
JsonImplementsEcho == Json!ImplementsEcho
Greeted == Grpc!Greeted
=============================================================================
