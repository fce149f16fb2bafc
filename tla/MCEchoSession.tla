---------------------------- MODULE MCEchoSession ----------------------------
(* AsyncEchoServer2: the connection of TlvServer without a logic queue and *)
(* its worker, which stay as they are initially; what steps is             *)
(* EchoSession, on the same reader and the same send queue.                *)
(* MAX_LENGTH = 5: a message of no bytes at all, one with an id of two     *)
(* bytes, one whose data looks like a head, and one over the limit;        *)
(* besides, a body that is no message, and two of a client that sends the  *)
(* length in host byte order: 1 becomes 256, over the limit, and 128       *)
(* becomes -32768.                                                         *)
EXTENDS TlvServer

CONSTANTS Messages, Garbage, Hellos, Prefix, InitHeadParse, MAX_QUESIZE

VARIABLE requests

Echo == INSTANCE EchoSession

ASSUME EchoFramesOK == Echo!FramesOK

EchoSpec ==
  /\ Echo!Init /\ Logic!Init
  /\ [][Echo!Next /\ UNCHANGED logicVars]_<<Echo!vars, logicVars>>

EchoFairSpec == EchoSpec /\ Echo!Fairness

MCMessages ==
  { [id |-> 0, data |-> <<>>],
    [id |-> 300, data |-> <<>>],
    [id |-> 1, data |-> <<0>>],
    [id |-> 0, data |-> <<1, 0, 1, 0>>] }

MCGarbage == {<<0>>}
MCHellos == {<<104>>, [i \in 1..128 |-> 104]}
MCPrefix == <<83>>

(* The reader, the send queue and the server's map agree: each frame read  *)
(* was passed to Send once, in order, and the session is in the map as     *)
(* long as it reads and no write has failed.                               *)
EchoPartsFit == Echo!PartsFit

(* AsyncEchoServer2/README.md:8: the head is read first, and the body node *)
(* is built from the length it gives.                                      *)
HeadFirst == Echo!HeadFirst

(* Every frame is answered, unless the queue was full, the session has     *)
(* left the map, because its reading ended or a write failed, or the       *)
(* process ended, after a negative length or a body without a node.        *)
Echoed == Echo!Echoed

(* The client gets answers in the order of its messages, and each, once    *)
(* decoded, has the id of its message and, after the prefix, its data.     *)
EchoImplements == Echo!ImplementsEcho
=============================================================================
