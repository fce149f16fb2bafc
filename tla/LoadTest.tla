------------------------------- MODULE LoadTest -------------------------------
(***************************************************************************)
(* tools/ClientTestIOCandIOT against a TLV server: many clients, each a    *)
(* thread that asks, receives the head and the body of the answer, and     *)
(* asks again; on the server one session for each, all sharing the one     *)
(* LogicSystem.  LogicSystem is represented by the channel it implements   *)
(* (FifoChannel), and a session by its frames: what it read and has not    *)
(* posted, and the send queue with the write in progress.  The errors of a *)
(* session and the end of the server are left to SendQueue, ServerLifetime *)
(* and LogicSystem.                                                        *)
(*                                                                         *)
(* An answer is HeadLen + BodyLen bytes; a byte is <<client, round, place>>.*)
(***************************************************************************)
EXTENDS Naturals, Sequences

CONSTANTS
  Clients, Rounds,   \* Rounds: requests each client makes
  HeadLen, BodyLen,  \* of an answer
  MaxLength,         \* bound: lengths a client may take from a broken head
  MAX_SENDQUE_SIZE

ASSUME ConstantsOK ==
  {Rounds, HeadLen, BodyLen} \subseteq Nat \ {0} /\ {MaxLength, MAX_SENDQUE_SIZE} \subseteq Nat

VARIABLES
  clientPc,     \* per client: "idle", "send", "head", "body", "done", "failed"
  round,        \* per client: requests sent, j + 1 in the loop
  replylen,     \* per client: the length taken from the last head
  received,     \* history, per client: the bytes received, all in one
  short,        \* history: clients of which a receive returned too little
  up,           \* per connection: requests the session has not posted
  down,         \* per connection: bytes the client has not received
  _send_queue,  \* per session: answers to be written, by round
  written,      \* sessions whose front answer has been written
  refused,      \* history: answers dropped at a full queue
  posted,       \* history: the requests given to PostMsg2Que, in order
  handled,      \* history: those given to HelloWorldCallback, in order
  over          \* the server process has ended

clientVars == <<clientPc, round, replylen, received, short>>
sessionVars == <<_send_queue, written, refused>>
logicVars == <<posted, handled, over>>
vars == <<clientVars, up, down, sessionVars, logicVars>>

LogicNodes == Clients \X (1..Rounds)       \* the k-th request of a client

Logic == INSTANCE FifoChannel
  WITH Items <- LogicNodes, sent <- posted, delivered <- handled, broken <- over

Min2(a, b) == IF a < b THEN a ELSE b
Take(s, n) == SubSeq(s, 1, n)
Drop(s, n) == SubSeq(s, n + 1, Len(s))

AnswerLen == HeadLen + BodyLen
Answer(c, k) == [i \in 1..AnswerLen |-> <<c, k, i>>]

Init ==
  /\ clientPc = [c \in Clients |-> "idle"] /\ round = [c \in Clients |-> 0]
  /\ replylen = [c \in Clients |-> 0]
  /\ received = [c \in Clients |-> <<>>] /\ short = {}
  /\ up = [c \in Clients |-> <<>>] /\ down = [c \in Clients |-> <<>>]
  /\ _send_queue = [c \in Clients |-> <<>>] /\ written = {} /\ refused = {}
  /\ Logic!Init

-----------------------------------------------------------------------------
(* A client thread.                                                        *)

Goto(c, pc) == clientPc' = [clientPc EXCEPT ![c] = pc]

Connect(c) ==  \* sock.connect; on an error the thread returns
  /\ clientPc[c] = "idle"
  /\ Goto(c, "send") \/ Goto(c, "failed")
  /\ UNCHANGED <<round, replylen, received, short, up, down>>

Send(c) ==
  /\ clientPc[c] = "send"
  /\ IF round[c] = Rounds
     THEN Goto(c, "done") /\ UNCHANGED <<round, up>>
     ELSE /\ Goto(c, "head")
          /\ round' = [round EXCEPT ![c] = @ + 1]
          /\ up' = [up EXCEPT ![c] = Append(@, round'[c])]
  /\ UNCHANGED <<replylen, received, short, down>>

\* sock.receive into a buffer of room bytes; its result is not compared.
Receive(c, room, n) ==
  /\ IF room = 0 THEN n = 0 ELSE n \in 1..Min2(room, Len(down[c]))
  /\ received' = [received EXCEPT ![c] = @ \o Take(down[c], n)]
  /\ down' = [down EXCEPT ![c] = Drop(@, n)]
  /\ short' = IF n < room THEN short \cup {c} ELSE short

IsHead(c, bytes) == \E k \in 1..Rounds : bytes = Take(Answer(c, k), HeadLen)

ReceiveHead(c) ==  \* a length taken from other bytes may be any, even too long
  /\ clientPc[c] = "head"
  /\ \E n \in 1..HeadLen :
       /\ Receive(c, HeadLen, n)
       /\ IF IsHead(c, Take(down[c], n))
          THEN replylen' = [replylen EXCEPT ![c] = BodyLen] /\ Goto(c, "body")
          ELSE \E len \in 0..MaxLength :
                 /\ replylen' = [replylen EXCEPT ![c] = len]
                 /\ Goto(c, "body") \/ Goto(c, "failed")
  /\ UNCHANGED <<round, up>>

ReceiveBody(c) ==
  /\ clientPc[c] = "body"
  /\ \E n \in 0..replylen[c] : Receive(c, replylen[c], n)
  /\ replylen' = [replylen EXCEPT ![c] = 0]     \* of the next pass
  /\ Goto(c, "send")
  /\ UNCHANGED <<round, up>>

ClientFails(c) ==  \* send or receive throws: the thread returns
  /\ over /\ clientPc[c] \in {"send", "head", "body"}
  /\ Goto(c, "failed")
  /\ UNCHANGED <<round, replylen, received, short, up, down>>

Client(c) ==
  /\ Connect(c) \/ Send(c) \/ ReceiveHead(c) \/ ReceiveBody(c) \/ ClientFails(c)
  /\ UNCHANGED <<sessionVars, logicVars>>

-----------------------------------------------------------------------------
(* The sessions, whose handlers main runs one at a time, and the worker.   *)

HandleRead(c) ==
  /\ ~over /\ up[c] # <<>>
  /\ Logic!Send(<<c, Head(up[c])>>)
  /\ up' = [up EXCEPT ![c] = Tail(@)]
  /\ UNCHANGED <<clientVars, down, sessionVars>>

\* Fault: the limit is tested with >= .
FullAtLimit(c) == Len(_send_queue[c]) >= MAX_SENDQUE_SIZE

Full(c) == Len(_send_queue[c]) > MAX_SENDQUE_SIZE

SessionSend(c, k) ==
  IF Full(c)
  THEN refused' = refused \cup {<<c, k>>} /\ UNCHANGED <<_send_queue, written>>
  ELSE /\ _send_queue' = [_send_queue EXCEPT ![c] = Append(@, k)]
       /\ UNCHANGED <<written, refused>>

Dispatch ==  \* HelloWorldCallback, which ends with Send
  /\ Logic!Deliver
  /\ LET n == posted[Len(handled')] IN SessionSend(n[1], n[2])
  /\ UNCHANGED <<clientVars, up, down>>

Write(c) ==  \* the async_send of the front answer completes
  /\ ~over /\ _send_queue[c] # <<>> /\ c \notin written
  /\ down' = [down EXCEPT ![c] = @ \o Answer(c, Head(_send_queue[c]))]
  /\ written' = written \cup {c}
  /\ UNCHANGED <<clientVars, up, _send_queue, refused, logicVars>>

\* Fault: the whole queue goes with the front answer.
PopAll(c) == _send_queue' = [_send_queue EXCEPT ![c] = <<>>]

\* Fault: the answer stays at the front.
PopNot(c) == UNCHANGED _send_queue

Pop(c) == _send_queue' = [_send_queue EXCEPT ![c] = Tail(@)]

HandleWrite(c) ==
  /\ ~over /\ c \in written
  /\ Pop(c)
  /\ written' = written \ {c}
  /\ UNCHANGED <<clientVars, up, down, refused, logicVars>>

ServerEnds ==
  /\ Logic!Break
  /\ UNCHANGED <<clientVars, up, down, sessionVars>>

Next ==
  \/ \E c \in Clients : Client(c) \/ HandleRead(c) \/ Write(c) \/ HandleWrite(c)
  \/ Dispatch \/ ServerEnds

Spec == Init /\ [][Next]_vars

(* Every thread runs, the kernel completes the writes, and main runs the   *)
(* handlers of every session.                                              *)
Fairness ==
  /\ \A c \in Clients :
       /\ WF_vars(Client(c)) /\ WF_vars(HandleRead(c))
       /\ WF_vars(Write(c)) /\ WF_vars(HandleWrite(c))
  /\ WF_vars(Dispatch)

FairSpec == Spec /\ Fairness

-----------------------------------------------------------------------------
SeqSum(c, n) ==  \* the bytes of the first n answers to a client, in one
  [i \in 1..(n * AnswerLen) |->
    <<c, (i - 1) \div AnswerLen + 1, ((i - 1) % AnswerLen) + 1>>]

InStep(c) == c \notin short     \* every receive has returned all it asked for

(* Every variable stays in its domain. *)
TypeOK ==
  /\ clientPc \in [Clients -> {"idle", "send", "head", "body", "done", "failed"}]
  /\ round \in [Clients -> 0..Rounds]
  /\ replylen \in [Clients -> 0..MaxLength \cup {BodyLen}]
  /\ written \subseteq {c \in Clients : _send_queue[c] # <<>>}
  /\ refused \subseteq LogicNodes

(* A client in step has one request on its way at most, whatever the other *)
(* clients do; so its session's queue never holds more than two answers    *)
(* and the limit never drops one: the load test cannot reach it.           *)
Lockstep ==
  \A c \in Clients : InStep(c) =>
    /\ Len(_send_queue[c]) <= 2
    /\ MAX_SENDQUE_SIZE > 0 => \A k \in 1..Rounds : <<c, k>> \notin refused
    /\ clientPc[c] = "send" =>
         /\ received[c] = SeqSum(c, round[c])
         /\ up[c] = <<>> /\ down[c] = <<>>

(* Clients, sessions and the shared queue agree. *)
Consistent == TypeOK /\ Lockstep

(* The one worker and the shared queue keep the connections apart: what a  *)
(* client has received and is about to receive are the answers to its own  *)
(* requests, in their order, none twice; even when its receives break them *)
(* up.  Only an answer dropped at a full queue is missing.                 *)
OwnAnswers ==
  \A c \in Clients :
    LET bytes == received[c] \o down[c] IN
    (\A k \in 1..Rounds : <<c, k>> \notin refused) =>
      bytes = Take(SeqSum(c, Rounds), Len(bytes))

(* Every client comes to the end of its loop or fails: none is starved by  *)
(* the others, and not even one that has lost its place in the stream      *)
(* waits for bytes that never come, unless an answer to it was dropped.    *)
AllFinish ==
  \A c \in Clients :
    clientPc[c] # "idle" ~>
      clientPc[c] \in {"done", "failed"} \/ \E k \in 1..Rounds : <<c, k>> \in refused
=============================================================================
