------------------------------ MODULE AsyncEcho ------------------------------
(***************************************************************************)
(* AsyncEchoServer: sessions that are plain pointers.  A session reads a   *)
(* chunk into _data, sends it back, and reads again; whichever handler     *)
(* sees an error runs "delete this".  The server accepts one session at a  *)
(* time.  One thread runs every handler, so a handler is one step.         *)
(*                                                                         *)
(* The peer of a session sends the bytes 1, 2, 3, ... in this order.       *)
(***************************************************************************)
EXTENDS Naturals, Sequences, FiniteSets

CONSTANTS
  Sessions,    \* Session objects; each address is used once
  max_length,  \* size of _data
  MaxBytes     \* bound: bytes the peer of a session sends

ASSUME ConstantsOK == max_length \in Nat \ {0} /\ MaxBytes \in Nat

VARIABLES
  created,    \* sessions made by start_accept so far
  deleted,    \* those deleted again
  accepting,  \* sessions with an async_accept pending
  ops,        \* per session, the reads and writes pending: {"read", "write"}
  done,       \* per session, the completions whose handler has not run
  _data,      \* per session, the bytes of _data that were read last
  sending,    \* per session, the bytes a pending write refers to
  sent,       \* per session, how many bytes its peer has sent
  received,   \* per session, how many of them were read
  echoed,     \* history, per session: the bytes sent back, in order
  short,      \* history: sessions of which an async_send sent only a part
  ended       \* sessions whose connection the peer or the network ended

objects == <<created, deleted, accepting>>
io == <<ops, done, _data, sending>>
history == <<received, echoed, short>>
peer == <<sent, ended>>
vars == <<objects, io, history, peer>>

Chunk(first, n) == [i \in 1..n |-> first + i - 1]
Handlers == [h : {"handle_read", "handle_write"}, ok : BOOLEAN]

Init ==  \* the constructor of CServer has called start_accept
  /\ \E s \in Sessions : created = {s} /\ accepting = {s}
  /\ deleted = {}
  /\ ops = [s \in Sessions |-> {}] /\ done = [s \in Sessions |-> {}]
  /\ _data = [s \in Sessions |-> <<>>] /\ sending = [s \in Sessions |-> <<>>]
  /\ received = [s \in Sessions |-> 0] /\ echoed = [s \in Sessions |-> <<>>]
  /\ short = {} /\ ended = {}
  /\ sent = [s \in Sessions |-> 0]

-----------------------------------------------------------------------------
(* CServer.  Bound: accepting stops when Sessions is used up.              *)

start_accept(waiting) ==
  IF created = Sessions THEN accepting' = waiting /\ UNCHANGED created
  ELSE \E s \in Sessions \ created :
         created' = created \cup {s} /\ accepting' = waiting \cup {s}

StartRead(s) ==  \* memset of _data, then async_read_some
  /\ ops' = [ops EXCEPT ![s] = @ \cup {"read"}]
  /\ _data' = [_data EXCEPT ![s] = <<>>]

handle_accept_ok(s) ==
  /\ s \in accepting
  /\ StartRead(s)                              \* Start
  /\ start_accept(accepting \ {s})
  /\ UNCHANGED <<deleted, done, sending, history, peer>>

AcceptError(s) == deleted' = deleted \cup {s}

handle_accept_error(s) ==
  /\ s \in accepting
  /\ AcceptError(s)
  /\ start_accept(accepting \ {s})
  /\ UNCHANGED <<io, history, peer>>

-----------------------------------------------------------------------------
(* The peers and the kernel.                                               *)

Connected(s) == s \in created \ accepting /\ s \notin ended

PeerSend(s) ==
  /\ Connected(s) /\ s \notin deleted
  /\ sent[s] < MaxBytes
  /\ sent' = [sent EXCEPT ![s] = @ + 1]
  /\ UNCHANGED <<objects, io, history, ended>>

PeerEnds(s) ==
  /\ Connected(s) /\ s \notin deleted
  /\ ended' = ended \cup {s}
  /\ UNCHANGED <<objects, io, history, sent>>

Complete(s, op, handler, ok) ==
  /\ op \in ops[s]
  /\ ops' = [ops EXCEPT ![s] = @ \ {op}]
  /\ done' = [done EXCEPT ![s] = @ \cup {[h |-> handler, ok |-> ok]}]
  /\ UNCHANGED <<objects, peer>>

Room == max_length  \* of boost::asio::buffer(_data, max_length)

ReadDone(s) ==
  /\ Complete(s, "read", "handle_read", TRUE)
  /\ \E n \in 1..Room :
       /\ n <= sent[s] - received[s]
       /\ _data' = [_data EXCEPT ![s] = Chunk(received[s] + 1, n)]
       /\ received' = [received EXCEPT ![s] = @ + n]
  /\ UNCHANGED <<sending, echoed, short>>

WriteDone(s) ==  \* all of it, or a part; the bytes are in _data
  /\ Complete(s, "write", "handle_write", TRUE)
  /\ \E n \in 1..Len(sending[s]) :
       /\ echoed' = [echoed EXCEPT ![s] = @ \o SubSeq(_data[s], 1, n)]
       /\ short' = IF n < Len(sending[s]) THEN short \cup {s} ELSE short
  /\ UNCHANGED <<_data, sending, received>>

Fails(s) ==
  /\ s \in ended
  /\ \/ Complete(s, "read", "handle_read", FALSE)
     \/ Complete(s, "write", "handle_write", FALSE)
  /\ UNCHANGED <<_data, sending, history>>

-----------------------------------------------------------------------------
(* The handlers of Session.                                                *)

Run(s, handler, ok) ==
  /\ [h |-> handler, ok |-> ok] \in done[s]
  /\ done' = [done EXCEPT ![s] = @ \ {[h |-> handler, ok |-> ok]}]
  /\ UNCHANGED <<created, accepting, history, peer>>

\* Fault: the next read is started without waiting for the write.
AnswerAndRead(s) ==
  /\ sending' = [sending EXCEPT ![s] = _data[s]]
  /\ ops' = [ops EXCEPT ![s] = @ \cup {"read", "write"}]
  /\ UNCHANGED _data

\* Fault: the last byte is taken for a terminator.
AnswerButLast(s) ==
  /\ sending' = [sending EXCEPT ![s] = SubSeq(_data[s], 1, Len(_data[s]) - 1)]
  /\ ops' = [ops EXCEPT ![s] = @ \cup {"write"}]
  /\ UNCHANGED _data

Answer(s) ==  \* async_send of bytes_transferred bytes of _data
  /\ sending' = [sending EXCEPT ![s] = _data[s]]
  /\ ops' = [ops EXCEPT ![s] = @ \cup {"write"}]
  /\ UNCHANGED _data

handle_read(s) ==
  /\ Run(s, "handle_read", TRUE)
  /\ Answer(s)
  /\ UNCHANGED deleted

\* Fault: no read is started.
ReadAgainNot(s) == UNCHANGED <<ops, _data>>

ReadAgain(s) == StartRead(s)

handle_write(s) ==
  /\ Run(s, "handle_write", TRUE)
  /\ ReadAgain(s)
  /\ UNCHANGED <<deleted, sending>>

delete_this(s) ==
  /\ \E h \in {"handle_read", "handle_write"} : Run(s, h, FALSE)
  /\ deleted' = deleted \cup {s}
  /\ UNCHANGED <<ops, _data, sending>>

Accept(s) == handle_accept_ok(s) \/ handle_accept_error(s)
Kernel(s) == ReadDone(s) \/ WriteDone(s) \/ Fails(s)
Handle(s) == handle_read(s) \/ handle_write(s) \/ delete_this(s)

Next == \E s \in Sessions : Accept(s) \/ PeerSend(s) \/ PeerEnds(s) \/ Kernel(s) \/ Handle(s)

Spec == Init /\ [][Next]_vars

(* The kernel completes what is pending once it can, the event loop runs   *)
(* the handlers.                                                           *)
Fairness == \A s \in Sessions : WF_vars(Kernel(s)) /\ WF_vars(Handle(s))

FairSpec == Spec /\ Fairness

-----------------------------------------------------------------------------
Live == created \ (deleted \cup accepting)
Pending(s) == Cardinality(ops[s]) + Cardinality(done[s])

(* Every variable stays in its domain. *)
TypeOK ==
  /\ created \subseteq Sessions /\ deleted \subseteq created
  /\ accepting \subseteq created /\ ended \subseteq created
  /\ ops \in [Sessions -> SUBSET {"read", "write"}]
  /\ done \in [Sessions -> SUBSET Handlers]
  /\ \A s \in Sessions :
       /\ _data[s] \in Seq(1..MaxBytes) /\ Len(_data[s]) <= max_length
       /\ received[s] \in 0..sent[s] /\ sent[s] \in 0..MaxBytes
  /\ short \subseteq Sessions

(* Raw pointers need a discipline: a live session has exactly one pending  *)
(* operation or handler, so the one that fails may delete it; a deleted    *)
(* one, or one still accepting, has none, so nothing runs on freed memory  *)
(* and no session is forgotten.                                            *)
OneOwner ==
  /\ \A s \in Live : Pending(s) = 1
  /\ \A s \in Sessions \ Live : Pending(s) = 0
  /\ accepting \cap deleted = {}

(* _data is read and written in turns: while a send of it is pending, it   *)
(* still holds the bytes that were to be sent.                             *)
BufferStable == \A s \in Live : "write" \in ops[s] => _data[s] = sending[s]

(* Objects, operations, handlers and buffers agree. *)
Consistent == TypeOK /\ OneOwner /\ BufferStable

(* The peer gets back its own bytes, in order and none twice; and all of   *)
(* them up to the last read, unless a send was cut short, once the session *)
(* reads again.                                                            *)
EchoInOrder ==
  \A s \in Sessions :
    LET e == echoed[s] IN
    /\ \A i \in 2..Len(e) : e[i - 1] < e[i]
    /\ \A i \in DOMAIN e : e[i] \in 1..received[s]
    /\ "read" \in ops[s] /\ s \notin short => e = Chunk(1, received[s])

(* A session whose connection ends is deleted, whichever operation was     *)
(* pending; the server does not collect dead sessions.                     *)
Deleted == \A s \in Sessions : s \in ended ~> s \in deleted
=============================================================================
