--------------------------- MODULE ServerLifetime ---------------------------
(***************************************************************************)
(* Who keeps a session alive in LogicServer and in IOContextPoolServer,    *)
(* which have these files in common, and what the exit of main does to it. *)
(* A CSession is owned by shared_ptrs: in the accept handler, in           *)
(* CServer's map _session, in the handlers bound to its pending read and   *)
(* write, and in the LogicNodes the worker thread has not popped.  It is   *)
(* destroyed when the last of them goes.                                   *)
(*                                                                         *)
(* main runs the io_context alone, so a handler is one step; the worker    *)
(* thread (LogicSystem) runs the callback of the front node, which calls   *)
(* Send on the session, and pops the node, in two steps.  Frames and       *)
(* queues are counted only: TlvReader and SendQueue look inside.           *)
(***************************************************************************)
EXTENDS Naturals, Sequences, FiniteSets

CONSTANTS
  Sessions,  \* CSession objects, in no order; each is created once
  NoSession,
  MaxNodes   \* bound: LogicNodes posted in a behaviour

ASSUME ConstantsOK == NoSession \notin Sessions /\ MaxNodes \in Nat

VARIABLES
  created,    \* sessions made by start_accept so far
  accepting,  \* the session bound to the pending async_accept, or NoSession
  _session,   \* CServer::_session, the keys as sessions
  reading,    \* sessions with an async_read_some pending
  writing,    \* per session: no async_send, or how far it has come
  unsent,     \* length of each session's _send_queue
  nodes,      \* the sessions of the LogicNodes queued, oldest first
  replied,    \* the callback of the front node has run
  posts,      \* how many nodes were posted so far
  broken,     \* sessions whose connection the peer or the network ended
  closed,     \* sessions whose socket Close has closed
  failed,     \* sessions whose HandleWrite saw an error
  destroyed,  \* sessions whose last shared_ptr has gone
  mainPc      \* "running": in ioc.run(); "unwound": main's locals destroyed

connVars == <<created, accepting, _session, reading, broken, closed>>
sendVars == <<writing, unsent, failed>>
logicVars == <<nodes, replied, posts>>
vars == <<connVars, sendVars, logicVars, destroyed, mainPc>>

InSeq(s, q) == \E i \in DOMAIN q : q[i] = s

\* The shared_ptrs to s.
HeldByServer(s) == s = accepting \/ s \in _session
Writing(s) == writing[s] # "none"

\* Fault: the write handler is bound without SharedSelf().
HeldByReadHandler(s) == s \in reading

HeldByHandler(s) == s \in reading \/ Writing(s)
HeldByNode(s) == InSeq(s, nodes)
Held(s) == HeldByServer(s) \/ HeldByHandler(s) \/ HeldByNode(s)

\* Destruction is part of the step that drops the last shared_ptr.
Release == destroyed' = destroyed \cup {s \in created' : ~Held(s)'}

Running == mainPc = "running"

Init ==  \* main has built the CServer, which has called start_accept
  /\ \E s \in Sessions : created = {s} /\ accepting = s
  /\ _session = {} /\ reading = {}
  /\ writing = [s \in Sessions |-> "none"]
  /\ unsent = [s \in Sessions |-> 0]
  /\ nodes = <<>> /\ replied = FALSE /\ posts = 0
  /\ broken = {} /\ closed = {} /\ failed = {} /\ destroyed = {}
  /\ mainPc = "running"

-----------------------------------------------------------------------------
(* CServer::handle_accept, which ends with start_accept on a new session.  *)
(* Bound: accepting stops when Sessions is used up.                        *)

start_accept ==
  \E s \in Sessions \ created : created' = created \cup {s} /\ accepting' = s

AcceptOk ==
  /\ Running
  /\ reading' = reading \cup {accepting}     \* Start
  /\ _session' = _session \cup {accepting}
  /\ start_accept
  /\ UNCHANGED <<broken, closed, sendVars, logicVars, mainPc>>
  /\ Release

AcceptFails ==
  /\ Running
  /\ start_accept
  /\ UNCHANGED <<_session, reading, broken, closed, sendVars, logicVars, mainPc>>
  /\ Release

PeerEnds(s) ==
  /\ s \in reading \/ Writing(s)
  /\ s \notin broken
  /\ broken' = broken \cup {s}
  /\ UNCHANGED <<created, accepting, _session, reading, closed>>
  /\ UNCHANGED <<sendVars, logicVars, destroyed, mainPc>>

-----------------------------------------------------------------------------
(* CSession::HandleRead.                                                   *)

\* Fault: the session stays in the map.
ClearSessionNot(s) == UNCHANGED _session

ClearSession(s) == _session' = _session \ {s}

ReadChunk(s, k) ==  \* k frames are complete; the next read is started
  /\ Running
  /\ s \in reading
  /\ posts + k <= MaxNodes
  /\ nodes' = nodes \o [i \in 1..k |-> s]
  /\ posts' = posts + k
  /\ UNCHANGED <<connVars, sendVars, replied, destroyed, mainPc>>

EndRead(s) ==
  /\ Running
  /\ s \in reading
  /\ reading' = reading \ {s}
  /\ ClearSession(s)
  /\ UNCHANGED <<created, accepting, broken, sendVars, logicVars, mainPc>>

ReadRejects(s) ==  \* the id or the length is over MAX_LENGTH
  /\ EndRead(s)
  /\ UNCHANGED closed
  /\ Release

ReadFails(s) ==  \* Close, ClearSession
  /\ s \in broken
  /\ EndRead(s)
  /\ closed' = closed \cup {s}
  /\ Release

-----------------------------------------------------------------------------
(* The worker thread: CSession::Send from the callback, then the pop.      *)

Push(s) == unsent' = [unsent EXCEPT ![s] = @ + 1]

StartIfFirst(s) ==
  writing' = IF unsent[s] = 0 /\ Running THEN [writing EXCEPT ![s] = "pending"] ELSE writing

Callback ==  \* after Unwind the Send would use a destroyed io_context
  /\ nodes # <<>> /\ ~replied
  /\ replied' = TRUE
  /\ Push(Head(nodes)) /\ StartIfFirst(Head(nodes))
  /\ UNCHANGED <<connVars, failed, nodes, posts, destroyed, mainPc>>

Pop ==  \* after the callback, or without one when the id is not registered
  /\ nodes # <<>>
  /\ nodes' = Tail(nodes)
  /\ replied' = FALSE
  /\ UNCHANGED <<connVars, sendVars, posts, mainPc>>
  /\ Release

-----------------------------------------------------------------------------
(* A send completes, with an error only on a connection that has ended and *)
(* always after Close; then CSession::HandleWrite runs.                    *)

SendCompletes(s, result) ==
  /\ Running
  /\ writing[s] = "pending"
  /\ \/ result = "ok" /\ s \notin closed
     \/ result = "error" /\ s \in broken
  /\ writing' = [writing EXCEPT ![s] = result]
  /\ UNCHANGED <<connVars, unsent, failed, logicVars, destroyed, mainPc>>

NextWrite(s) ==
  writing' = [writing EXCEPT ![s] = IF unsent'[s] > 0 THEN "pending" ELSE "none"]

WriteOk(s) ==
  /\ Running
  /\ writing[s] = "ok"
  /\ unsent' = [unsent EXCEPT ![s] = @ - 1]
  /\ NextWrite(s)
  /\ UNCHANGED <<connVars, failed, logicVars, mainPc>>
  /\ Release

WriteFails(s) ==  \* the queue keeps its nodes, so no Send starts a write again
  /\ Running
  /\ writing[s] = "error"
  /\ writing' = [writing EXCEPT ![s] = "none"]
  /\ failed' = failed \cup {s}
  /\ ClearSession(s)
  /\ UNCHANGED <<created, accepting, reading, broken, closed, unsent, logicVars, mainPc>>
  /\ Release

-----------------------------------------------------------------------------
(* SIGINT or SIGTERM: ioc.stop(), run() returns, and main destroys the     *)
(* server (acceptor and map) and the io_context with every pending         *)
(* handler.  LogicSystem, a static, is destroyed later.                    *)

Unwind ==
  /\ Running
  /\ mainPc' = "unwound"
  /\ accepting' = NoSession
  /\ _session' = {} /\ reading' = {}
  /\ writing' = [s \in Sessions |-> "none"]
  /\ UNCHANGED <<created, broken, closed, unsent, failed, logicVars>>
  /\ Release

HandleRead(s) == (\E k \in 1..2 : ReadChunk(s, k)) \/ ReadRejects(s) \/ ReadFails(s)
Kernel(s) == \E result \in {"ok", "error"} : SendCompletes(s, result)
HandleWrite(s) == WriteOk(s) \/ WriteFails(s)

Next ==
  \/ AcceptOk \/ AcceptFails
  \/ \E s \in Sessions : PeerEnds(s) \/ Kernel(s) \/ HandleRead(s) \/ HandleWrite(s)
  \/ Callback \/ Pop
  \/ Unwind

Spec == Init /\ [][Next]_vars

(* The io_context delivers the end of a connection and the completion of a *)
(* send, and the worker runs, however busy other sessions are.             *)
Fairness ==
  /\ \A s \in Sessions :
       WF_vars(ReadFails(s)) /\ WF_vars(Kernel(s)) /\ WF_vars(HandleWrite(s))
  /\ WF_vars(Pop)

FairSpec == Spec /\ Fairness

-----------------------------------------------------------------------------
(* Every variable stays in its domain. *)
TypeOK ==
  /\ created \subseteq Sessions
  /\ accepting \in Sessions \cup {NoSession}
  /\ _session \subseteq created /\ reading \subseteq created
  /\ writing \in [Sessions -> {"none", "pending", "ok", "error"}]
  /\ unsent \in [Sessions -> 0..MaxNodes]
  /\ nodes \in Seq(created)
  /\ replied \in BOOLEAN
  /\ posts \in 0..MaxNodes
  /\ broken \subseteq created /\ closed \subseteq broken
  /\ failed \subseteq broken /\ destroyed \subseteq created
  /\ mainPc \in {"running", "unwound"}

(* The server's map is exact: while main runs, it holds the sessions that  *)
(* still read from their peer, except those whose write has failed.        *)
MapExact == Running => _session = reading \ failed

(* The comment at CServer.cpp:27: a session is not released before its     *)
(* logic is done.  Nothing still refers to a destroyed session: no read,   *)
(* no write, no LogicNode, not the map; and none is destroyed twice over.  *)
NoUseAfterRelease ==
  \A s \in destroyed :
    /\ s \notin reading \cup _session /\ s # accepting
    /\ ~Writing(s) /\ ~InSeq(s, nodes)

(* A reply is being written whenever there is one to write and the session *)
(* has not failed.                                                         *)
WritesGoOn ==
  Running => \A s \in created : unsent[s] > 0 <=> Writing(s) \/ s \in failed

(* Map, pending operations and queue of every session agree. *)
Consistent == TypeOK /\ MapExact /\ WritesGoOn

(* No session leaks: once its connection has ended, every owner lets go of *)
(* it and it is destroyed.                                                 *)
Released == \A s \in Sessions : s \in broken ~> s \in destroyed
=============================================================================
