------------------------------ MODULE SendQueue ------------------------------
(***************************************************************************)
(* The sending half of a session (CSession of LogicServer; Session of      *)
(* AsyncEchoServer2 and JsonServer, CSession of the two pool servers have  *)
(* the same code).  Any thread calls Send; the thread that runs the        *)
(* io_context runs HandleWrite when an async_send has completed, and       *)
(* Close when a read has failed.                                           *)
(*                                                                         *)
(* Send and the success branch of HandleWrite run under _send_lock, so     *)
(* each is one step.  An asynchronous send is three steps: its initiation  *)
(* (part of the step that calls async_send), its completion by the kernel, *)
(* and the run of its handler; Sends and Close happen in between.          *)
(***************************************************************************)
EXTENDS Naturals, Sequences

CONSTANTS
  Msgs,              \* frames; each is passed to Send at most once
  MAX_SENDQUE_SIZE,
  Partial            \* may async_send complete after a part of the frame?

ASSUME ConstantsOK == MAX_SENDQUE_SIZE \in Nat /\ Partial \in BOOLEAN

VARIABLES
  _send_queue,  \* frames accepted and not popped yet
  writes,       \* frames with an async_send in progress, oldest first
  completed,    \* completions whose HandleWrite has not run yet
  open,         \* _socket is open (as far as this side has not closed it)
  cleared,      \* HandleWrite has seen an error and called ClearSession
  wire,         \* history: frames handed to the kernel, in order
  cut,          \* history: those of wire of which only a part was sent
  accepted,     \* history: frames pushed by Send, in order
  refused       \* history: frames Send turned away

vars == <<_send_queue, writes, completed, open, cleared, wire, cut, accepted, refused>>
queueVars == <<_send_queue, accepted, refused>>
kernelVars == <<wire, cut>>

Completions == [node : Msgs, result : {"ok", "partial", "error"}]

InSeq(m, s) == \E i \in DOMAIN s : s[i] = m

Init ==
  /\ _send_queue = <<>>
  /\ writes = <<>>
  /\ completed = <<>>
  /\ open = TRUE
  /\ cleared = FALSE
  /\ wire = <<>>
  /\ cut = {}
  /\ accepted = <<>>
  /\ refused = {}

-----------------------------------------------------------------------------
(* Send: refuse when the queue is over its maximum, else push, and start a *)
(* write only when the queue was empty.  async_send on a closed socket is  *)
(* started too: it completes with an error.                                *)

\* Fault: one more than the code allows.
FullLate(q) == Len(q) > MAX_SENDQUE_SIZE + 1

Full(q) == Len(q) > MAX_SENDQUE_SIZE

\* Fault: every Send starts a write.
MustStartAlways(q) == TRUE

MustStart(q) == Len(q) = 0

\* Fault: back() in the place of front().
AsyncSendBack(q) == writes' = Append(writes, q[Len(q)])

AsyncSend(q) == writes' = Append(writes, Head(q))

Fresh(m) == ~InSeq(m, accepted) /\ m \notin refused

SendRefused(m) ==
  /\ Fresh(m)
  /\ Full(_send_queue)
  /\ refused' = refused \cup {m}
  /\ UNCHANGED <<_send_queue, writes, completed, open, cleared, kernelVars, accepted>>

SendAccepted(m) ==
  /\ Fresh(m)
  /\ ~Full(_send_queue)
  /\ _send_queue' = Append(_send_queue, m)
  /\ accepted' = Append(accepted, m)
  /\ IF MustStart(_send_queue) THEN AsyncSend(_send_queue') ELSE UNCHANGED writes
  /\ UNCHANGED <<completed, open, cleared, kernelVars, refused>>

-----------------------------------------------------------------------------
(* The kernel completes the oldest send in progress: all of the frame, a   *)
(* part of it, or an error; only an error once the socket is closed.       *)

Complete(result) ==
  /\ writes # <<>>
  /\ completed' = Append(completed, [node |-> Head(writes), result |-> result])
  /\ writes' = Tail(writes)

WriteDone ==
  /\ open
  /\ Complete("ok")
  /\ wire' = Append(wire, Head(writes))
  /\ UNCHANGED <<queueVars, open, cleared, cut>>

WritePartly ==
  /\ Partial /\ open
  /\ Complete("partial")
  /\ wire' = Append(wire, Head(writes))
  /\ cut' = cut \cup {Head(writes)}
  /\ UNCHANGED <<queueVars, open, cleared>>

WriteFails ==
  /\ Complete("error")
  /\ UNCHANGED <<queueVars, open, cleared, kernelVars>>

-----------------------------------------------------------------------------
(* HandleWrite: bytes_transferred is not looked at, so a partial send      *)
(* counts as a whole one.                                                  *)

\* Fault: the next write is not started.
ContinueNot(q) == UNCHANGED writes

Continue(q) == IF q # <<>> THEN AsyncSend(q) ELSE UNCHANGED writes

HandleWriteOk ==
  /\ completed # <<>> /\ Head(completed).result # "error"
  /\ completed' = Tail(completed)
  /\ _send_queue' = Tail(_send_queue)
  /\ Continue(_send_queue')
  /\ UNCHANGED <<open, cleared, kernelVars, accepted, refused>>

\* Fault: the error branch empties the queue, so a later Send starts a write.
HandleWriteErrorEmpties ==
  /\ completed # <<>> /\ Head(completed).result = "error"
  /\ completed' = Tail(completed)
  /\ cleared' = TRUE
  /\ _send_queue' = <<>>
  /\ UNCHANGED <<accepted, refused, writes, open, kernelVars>>

HandleWriteError ==  \* the queue keeps what it holds
  /\ completed # <<>> /\ Head(completed).result = "error"
  /\ completed' = Tail(completed)
  /\ cleared' = TRUE
  /\ UNCHANGED <<queueVars, writes, open, kernelVars>>

Close ==
  /\ open
  /\ open' = FALSE
  /\ UNCHANGED <<queueVars, writes, completed, cleared, kernelVars>>

Write == WriteDone \/ WritePartly \/ WriteFails
HandleWrite == HandleWriteOk \/ HandleWriteError

Next ==
  \/ \E m \in Msgs : SendAccepted(m) \/ SendRefused(m)
  \/ Write
  \/ HandleWrite
  \/ Close

Spec == Init /\ [][Next]_vars

(* The kernel completes every send (the peer reads, or the connection      *)
(* breaks) and a thread runs the io_context.                               *)
Fairness == WF_vars(Write) /\ WF_vars(HandleWrite)
FairSpec == Spec /\ Fairness

-----------------------------------------------------------------------------
(* Every variable stays in its domain; no frame is both accepted and       *)
(* refused.                                                                *)
TypeOK ==
  /\ _send_queue \in Seq(Msgs)
  /\ writes \in Seq(Msgs)
  /\ completed \in Seq(Completions)
  /\ open \in BOOLEAN
  /\ cleared \in BOOLEAN
  /\ wire \in Seq(Msgs)
  /\ cut \subseteq Msgs
  /\ accepted \in Seq(Msgs)
  /\ refused \subseteq {m \in Msgs : ~InSeq(m, accepted)}

(* The buffer of an async_send belongs to the node at the front of the     *)
(* queue: at most one send is in progress or awaiting its handler, the     *)
(* front node stays in place until that handler runs, and a queue with     *)
(* nodes in it is being written unless an error has ended the session.     *)
OneWriteInFlight ==
  /\ Len(writes) + Len(completed) <= 1
  /\ writes # <<>> => _send_queue # <<>> /\ Head(writes) = Head(_send_queue)
  /\ completed # <<>> => _send_queue # <<>> /\ Head(completed).node = Head(_send_queue)
  /\ _send_queue # <<>> /\ ~cleared => Len(writes) + Len(completed) = 1

\* 1 while the front node is in the kernel and its HandleWrite has not popped it.
Unpopped == IF completed # <<>> /\ Head(completed).result # "error" THEN 1 ELSE 0

(* What reaches the kernel is what Send accepted, in that order and with   *)
(* nothing skipped or repeated, and what has not reached it is still in    *)
(* the queue: nothing accepted disappears.                                 *)
InOrder ==
  /\ Len(accepted) = Len(wire) + Len(_send_queue) - Unpopped
  /\ \A i \in DOMAIN wire : wire[i] = accepted[i]
  /\ \A i \in DOMAIN _send_queue :
       _send_queue[i] = accepted[Len(accepted) - Len(_send_queue) + i]

(* The queue holds at most MAX_SENDQUE_SIZE + 1 nodes, whoever sends. *)
QueueBound == Len(_send_queue) <= MAX_SENDQUE_SIZE + 1

(* The queue is well typed and bounded, although the refusing branch of    *)
(* Send and the error branch of HandleWrite leave it as it is.             *)
Consistent == TypeOK /\ QueueBound

SilentStep == cleared => UNCHANGED <<writes, wire>>

(* After HandleWrite has seen an error, no later Send or handler starts a  *)
(* write, and nothing more reaches the kernel.                             *)
SilentAfterError == [][SilentStep]_vars

(* A frame Send accepted reaches the kernel, unless the connection ends.   *)
EventuallyWritten ==
  \A m \in Msgs : InSeq(m, accepted) ~> (InSeq(m, wire) \/ cleared)

Channel == INSTANCE FifoChannel
  WITH Items <- Msgs, sent <- accepted, delivered <- wire, broken <- cleared

(* The queue and its writes are a FIFO channel from Send to the kernel. *)
ImplementsChannel == Channel!Spec
=============================================================================
