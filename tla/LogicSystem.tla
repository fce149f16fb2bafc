----------------------------- MODULE LogicSystem -----------------------------
(***************************************************************************)
(* The logic layer shared by LogicServer, IOContextPoolServer and          *)
(* IOThreadPoolServer: a queue of LogicNodes filled by the threads that    *)
(* run the sessions' read handlers (PostMsg2Que) and emptied by one worker *)
(* thread (DealMsg), and the destructor that stops the worker at exit.     *)
(*                                                                         *)
(* The worker is modelled at the grain of its shared accesses.  _mutex is  *)
(* held exactly while workerPc is in HoldsMutex; _b_stop is read twice by  *)
(* the worker and written by the destructor without the mutex.  A poster's *)
(* critical section touches only state the mutex guards, so it is one      *)
(* step; its notify_one, which the code issues after unlocking, is         *)
(* another.  Init is the state the constructor leaves behind.              *)
(***************************************************************************)
EXTENDS Naturals, Sequences, FiniteSets

CONSTANTS
  Posters,     \* threads that call PostMsg2Que
  Nodes,       \* LogicNodes; each is posted at most once
  Registered,  \* nodes whose _msg_id is a key of _func_callbacks
  Throwing     \* registered nodes whose body makes the callback throw

ASSUME ConstantsOK == Registered \subseteq Nodes /\ Throwing \subseteq Registered

VARIABLES
  _msg_que,   \* the queue of LogicNodes
  _b_stop,    \* the stop flag
  notifying,  \* posters between unlock() and notify_one()
  workerPc,   \* where the worker thread is in DealMsg
  mainPc,     \* where the exiting main thread is in ~LogicSystem
  posted,     \* history: the nodes pushed, in the order of the pushes
  handled     \* history: the nodes given to their callback, in order

vars == <<_msg_que, _b_stop, notifying, workerPc, mainPc, posted, handled>>

HoldsMutex == {"test", "enter", "check", "dispatch", "drain"}
WorkerPcs == HoldsMutex \cup {"lock", "waiting", "reacquire", "done", "aborted"}
MainPcs == {"running", "stopping", "joining", "exited"}

InSeq(n, s) == \E i \in DOMAIN s : s[i] = n

Init ==
  /\ _msg_que = <<>>
  /\ _b_stop = FALSE
  /\ notifying = {}
  /\ workerPc = "lock"
  /\ mainPc = "running"
  /\ posted = <<>>
  /\ handled = <<>>

MutexFree == workerPc \notin HoldsMutex
Alive == workerPc # "aborted"      \* std::terminate has not ended the process

-----------------------------------------------------------------------------
(* PostMsg2Que: push under the mutex; notify_one only when the queue went  *)
(* from empty to one element, after the mutex has been released.           *)

\* Fault: the size is compared with the wrong number.
MustNotifyLate(q) == Len(q) = 2

MustNotify(q) == Len(q) = 1

\* Fault: a stack in the place of the queue.
PushFront(q, n) == <<n>> \o q

Push(q, n) == Append(q, n)

PostMsg2Que(t, n) ==
  /\ Alive /\ MutexFree
  /\ mainPc = "running"
  /\ t \notin notifying
  /\ ~InSeq(n, posted)
  /\ _msg_que' = Push(_msg_que, n)
  /\ posted' = Append(posted, n)
  /\ notifying' = IF MustNotify(_msg_que') THEN notifying \cup {t} ELSE notifying
  /\ UNCHANGED <<_b_stop, workerPc, mainPc, handled>>

\* Fault: the notification is left out.
WakeNobody == UNCHANGED workerPc

\* notify_one wakes the worker when it is blocked in wait, and is otherwise lost.
WakeWorker == workerPc' = IF workerPc = "waiting" THEN "reacquire" ELSE workerPc

Notify(t) ==
  /\ Alive
  /\ t \in notifying
  /\ notifying' = notifying \ {t}
  /\ WakeWorker
  /\ UNCHANGED <<_msg_que, _b_stop, mainPc, posted, handled>>

-----------------------------------------------------------------------------
(* DealMsg, the worker thread.                                             *)

WorkerAt(pc) == workerPc = pc
WorkerGo(pc) == workerPc' = pc
WorkerOnly == UNCHANGED <<_b_stop, notifying, mainPc, posted>>

\* Fault: if in the place of while, so a wakeup is taken for a message.
LockOnce ==
  /\ WorkerAt("lock") \/ WorkerAt("reacquire")
  /\ WorkerGo(IF WorkerAt("lock") THEN "test" ELSE "check")
  /\ WorkerOnly /\ UNCHANGED <<_msg_que, handled>>

Lock ==  \* line 32, and the mutex taken again inside wait
  /\ WorkerAt("lock") \/ WorkerAt("reacquire")
  /\ WorkerGo("test")
  /\ WorkerOnly /\ UNCHANGED <<_msg_que, handled>>

\* Fault: the stop flag is not part of the wait condition.
MustWaitNoStop == _msg_que = <<>>

MustWait == _msg_que = <<>> /\ ~_b_stop

TestPredicate ==  \* the condition of the while loop around wait
  /\ WorkerAt("test")
  /\ WorkerGo(IF MustWait THEN "enter" ELSE "check")
  /\ WorkerOnly /\ UNCHANGED <<_msg_que, handled>>

Wait ==  \* wait() releases the mutex and blocks in one step
  /\ WorkerAt("enter")
  /\ WorkerGo("waiting")
  /\ WorkerOnly /\ UNCHANGED <<_msg_que, handled>>

SpuriousWakeup ==  \* a condition variable may return without a notification
  /\ WorkerAt("waiting")
  /\ WorkerGo("reacquire")
  /\ WorkerOnly /\ UNCHANGED <<_msg_que, handled>>

RunCallback(n) == handled' = IF n \in Registered THEN Append(handled, n) ELSE handled

PopFront(n) == _msg_que' = Tail(_msg_que)  \* with or without a callback

\* Look the front node's id up; run its callback, if it has one; then pop.
TakeFront(next) ==
  LET n == Head(_msg_que) IN
  /\ n \notin Throwing
  /\ RunCallback(n)
  /\ PopFront(n)
  /\ WorkerGo(next)
  /\ WorkerOnly

StartDispatch ==  \* the flag may be set while the callback runs
  /\ WorkerAt("check") /\ ~_b_stop
  /\ WorkerGo("dispatch")
  /\ WorkerOnly /\ UNCHANGED <<_msg_que, handled>>

Dispatch ==  \* one node, then the mutex is released at the end of the iteration
  /\ WorkerAt("dispatch")
  /\ TakeFront("lock")

\* Fault: the stop is obeyed at once, without the drain.
StartDrainNot ==
  /\ WorkerAt("check") /\ _b_stop
  /\ WorkerGo("done")
  /\ WorkerOnly /\ UNCHANGED <<_msg_que, handled>>

StartDrain ==
  /\ WorkerAt("check") /\ _b_stop
  /\ WorkerGo("drain")
  /\ WorkerOnly /\ UNCHANGED <<_msg_que, handled>>

DrainOne ==
  /\ WorkerAt("drain") /\ _msg_que # <<>>
  /\ TakeFront("drain")

DrainEnd ==
  /\ WorkerAt("drain") /\ _msg_que = <<>>
  /\ WorkerGo("done")
  /\ WorkerOnly /\ UNCHANGED <<_msg_que, handled>>

CallbackThrows ==  \* nothing catches in the worker: std::terminate
  /\ WorkerAt("drain") \/ WorkerAt("dispatch")
  /\ _msg_que # <<>> /\ Head(_msg_que) \in Throwing
  /\ WorkerGo("aborted")
  /\ WorkerOnly /\ UNCHANGED <<_msg_que, handled>>

Worker ==
  \/ Lock \/ TestPredicate \/ Wait \/ StartDispatch \/ Dispatch
  \/ StartDrain \/ DrainOne \/ DrainEnd \/ CallbackThrows

-----------------------------------------------------------------------------
(* ~LogicSystem, run by the main thread when no handler runs any more:     *)
(* set the flag (without the mutex), notify_one, join.                     *)

SetStop ==
  /\ Alive
  /\ mainPc = "running" /\ notifying = {}
  /\ _b_stop' = TRUE
  /\ mainPc' = "stopping"
  /\ UNCHANGED <<_msg_que, notifying, workerPc, posted, handled>>

NotifyStop ==
  /\ Alive
  /\ mainPc = "stopping"
  /\ mainPc' = "joining"
  /\ WakeWorker
  /\ UNCHANGED <<_msg_que, _b_stop, notifying, posted, handled>>

Join ==
  /\ mainPc = "joining" /\ workerPc = "done"
  /\ mainPc' = "exited"
  /\ UNCHANGED <<_msg_que, _b_stop, notifying, workerPc, posted, handled>>

Next ==
  \/ \E t \in Posters, n \in Nodes : PostMsg2Que(t, n)
  \/ \E t \in Posters : Notify(t)
  \/ Worker
  \/ SpuriousWakeup
  \/ SetStop \/ NotifyStop \/ Join

Spec == Init /\ [][Next]_vars

(* The scheduler runs every runnable thread: a poster that owes a notify,  *)
(* the worker, and the destructor once entered.  Whether anything is       *)
(* posted, when the server is stopped and whether a wait wakes spuriously  *)
(* are up to the environment.                                              *)
Fairness ==
  /\ \A t \in Posters : WF_vars(Notify(t))
  /\ WF_vars(Worker)
  /\ WF_vars(NotifyStop) /\ WF_vars(Join)

FairSpec == Spec /\ Fairness

-----------------------------------------------------------------------------
(* Every variable stays in its domain; in particular only nodes with a     *)
(* registered id are given to a callback.                                  *)
TypeOK ==
  /\ _msg_que \in Seq(Nodes)
  /\ _b_stop \in BOOLEAN
  /\ notifying \subseteq Posters
  /\ workerPc \in WorkerPcs
  /\ mainPc \in MainPcs
  /\ posted \in Seq(Nodes)
  /\ handled \in Seq(Registered)

(* PostMsg2Que notifies only for the push that finds the queue empty; the  *)
(* worker still never sleeps on a queue that has nodes in it unless some   *)
(* poster is about to notify it.                                           *)
NoLostWakeup ==
  workerPc = "waiting" /\ _msg_que # <<>> => notifying # {}

(* front() and pop() are never called on an empty queue, however the       *)
(* worker came out of its wait: notified, spuriously or to stop.           *)
FrontExists ==
  workerPc = "dispatch" \/ (workerPc = "check" /\ ~_b_stop) => _msg_que # <<>>

(* DealMsg goes by what it finds: the state is well typed, and a node is   *)
(* there whenever it is about to take one.                                 *)
Consistent == TypeOK /\ FrontExists

(* When the worker thread has returned from DealMsg, the stop was asked    *)
(* for and no posted node was left behind in the queue.                    *)
StopDrains == workerPc = "done" => _b_stop /\ _msg_que = <<>>

(* Every posted node leaves the queue, unless a callback ends the process. *)
Processed ==
  \A n \in Nodes : InSeq(n, posted) ~> (~InSeq(n, _msg_que) \/ ~Alive)

(* A destructor that finds nodes still queued terminates.                  *)
BusyStopExits ==
  (mainPc = "stopping" /\ _msg_que # <<>>) ~> (mainPc = "exited" \/ ~Alive)

\* The nodes of s with a registered id, in order: its k-th one has k of them
\* up to and with itself.
RegisteredOf(s) ==
  LET I == {i \in DOMAIN s : s[i] \in Registered}
  IN [k \in 1..Cardinality(I) |->
       s[CHOOSE i \in I : Cardinality({j \in I : j <= i}) = k]]

Channel == INSTANCE FifoChannel
  WITH Items <- Registered,
       sent <- RegisteredOf(posted),
       delivered <- handled,
       broken <- workerPc \in {"done", "aborted"}

(* For nodes with a registered id the queue and its worker are a FIFO      *)
(* channel from the sessions to the callbacks, until the worker ends: each *)
(* is handled once, in posting order, across normal dispatch, unknown ids  *)
(* and the drain at stop.                                                  *)
ImplementsChannel == Channel!Spec

(* "Graceful exit" (README of LogicServer): once the destructor has begun, *)
(* the process exits.  It need not: see LogicSystem_stop.cfg.              *)
GracefulExit == (mainPc = "stopping") ~> (mainPc = "exited" \/ ~Alive)
=============================================================================
