---------------------------- MODULE IOContextPool ----------------------------
(***************************************************************************)
(* AsioIOContextPool and the main function of IOContextPoolServer: Size    *)
(* io_contexts, each with a work object that keeps its run() from          *)
(* returning and a thread that calls run(); the signal handler that stops  *)
(* them; and what the static destruction of the pool finds.                *)
(*                                                                         *)
(* The main thread builds the pool, serves on an io_context of its own     *)
(* and runs Stop in its signal handler.  GetIOContext has no lock, and     *)
(* here it is the main thread that calls it and starts operations on what  *)
(* it returns; the servers of this repository never do.                    *)
(***************************************************************************)
EXTENDS Integers

CONSTANTS
  Size,    \* hardware_concurrency()
  MaxOps   \* bound: asynchronous operations started on each context

ConstantsOK == Size \in Nat \ {0} /\ MaxOps \in Nat

Contexts == 0..Size - 1
NoWork == -1

VARIABLES
  _works,            \* per work object: the context it counts for, or NoWork
  _threads,          \* per context: its thread, see ThreadStates
  _next_io_context,
  stopped,           \* contexts on which stop() was called
  ops,               \* per context: operations started and not completed
  ready,             \* per context: handlers of completed operations, not run
  handed,            \* history: how often GetIOContext returned each context
  mainPc,            \* what the main thread is doing, see MainPcs
  i                  \* its loop variable

poolVars == <<_works, _threads, _next_io_context, stopped>>
userVars == <<ops, ready, handed>>
vars == <<poolVars, userVars, mainPc, i>>

ThreadStates == {"none", "started", "running", "returned", "joined"}
MainPcs == {"works", "threads", "serving", "stopping", "joining", "unwinding",
            "exited", "aborted"}

Joinable(c) == _threads[c] \notin {"none", "joined"}

Init ==
  /\ _works = [c \in Contexts |-> NoWork]
  /\ _threads = [c \in Contexts |-> "none"]
  /\ _next_io_context = 0
  /\ stopped = {}
  /\ ops = [c \in Contexts |-> 0]
  /\ ready = [c \in Contexts |-> 0]
  /\ handed = [c \in Contexts |-> 0]
  /\ mainPc = "works" /\ i = 0

\* A loop over the contexts: the body for one of them, or the next statement.
Loop(pc, next) ==
  /\ mainPc = pc
  /\ IF i + 1 < Size
       THEN i' = i + 1 /\ UNCHANGED mainPc
       ELSE i' = 0 /\ mainPc' = next

-----------------------------------------------------------------------------
(* The constructor.                                                        *)

\* Fault: every work object is made for the first context.
MakeWorkFirst ==
  /\ Loop("works", "threads")
  /\ _works' = [_works EXCEPT ![i] = 0]
  /\ UNCHANGED <<_threads, _next_io_context, stopped, userVars>>

MakeWork ==
  /\ Loop("works", "threads")
  /\ _works' = [_works EXCEPT ![i] = i]
  /\ UNCHANGED <<_threads, _next_io_context, stopped, userVars>>

StartThread ==
  /\ Loop("threads", "serving")
  /\ _threads' = [_threads EXCEPT ![i] = "started"]
  /\ UNCHANGED <<_works, _next_io_context, stopped, userVars>>

\* std::thread throws: the vector of threads is destroyed with those started.
StartThreadFails ==
  /\ mainPc = "threads"
  /\ mainPc' = IF \E c \in Contexts : Joinable(c) THEN "aborted" ELSE "exited"
  /\ UNCHANGED <<poolVars, userVars, i>>

-----------------------------------------------------------------------------
(* GetIOContext and its caller.                                            *)

\* Fault: the last context is left out.
NextIndexEarly(n) == IF n + 1 >= Size - 1 THEN 0 ELSE n + 1

NextIndex(n) == IF n + 1 = Size THEN 0 ELSE n + 1

GetIOContext ==  \* and an operation is started on the context
  /\ mainPc = "serving"
  /\ LET c == _next_io_context IN
       /\ handed[c] < MaxOps
       /\ ops' = [ops EXCEPT ![c] = @ + 1]
       /\ handed' = [handed EXCEPT ![c] = @ + 1]
  /\ _next_io_context' = NextIndex(_next_io_context)
  /\ UNCHANGED <<_works, _threads, stopped, ready, mainPc, i>>

Complete(c) ==  \* its event happens; it need not
  /\ ops[c] > 0
  /\ ops' = [ops EXCEPT ![c] = @ - 1]
  /\ ready' = [ready EXCEPT ![c] = @ + 1]
  /\ UNCHANGED <<poolVars, handed, mainPc, i>>

-----------------------------------------------------------------------------
(* The thread of a context: io_context::run.                               *)

ProcessLives == mainPc \notin {"exited", "aborted"}

Run(c) ==
  /\ ProcessLives
  /\ _threads[c] = "started"
  /\ _threads' = [_threads EXCEPT ![c] = "running"]
  /\ UNCHANGED <<_works, _next_io_context, stopped, userVars, mainPc, i>>

RunHandler(c) ==
  /\ ProcessLives
  /\ _threads[c] = "running" /\ c \notin stopped
  /\ ready[c] > 0
  /\ ready' = [ready EXCEPT ![c] = @ - 1]
  /\ UNCHANGED <<poolVars, ops, handed, mainPc, i>>

HasWork(c) == ops[c] + ready[c] > 0 \/ \E w \in Contexts : _works[w] = c

Return(c) ==
  /\ ProcessLives
  /\ _threads[c] = "running"
  /\ c \in stopped \/ ~HasWork(c)
  /\ _threads' = [_threads EXCEPT ![c] = "returned"]
  /\ UNCHANGED <<_works, _next_io_context, stopped, userVars, mainPc, i>>

-----------------------------------------------------------------------------
(* main: a signal, or an exception on the way to ioc.run(), ends serving.  *)

Signal ==
  /\ mainPc = "serving"
  /\ mainPc' = "stopping"
  /\ UNCHANGED <<poolVars, userVars, i>>

\* Fault: the work is destroyed, the context not stopped.
StopContextResetOnly ==
  /\ Loop("stopping", "joining")
  /\ _works' = [_works EXCEPT ![i] = NoWork]
  /\ UNCHANGED <<_threads, _next_io_context, stopped, userVars>>

StopContext ==
  /\ Loop("stopping", "joining")
  /\ stopped' = stopped \cup {_works[i]}
  /\ _works' = [_works EXCEPT ![i] = NoWork]
  /\ UNCHANGED <<_threads, _next_io_context, userVars>>

Join ==
  /\ _threads[i] = "returned"
  /\ Loop("joining", "unwinding")
  /\ _threads' = [_threads EXCEPT ![i] = "joined"]
  /\ UNCHANGED <<_works, _next_io_context, stopped, userVars>>

ServingThrows ==  \* caught in main, after which main returns
  /\ mainPc = "serving"
  /\ mainPc' = "unwinding"
  /\ UNCHANGED <<poolVars, userVars, i>>

\* ~AsioIOContextPool does nothing, and then its members are destroyed.
DestroyPool ==
  /\ mainPc = "unwinding"
  /\ mainPc' = IF \E c \in Contexts : Joinable(c) THEN "aborted" ELSE "exited"
  /\ UNCHANGED <<poolVars, userVars, i>>

Construct == MakeWork \/ StartThread \/ StartThreadFails
Shutdown == StopContext \/ Join \/ DestroyPool
Thread(c) == Run(c) \/ RunHandler(c) \/ Return(c)

Next ==
  \/ Construct \/ GetIOContext \/ Signal \/ ServingThrows \/ Shutdown
  \/ \E c \in Contexts : Complete(c) \/ Thread(c)

Spec == Init /\ [][Next]_vars

(* Every runnable thread is run.  Operations need not complete, and        *)
(* nothing need stop the server.                                           *)
Fairness ==
  /\ WF_vars(Construct) /\ WF_vars(Shutdown)
  /\ \A c \in Contexts : WF_vars(Thread(c))

FairSpec == Spec /\ Fairness

-----------------------------------------------------------------------------
(* Every variable stays in its domain; in particular the next index is     *)
(* that of a context.                                                      *)
TypeOK ==
  /\ _works \in [Contexts -> Contexts \cup {NoWork}]
  /\ _threads \in [Contexts -> ThreadStates]
  /\ _next_io_context \in Contexts
  /\ stopped \subseteq Contexts
  /\ ops \in [Contexts -> Nat]
  /\ ready \in [Contexts -> Nat]
  /\ handed \in [Contexts -> Nat]
  /\ mainPc \in MainPcs
  /\ i \in Contexts

(* README.md:4-8 of IOContextPoolServer: the work objects keep every       *)
(* io_context from ending early.  A thread leaves run() only after the     *)
(* stop of its context, whatever is outstanding on it at any time.         *)
NoEarlyReturn ==
  \A c \in Contexts : _threads[c] \in {"returned", "joined"} => c \in stopped

(* The contexts are handed out in turn: none is two calls ahead of any     *)
(* other, and the first ones are ahead.                                    *)
SpreadEvenly ==
  \A c, d \in Contexts : c < d => handed[c] - handed[d] \in {0, 1}

(* GetIOContext, across all its calls: it indexes a context that exists,   *)
(* and takes each in its turn.                                             *)
Consistent == TypeOK /\ SpreadEvenly

(* The comment at AsioIOContextPool.cpp:15-16: destroying the work object  *)
(* is not enough, the io_context is stopped by hand.  So Stop and the exit *)
(* after it end, even with operations that never complete.                 *)
StopReturns == (mainPc = "stopping") ~> (mainPc = "exited")
=============================================================================
