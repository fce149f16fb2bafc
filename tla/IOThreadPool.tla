----------------------------- MODULE IOThreadPool -----------------------------
(***************************************************************************)
(* AsioIOThreadPool and the main function of IOThreadPoolServer: threads   *)
(* that are to run one io_context together, and how main stops them.  The  *)
(* pool is a static object; main and its signal handler hold references.   *)
(*                                                                         *)
(* The vector is built with Size default threads, which run nothing, and   *)
(* Size running ones are appended.  No work object is ever made, and no    *)
(* server starts anything on the pool's io_context, so its run() returns.  *)
(***************************************************************************)
EXTENDS Naturals

CONSTANT Size  \* hardware_concurrency()

Threads == 1..(2 * Size)

VARIABLES
  _threads,  \* per element of the vector: "default", or "absent" before it is
             \* appended, then "started", "returned", "joined"
  next,      \* the element main starts or joins next
  mainPc     \* "constructing" the pool, "serving", "stopping" in the handler,
             \* "returning", "destroying" the pool; "exited" or "aborted"

vars == <<_threads, next, mainPc>>

Over == mainPc \in {"exited", "aborted"}

Init ==
  /\ _threads = [t \in Threads |-> IF t <= Size THEN "default" ELSE "absent"]
  /\ next = Size + 1
  /\ mainPc = "constructing"

Become(t, state) == _threads' = [_threads EXCEPT ![t] = state]

emplace_back ==
  /\ mainPc = "constructing" /\ next \in Threads
  /\ Become(next, "started")
  /\ next' = next + 1
  /\ UNCHANGED mainPc

StartFails ==  \* std::thread throws: the vector is destroyed, the others joinable
  /\ mainPc = "constructing" /\ next \in Threads
  /\ mainPc' = IF next > Size + 1 THEN "aborted" ELSE "exited"
  /\ UNCHANGED <<_threads, next>>

Serve ==  \* the pool is complete: the signals, the server, ioc.run()
  /\ mainPc = "constructing" /\ next \notin Threads
  /\ mainPc' = "serving"
  /\ UNCHANGED <<_threads, next>>

run(t) ==  \* of the io_context: there is nothing to do and nothing to wait for
  /\ ~Over /\ _threads[t] = "started"
  /\ Become(t, "returned")
  /\ UNCHANGED <<next, mainPc>>

Signal ==
  /\ mainPc = "serving"
  /\ mainPc' = "stopping"
  /\ next' = 1
  /\ UNCHANGED _threads

ServingThrows ==  \* caught in main
  /\ mainPc = "serving"
  /\ mainPc' = "returning"
  /\ UNCHANGED <<_threads, next>>

-----------------------------------------------------------------------------
(* Stop, called by the signal handler and again by the destructor.         *)

Stopping == mainPc \in {"stopping", "destroying"}

JoinOne ==
  /\ Stopping /\ next \in Threads
  /\ _threads[next] = "returned"
  /\ Become(next, "joined")
  /\ next' = next + 1
  /\ UNCHANGED mainPc

\* A thread that cannot be joined: main catches what the signal handler
\* throws, but nothing may leave a destructor.
JoinThrows ==
  /\ Stopping /\ next \in Threads
  /\ _threads[next] \in {"default", "joined"}
  /\ mainPc' = IF mainPc = "stopping" THEN "returning" ELSE "aborted"
  /\ UNCHANGED <<_threads, next>>

StopReturns ==
  /\ Stopping /\ next \notin Threads
  /\ mainPc' = IF mainPc = "stopping" THEN "returning" ELSE "exited"
  /\ UNCHANGED <<_threads, next>>

Destroy ==  \* the static instance goes when main has returned
  /\ mainPc = "returning"
  /\ mainPc' = "destroying"
  /\ next' = 1
  /\ UNCHANGED _threads

Next ==
  \/ emplace_back \/ StartFails \/ Serve \/ Signal \/ ServingThrows
  \/ JoinOne \/ JoinThrows \/ StopReturns \/ Destroy
  \/ \E t \in Threads : run(t)

Spec == Init /\ [][Next]_vars

(* Both kinds of thread run; nothing need stop the server. *)
FairSpec ==
  /\ Spec
  /\ WF_vars(emplace_back \/ Serve)
  /\ WF_vars(JoinOne \/ JoinThrows \/ StopReturns \/ Destroy)
  /\ \A t \in Threads : WF_vars(run(t))

-----------------------------------------------------------------------------
(* "Graceful exit" (IOThreadPoolServer/README.md:8): a signal leads to the *)
(* end of the process through main and the destructors.  It does not: the  *)
(* first thread Stop joins is a default one.                               *)
GracefulExit == (mainPc = "stopping") ~> (mainPc = "exited")
=============================================================================
