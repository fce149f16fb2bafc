--------------------------- MODULE MCIOContextPool ---------------------------
(* IOContextPoolServer has the owners of ServerLifetime and a pool, which  *)
(* share no variable.  In a run of PoolSpec the pool takes the steps: the  *)
(* operations of its users are IOContextPool's own, whatever their session. *)
EXTENDS ServerLifetime

CONSTANTS Size, MaxOps

VARIABLES _works, _threads, _next_io_context, stopped, ops, ready, handed, poolPc, loop

Pool == INSTANCE IOContextPool WITH mainPc <- poolPc, i <- loop

ASSUME PoolConstantsOK == Pool!ConstantsOK

PoolSpec ==
  /\ Init /\ Pool!Init
  /\ [][Pool!Next /\ UNCHANGED vars]_<<vars, Pool!vars>>
  /\ Pool!Fairness

(* GetIOContext, across all its calls: it indexes a context that exists,   *)
(* and takes each in its turn.                                             *)
PoolConsistent == Pool!Consistent

(* README.md:4-8 of IOContextPoolServer: a thread leaves run() only after  *)
(* the stop of its context, whatever is outstanding on it.                 *)
NoEarlyReturn == Pool!NoEarlyReturn

(* AsioIOContextPool.cpp:15-16: Stop and the exit after it end, even with  *)
(* operations that never complete.                                         *)
StopReturns == Pool!StopReturns
=============================================================================
