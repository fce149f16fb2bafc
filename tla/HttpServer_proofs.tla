-------------------------- MODULE HttpServer_proofs --------------------------
(***************************************************************************)
(* What holds of HttpServer for any number of connections and any          *)
(* requests: the deadline covers every connection that waits for its peer, *)
(* no number is given twice, and HttpServer implements Exchanges.          *)
(*                                                                         *)
(* Where a connection is can be read off its operation, and the request,   *)
(* the response and what was sent follow it (InStage).  A connection that  *)
(* has an operation or a handler left either has its deadline ahead of it, *)
(* or was closed by it (Guarded).                                          *)
(***************************************************************************)
EXTENDS HttpServer, TLAPS, FiniteSetTheorems

Unread(c) == _request[c] = NoRequest /\ _response[c] = NoResponse

Answers(c) == _request[c] \in Requests /\ _response[c].for = _request[c]

InStage ==
  \A c \in Conns :
    /\ socket[c] = "none" => op[c] = "none" /\ timer[c] = "none" /\ Unread(c)
    /\ op[c] \in {"reading", "readFailed"} => Unread(c)
    /\ op[c] = "readOk" => _request[c] \in Requests /\ _response[c] = NoResponse
    /\ op[c] \in {"writing", "writeOk", "writeFailed"} => Answers(c)
    /\ c \in answered =>
         op[c] \in {"writeOk", "none"} /\ Answers(c) /\ socket[c] # "none"
    /\ op[c] = "writeOk" => c \in answered

Guarded ==
  \A c \in Conns : op[c] # "none" =>
    \/ timer[c] \in {"waiting", "expired"} /\ socket[c] = "open"
    \/ timer[c] = "done" /\ socket[c] = "closed" /\ op[c] \notin {"reading", "writing"}

Numbered == {c \in Conns : _response[c].number # 0}

CountExact ==
  /\ _response = [c \in Conns |-> _response[c]]
  /\ \A c \in Conns : _response[c].number \in 0..count
  /\ \A i \in 1..count : \E c \in Conns : _response[c].number = i
  /\ IsFiniteSet(Numbered) /\ Cardinality(Numbered) = count

IInv == TypeOK /\ InStage /\ Guarded /\ CountExact

-----------------------------------------------------------------------------
(* NoResponse is not for any request, and carries no number. *)
LEMMA NoResponseIs == NoResponse.for = NoRequest /\ NoResponse.number = 0
  BY DEF NoResponse

(* The initial state satisfies the inductive invariant. *)
LEMMA InitHolds == Init => IInv
<1> SUFFICES ASSUME Init PROVE IInv
  OBVIOUS
<1>1. TypeOK
  BY DEF Init, TypeOK, Ops, Timers
<1>2. InStage /\ Guarded
  BY DEF Init, InStage, Unread, Guarded
<1>3. CountExact
  <2>1. \A c \in Conns : _response[c].number = 0
    BY NoResponseIs DEF Init
  <2>2. Numbered = {}
    BY <2>1 DEF Numbered
  <2> QED
    BY <2>1, <2>2, FS_EmptySet DEF Init, CountExact
<1> QED
  BY <1>1, <1>2, <1>3 DEF IInv

(* The numbers given are not disturbed by a step that leaves the responses *)
(* and the counter alone.                                                  *)
LEMMA CountKept ==
  ASSUME CountExact, UNCHANGED <<_response, count>>
  PROVE  CountExact'
  BY DEF CountExact, Numbered

-----------------------------------------------------------------------------
(* A connection is accepted: its deadline is armed with its first read. *)
LEMMA AcceptKeeps == ASSUME IInv, NEW c \in Conns, Accept(c) PROVE IInv'
<1> USE DEF IInv, Accept, check_deadline
<1>1. TypeOK'
  BY DEF TypeOK, Ops, Timers
<1>2. InStage'
  BY DEF TypeOK, InStage, Unread, Answers
<1>3. Guarded'
  BY DEF TypeOK, Guarded
<1> QED
  BY <1>1, <1>2, <1>3, CountKept

(* The request, the end of the read, the end of the write, the clock. *)
LEMMA KernelKeeps ==
  ASSUME IInv, NEW c \in Conns,
         \/ \E r \in Requests : RequestArrives(c, r)
         \/ ReadFails(c) \/ ResponseSent(c) \/ WriteFails(c) \/ Expire(c)
  PROVE  IInv'
<1> USE DEF IInv
<1>1. CASE \E r \in Requests : RequestArrives(c, r)
  <2> USE <1>1 DEF RequestArrives
  <2>1. TypeOK'
    BY DEF TypeOK, Ops
  <2>2. InStage'
    BY DEF TypeOK, InStage, Unread, Answers
  <2>3. Guarded'
    BY DEF TypeOK, Guarded
  <2> QED
    BY <2>1, <2>2, <2>3, CountKept
<1>2. CASE ReadFails(c)
  <2> USE <1>2 DEF ReadFails
  <2>1. TypeOK'
    BY DEF TypeOK, Ops
  <2>2. InStage' /\ Guarded'
    BY DEF TypeOK, InStage, Unread, Answers, Guarded
  <2> QED
    BY <2>1, <2>2, CountKept
<1>3. CASE ResponseSent(c)
  <2> USE <1>3 DEF ResponseSent
  <2>1. TypeOK'
    BY DEF TypeOK, Ops
  <2>2. InStage' /\ Guarded'
    BY DEF TypeOK, InStage, Unread, Answers, Guarded
  <2> QED
    BY <2>1, <2>2, CountKept
<1>4. CASE WriteFails(c)
  <2> USE <1>4 DEF WriteFails
  <2>1. TypeOK'
    BY DEF TypeOK, Ops
  <2>2. InStage' /\ Guarded'
    BY DEF TypeOK, InStage, Unread, Answers, Guarded
  <2> QED
    BY <2>1, <2>2, CountKept
<1>5. CASE Expire(c)
  <2> USE <1>5 DEF Expire
  <2>1. TypeOK'
    BY DEF TypeOK, Timers
  <2>2. InStage' /\ Guarded'
    BY DEF TypeOK, InStage, Unread, Answers, Guarded
  <2> QED
    BY <2>1, <2>2, CountKept
<1> QED
  BY <1>1, <1>2, <1>3, <1>4, <1>5

-----------------------------------------------------------------------------
(* The deadline closes the socket and ends what was pending; when it was   *)
(* cancelled, the connection had nothing pending any more.                 *)
LEMMA DeadlineKeeps == ASSUME IInv, NEW c \in Conns, DeadlineHandler(c) PROVE IInv'
<1> USE DEF IInv, DeadlineHandler
<1>1. /\ Abort(op[c]) \in Ops \ {"reading", "writing"}
      /\ op[c] = "reading" => Abort(op[c]) = "readFailed"
      /\ op[c] = "writing" => Abort(op[c]) = "writeFailed"
      /\ op[c] \notin {"reading", "writing"} => Abort(op[c]) = op[c]
  BY DEF TypeOK, Abort, Ops
<1>2. op' \in [Conns -> Ops] /\ \A d \in Conns \ {c} : op'[d] = op[d] /\ socket'[d] = socket[d]
  BY <1>1 DEF TypeOK
<1>3. \/ op' = op /\ socket' = socket /\ op[c] = "none"
      \/ op'[c] = Abort(op[c]) /\ socket'[c] = "closed"
  BY DEF TypeOK, Guarded
<1>4. timer' \in [Conns -> Timers] /\ timer'[c] = "done"
      /\ \A d \in Conns \ {c} : timer'[d] = timer[d]
  BY DEF TypeOK, Timers
<1>5. socket[c] # "none"
  BY DEF InStage
<1>6. TypeOK'
  BY <1>2, <1>4 DEF TypeOK
<1>7. InStage'
  BY <1>1, <1>2, <1>3, <1>4, <1>5 DEF TypeOK, InStage, Unread, Answers
<1>8. Guarded'
  BY <1>1, <1>2, <1>3, <1>4 DEF TypeOK, Guarded
<1> QED
  BY <1>6, <1>7, <1>8, CountKept

(* The write handler ends the connection's last operation. *)
LEMMA WriteHandlerKeeps == ASSUME IInv, NEW c \in Conns, WriteHandler(c) PROVE IInv'
<1> USE DEF IInv, WriteHandler
<1>1. TypeOK'
  BY DEF TypeOK, Ops, Timers, cancel
<1>2. InStage'
  BY DEF TypeOK, InStage, Unread, Answers
<1>3. Guarded'
  BY DEF TypeOK, Guarded
<1> QED
  BY <1>1, <1>2, <1>3, CountKept

-----------------------------------------------------------------------------
(* What process_request leaves behind: a response to the request that was  *)
(* read, and for a /count page the next number.                            *)
LEMMA Responds ==
  ASSUME IInv, NEW c \in Conns, op[c] = "readOk", process_request(c)
  PROVE  /\ _request[c] \in Requests /\ _response[c] = NoResponse
         /\ _response' = [d \in Conns |-> _response'[d]]
         /\ \A d \in Conns \ {c} : _response'[d] = _response[d]
         /\ _response'[c].for = _request[c]
         /\ \/ count' = count + 1 /\ _response'[c].number = count + 1
            \/ count' = count /\ _response'[c].number = 0
         /\ op' = [op EXCEPT ![c] = IF socket[c] = "closed" THEN "writeFailed" ELSE "writing"]
         /\ process' = process
<1> DEFINE r == _request[c]
           new == [status |-> Reply(r)[1], content |-> Reply(r)[2],
                   number |-> IF Counted(r) THEN count' ELSE 0, for |-> r]
<1>1. /\ _response' = [_response EXCEPT ![c] = new]
      /\ IF Counted(r) THEN count' = count + 1 ELSE count' = count
      /\ op' = [op EXCEPT ![c] = IF socket[c] = "closed" THEN "writeFailed" ELSE "writing"]
      /\ process' = process
  BY DEF process_request, request_count, write_response
<1>2. new.number = (IF Counted(r) THEN count' ELSE 0) /\ new.for = r
  OBVIOUS
<1> HIDE DEF new, r
<1>3. /\ _response' = [d \in Conns |-> IF d = c THEN new ELSE _response[d]]
  BY <1>1 DEF IInv, CountExact
<1>4. _response'[c] = new /\ \A d \in Conns \ {c} : _response'[d] = _response[d]
  BY <1>3
<1>5. _response' = [d \in Conns |-> _response'[d]]
  BY <1>3
<1>6. _request[c] \in Requests /\ _response[c] = NoResponse
  BY DEF IInv, InStage
<1>7. \/ count' = count + 1 /\ _response'[c].number = count + 1
      \/ count' = count /\ _response'[c].number = 0
  BY <1>1, <1>2, <1>4
<1> QED
  BY <1>1, <1>2, <1>4, <1>5, <1>6, <1>7 DEF r

(* A /count page takes the next number, which nobody has. *)
LEMMA CountMoves ==
  ASSUME IInv, NEW c \in Conns, _response[c] = NoResponse,
         _response' = [d \in Conns |-> _response'[d]],
         \A d \in Conns \ {c} : _response'[d] = _response[d],
         \/ count' = count + 1 /\ _response'[c].number = count + 1
         \/ count' = count /\ _response'[c].number = 0
  PROVE  CountExact'
<1> USE DEF IInv
<1>0. count \in Nat /\ _response[c].number = 0
  BY NoResponseIs DEF TypeOK
<1>1. CASE count' = count + 1 /\ _response'[c].number = count + 1
  <2>1. Numbered' = Numbered \cup {c} /\ c \notin Numbered
    BY <1>0, <1>1 DEF Numbered
  <2>2. IsFiniteSet(Numbered') /\ Cardinality(Numbered') = count'
    BY <1>1, <2>1, FS_AddElement DEF CountExact
  <2>3. \A d \in Conns : _response'[d].number \in 0..count'
    BY <1>0, <1>1 DEF CountExact
  <2>4. \A i \in 1..count' : \E d \in Conns : _response'[d].number = i
    <3>1. ASSUME NEW i \in 1..count PROVE \E d \in Conns : _response'[d].number = i
      <4>1. PICK d \in Conns : _response[d].number = i
        BY DEF CountExact
      <4>2. d # c
        BY <1>0, <4>1
      <4> QED
        BY <4>1, <4>2
    <3> QED
      BY <3>1, <1>0, <1>1
  <2> QED
    BY <2>2, <2>3, <2>4 DEF CountExact
<1>2. CASE count' = count /\ _response'[c].number = 0
  <2>1. \A d \in Conns : _response'[d].number = _response[d].number
    BY <1>0, <1>2
  <2>2. Numbered' = Numbered
    BY <2>1 DEF Numbered
  <2> QED
    BY <1>2, <2>1, <2>2 DEF CountExact
<1> QED
  BY <1>1, <1>2

(* The read handler answers what was read, lets the connection go after an *)
(* error, or ends the process.                                             *)
LEMMA ReadHandlerKeeps == ASSUME IInv, NEW c \in Conns, ReadHandler(c) PROVE IInv'
<1> USE DEF IInv
<1>1. UNCHANGED <<accepting, timer, socket, _request, answered>>
  BY DEF ReadHandler
<1>2. CASE op[c] = "readOk" /\ process_request(c)
  <2>1. /\ _request[c] \in Requests /\ _response[c] = NoResponse
        /\ _response' = [d \in Conns |-> _response'[d]]
        /\ \A d \in Conns \ {c} : _response'[d] = _response[d]
        /\ _response'[c].for = _request[c]
        /\ \/ count' = count + 1 /\ _response'[c].number = count + 1
           \/ count' = count /\ _response'[c].number = 0
        /\ op' = [op EXCEPT ![c] = IF socket[c] = "closed" THEN "writeFailed" ELSE "writing"]
        /\ process' = process
    BY <1>2, Responds
  <2>2. CountExact'
    BY <2>1, CountMoves
  <2>3. TypeOK'
    BY <1>1, <2>1 DEF TypeOK, Ops
  <2>4. InStage'
    BY <1>1, <1>2, <2>1 DEF TypeOK, InStage, Unread, Answers
  <2>5. Guarded'
    BY <1>1, <1>2, <2>1 DEF TypeOK, Guarded
  <2> QED
    BY <2>2, <2>3, <2>4, <2>5
<1>3. CASE ProcessingThrows(c)
  <2> USE <1>1, <1>3 DEF ProcessingThrows
  <2>1. TypeOK'
    BY DEF TypeOK
  <2>2. InStage' /\ Guarded'
    BY DEF InStage, Unread, Answers, Guarded
  <2> QED
    BY <2>1, <2>2, CountKept
<1>4. CASE op[c] = "readFailed" /\ op' = [op EXCEPT ![c] = "none"]
           /\ UNCHANGED <<_response, count, process>>
  <2> USE <1>1, <1>4
  <2>1. TypeOK'
    BY DEF TypeOK, Ops
  <2>2. InStage' /\ Guarded'
    BY DEF TypeOK, InStage, Unread, Answers, Guarded
  <2> QED
    BY <2>1, <2>2, CountKept
<1> QED
  BY <1>2, <1>3, <1>4 DEF ReadHandler

-----------------------------------------------------------------------------
(* The invariant is inductive. *)
THEOREM Inductive == Spec => []IInv
<1>1. ASSUME IInv, Next PROVE IInv'
  <2>1. ASSUME NEW c \in Conns, Accept(c) PROVE IInv'
    BY <1>1, <2>1, AcceptKeeps
  <2>2. ASSUME NEW c \in Conns,
               \/ \E r \in Requests : RequestArrives(c, r)
               \/ ReadFails(c) \/ ResponseSent(c) \/ WriteFails(c) \/ Expire(c)
        PROVE  IInv'
    BY <1>1, <2>2, KernelKeeps
  <2>3. ASSUME NEW c \in Conns, Handlers(c) PROVE IInv'
    BY <1>1, <2>3, ReadHandlerKeeps, WriteHandlerKeeps, DeadlineKeeps DEF Handlers
  <2>4. CASE AcceptFails \/ RunReturns
    <3> USE <1>1, <2>4 DEF IInv, AcceptFails, RunReturns, connVars
    <3>1. TypeOK'
      BY DEF TypeOK
    <3>2. InStage' /\ Guarded'
      BY DEF InStage, Unread, Answers, Guarded
    <3> QED
      BY <3>1, <3>2, CountKept
  <2> QED
    BY <1>1, <2>1, <2>2, <2>3, <2>4 DEF Next
<1>2. ASSUME IInv, UNCHANGED vars PROVE IInv'
  BY <1>2, CountKept DEF vars, connVars, IInv, TypeOK, InStage, Unread, Answers, Guarded
<1> QED
  BY InitHolds, <1>1, <1>2, PTL DEF Spec

(* The deadline covers every connection that waits for its peer, and the   *)
(* /count pages carry the numbers 1 to count, each of them once.           *)
THEOREM ConsistentAlways == Spec => []Consistent
<1>1. ASSUME IInv PROVE DeadlineCovers
  BY <1>1 DEF IInv, Guarded, DeadlineCovers
<1>2. ASSUME IInv PROVE NumbersUnique
  <2>1. {_response[c].number : c \in Numbered} = 1..count
    BY <1>2 DEF IInv, TypeOK, CountExact, Numbered
  <2> QED
    BY <1>2, <2>1 DEF IInv, CountExact, Numbered, NumbersUnique
<1> QED
  BY Inductive, <1>1, <1>2, PTL DEF IInv, Consistent

-----------------------------------------------------------------------------
KeptOrDropped(c) ==
  \/ Status(c)' = Status(c)
  \/ Status(c) = "open" /\ Status(c)' = "dropped"

AnswerTo(c) == IF c \in answered THEN _response[c].for ELSE NoRequest

(* What the refinement mapping makes of a connection whose stage is known. *)
LEMMA StatusIs ==
  ASSUME IInv, NEW c \in Conns
  PROVE  /\ Status(c) \in {"free", "open", "answered", "dropped"}
         /\ Status(c) = "free" <=> socket[c] = "none"
         /\ Status(c) = "answered" <=> c \in answered
         /\ Running /\ op[c] \in {"reading", "writing"} => Status(c) = "open"
  BY DEF IInv, InStage, Guarded, Status, Lost

(* A step that gives no answer and takes no request, and whose connections *)
(* stay as they are or are dropped, is one Drop.                           *)
LEMMA OnlyDrops ==
  ASSUME UNCHANGED _request,
         \A c \in Conns : AnswerTo(c)' = AnswerTo(c),
         \A c \in Conns : KeptOrDropped(c)
  PROVE  Exchange!Next
<1> DEFINE S == {c \in Conns : Status(c)' # Status(c)}
<1>1. \A c \in S : Status(c) = "open" /\ Status(c)' = "dropped"
  BY DEF KeptOrDropped
<1>2. Exchange!Drop(S)
  BY <1>1 DEF Exchange!Drop, AnswerTo
<1> QED
  BY <1>2 DEF Exchange!Next

(* HttpServer implements Exchanges: a request is asked on an open          *)
(* connection, its answer is sent on the same one, and everything else     *)
(* that happens to a connection either opens it or drops it for good.      *)
THEOREM Implementation == Spec => ImplementsExchanges
<1>1. Init => Exchange!Init
  BY DEF Init, Exchange!Init, Status
<1>2. ASSUME IInv, IInv', [Next]_vars PROVE Exchange!Next \/ UNCHANGED Exchange!vars
  <2> USE <1>2
  <2>1. ASSUME NEW c \in Conns, Accept(c) PROVE Exchange!Next
    <3> USE <2>1 DEF Accept
    <3>1. c \notin answered
      BY DEF IInv, InStage
    <3>2. Status(c) = "free" /\ Status(c)' = "open"
      BY <3>1, StatusIs DEF IInv, TypeOK, Status, Lost, Running
    <3>3. \A d \in Conns \ {c} : Status(d)' = Status(d)
      BY DEF IInv, TypeOK, Status, Lost, Running
    <3>4. Exchange!Open(c)
      BY <3>2, <3>3 DEF Exchange!Open
    <3> QED
      BY <3>4 DEF Exchange!Next
  <2>2. ASSUME NEW c \in Conns, NEW r \in Requests, RequestArrives(c, r) PROVE Exchange!Next
    <3> USE <2>2 DEF RequestArrives
    <3>1. Status(c) = "open" /\ _request[c] = NoRequest
      BY StatusIs DEF IInv, InStage, Unread
    <3>2. Status(c)' = "open"
      BY <3>1, StatusIs DEF IInv, TypeOK, Status, Lost, Running
    <3>3. \A d \in Conns : Status(d)' = Status(d)
      BY <3>1, <3>2 DEF IInv, TypeOK, Status, Lost, Running
    <3>4. Exchange!Ask(c, r)
      BY <3>1, <3>3 DEF Exchange!Ask
    <3> QED
      BY <3>4 DEF Exchange!Next
  <2>3. ASSUME NEW c \in Conns, ResponseSent(c) PROVE Exchange!Next
    <3> USE <2>3 DEF ResponseSent
    <3>1. Status(c) = "open" /\ c \notin answered
      BY StatusIs
    <3>2. _request[c] # NoRequest /\ _response[c].for = _request[c]
      BY ConstantsOK DEF IInv, InStage, Answers
    <3>3. Status(c)' = "answered"
      BY <3>1, StatusIs DEF Status
    <3>4. \A d \in Conns \ {c} : Status(d)' = Status(d)
      BY DEF IInv, TypeOK, Status, Lost, Running
    <3>5. Exchange!Answer(c)
      BY <3>1, <3>2, <3>3, <3>4 DEF Exchange!Answer
    <3> QED
      BY <3>5 DEF Exchange!Next
  <2>4. ASSUME NEW c \in Conns, ReadFails(c) \/ WriteFails(c) \/ Expire(c)
        PROVE  Exchange!Next
    <3>1. UNCHANGED <<_request, answered, _response>>
      BY <2>4 DEF ReadFails, WriteFails, Expire
    <3>2. \A d \in Conns : KeptOrDropped(d)
      BY <2>4 DEF ReadFails, WriteFails, Expire, IInv, TypeOK, KeptOrDropped, Status, Lost, Running
    <3> QED
      BY <3>1, <3>2, OnlyDrops DEF AnswerTo
  <2>5. ASSUME NEW c \in Conns, ReadHandler(c) PROVE Exchange!Next
    <3>1. UNCHANGED <<_request, answered, socket>> /\ c \notin answered
      BY <2>5 DEF ReadHandler, IInv, InStage
    <3>2. \A d \in answered : _response'[d] = _response[d]
      BY <2>5, <3>1, Responds DEF ReadHandler, ProcessingThrows, IInv, TypeOK
    <3>3. \A d \in Conns : KeptOrDropped(d)
      BY <2>5, <3>1, Responds
         DEF ReadHandler, ProcessingThrows, IInv, TypeOK, KeptOrDropped, Status, Lost, Running
    <3> QED
      BY <3>1, <3>2, <3>3, OnlyDrops DEF AnswerTo
  <2>6. ASSUME NEW c \in Conns, WriteHandler(c) PROVE Exchange!Next
    <3> USE <2>6 DEF WriteHandler
    <3>1. c \in answered \/ op[c] = "writeFailed"
      BY DEF IInv, InStage
    <3>2. \A d \in Conns : Status(d)' = Status(d)
      BY <3>1 DEF IInv, TypeOK, InStage, Status, Lost, Running
    <3> QED
      BY <3>2, OnlyDrops DEF KeptOrDropped, AnswerTo
  <2>7. ASSUME NEW c \in Conns, DeadlineHandler(c) PROVE Exchange!Next
    <3> USE <2>7 DEF DeadlineHandler
    <3>1. socket[c] # "none"
      BY DEF IInv, InStage
    <3>2. \A d \in Conns : KeptOrDropped(d)
      BY <3>1 DEF IInv, TypeOK, KeptOrDropped, Status, Lost, Running
    <3> QED
      BY <3>2, OnlyDrops DEF AnswerTo
  <2>8. CASE AcceptFails \/ RunReturns
    <3>1. UNCHANGED connVars /\ (process' = process \/ ~Running')
      BY <2>8 DEF AcceptFails, RunReturns, connVars, Running
    <3>2. \A d \in Conns : KeptOrDropped(d)
      BY <3>1 DEF connVars, KeptOrDropped, Status, Lost, Running
    <3> QED
      BY <3>1, <3>2, OnlyDrops DEF connVars, AnswerTo
  <2>9. CASE UNCHANGED vars
    BY <2>9 DEF vars, connVars, Exchange!vars, Status, Lost, Running
  <2> QED
    BY <2>1, <2>2, <2>3, <2>4, <2>5, <2>6, <2>7, <2>8, <2>9 DEF Next, Handlers
<1> QED
  BY Inductive, <1>1, <1>2, PTL DEF Spec, ImplementsExchanges, Exchange!Spec

=============================================================================
