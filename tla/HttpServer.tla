----------------------------- MODULE HttpServer -----------------------------
(***************************************************************************)
(* BeastHttpServer: http_server accepts, and every http_connection reads   *)
(* one request, writes one response and is bounded by a 60 second timer.   *)
(*                                                                         *)
(* One thread runs the io_context, so a handler is one step; an operation  *)
(* that completes queues its handler, and handlers of other operations may *)
(* run first.  An http_connection has no owner but the handlers bound to   *)
(* it: it is destroyed, and its socket closed, with the last of them.      *)
(***************************************************************************)
EXTENDS Naturals, FiniteSets

CONSTANTS
  Conns,     \* http_connection objects; each is created once
  Requests,  \* what clients send: [verb, target, body]
  NoRequest

Verbs == {"get", "post", "other"}
Targets == {"/count", "/time", "/email", "/other"}
Bodies == {"email", "noJson", "noEmail"}  \* for "noEmail", asString throws

ASSUME ConstantsOK ==
  /\ Requests \subseteq [verb : Verbs, target : Targets, body : Bodies]
  /\ NoRequest \notin Requests

VARIABLES
  accepting,  \* an async_accept is pending
  op,         \* per connection: its async_read or async_write, see Ops
  timer,      \* per connection: its async_wait on _deadline, see Timers
  socket,     \* per connection: "none", "open", "shut" or "closed"
  _request,   \* per connection: the request read, or NoRequest
  _response,  \* per connection: the response built, or NoResponse
  answered,   \* connections whose response has been sent completely
  count,      \* the static counter of request_count
  process     \* "running", "returned" (run() has), "failed" (by exception)

connVars == <<op, timer, socket, _request, _response, answered>>
vars == <<accepting, connVars, count, process>>

\* "readOk" ... "writeFailed": completed, the handler is queued.
Ops == {"none", "reading", "readOk", "readFailed", "writing", "writeOk", "writeFailed"}
Timers == {"none", "waiting", "expired", "cancelled", "done"}

NoResponse == [status |-> "none", content |-> "none", number |-> 0, for |-> NoRequest]

Alive(c) == op[c] # "none" \/ timer[c] \in {"waiting", "expired", "cancelled"}
Running == process = "running"

Init ==
  /\ accepting = TRUE
  /\ op = [c \in Conns |-> "none"]
  /\ timer = [c \in Conns |-> "none"]
  /\ socket = [c \in Conns |-> "none"]
  /\ _request = [c \in Conns |-> NoRequest]
  /\ _response = [c \in Conns |-> NoResponse]
  /\ answered = {}
  /\ count = 0
  /\ process = "running"

-----------------------------------------------------------------------------
(* http_server: a connection is made, started, and the next one awaited.   *)
(* After an error nothing is accepted any more.                            *)

\* Fault: start does not arm the deadline.
no_check_deadline(c) == UNCHANGED timer

check_deadline(c) == timer' = [timer EXCEPT ![c] = "waiting"]

Accept(c) ==
  /\ Running /\ accepting
  /\ socket[c] = "none"
  /\ socket' = [socket EXCEPT ![c] = "open"]
  /\ op' = [op EXCEPT ![c] = "reading"]
  /\ check_deadline(c)
  /\ UNCHANGED <<accepting, _request, _response, answered, count, process>>

AcceptFails ==
  /\ Running /\ accepting
  /\ accepting' = FALSE
  /\ UNCHANGED <<connVars, count, process>>

RunReturns ==  \* io_context::run has nothing left to wait for
  /\ Running /\ ~accepting
  /\ \A c \in Conns : ~Alive(c)
  /\ process' = "returned"
  /\ UNCHANGED <<accepting, connVars, count>>

-----------------------------------------------------------------------------
(* The peer, the kernel and the clock.                                     *)

RequestArrives(c, r) ==
  /\ Running /\ op[c] = "reading"
  /\ op' = [op EXCEPT ![c] = "readOk"]
  /\ _request' = [_request EXCEPT ![c] = r]
  /\ UNCHANGED <<accepting, timer, socket, _response, answered, count, process>>

ReadFails(c) ==  \* the peer closes, or what it sent is no HTTP request
  /\ Running /\ op[c] = "reading"
  /\ op' = [op EXCEPT ![c] = "readFailed"]
  /\ UNCHANGED <<accepting, timer, socket, _request, _response, answered, count, process>>

ResponseSent(c) ==
  /\ Running /\ op[c] = "writing"
  /\ op' = [op EXCEPT ![c] = "writeOk"]
  /\ answered' = answered \cup {c}
  /\ UNCHANGED <<accepting, timer, socket, _request, _response, count, process>>

WriteFails(c) ==
  /\ Running /\ op[c] = "writing"
  /\ op' = [op EXCEPT ![c] = "writeFailed"]
  /\ UNCHANGED <<accepting, timer, socket, _request, _response, answered, count, process>>

Expire(c) ==
  /\ Running /\ timer[c] = "waiting"
  /\ timer' = [timer EXCEPT ![c] = "expired"]
  /\ UNCHANGED <<accepting, op, socket, _request, _response, answered, count, process>>

-----------------------------------------------------------------------------
(* The handlers.                                                           *)

\* close() makes a pending operation complete with an error; a completed
\* one keeps its result.
Abort(o) == CASE o = "reading" -> "readFailed"
              [] o = "writing" -> "writeFailed"
              [] OTHER -> o

\* Fault: the test of the error code is inverted.
DeadlineHandlerInverted(c) ==
  /\ Running
  /\ \/ /\ timer[c] = "cancelled"
        /\ socket' = [socket EXCEPT ![c] = "closed"]
        /\ op' = [op EXCEPT ![c] = Abort(@)]
     \/ timer[c] = "expired" /\ UNCHANGED <<socket, op>>
  /\ timer' = [timer EXCEPT ![c] = "done"]
  /\ UNCHANGED <<accepting, _request, _response, answered, count, process>>

DeadlineHandler(c) ==
  /\ Running
  /\ \/ /\ timer[c] = "expired"
        /\ socket' = [socket EXCEPT ![c] = "closed"]
        /\ op' = [op EXCEPT ![c] = Abort(@)]
     \/ timer[c] = "cancelled" /\ UNCHANGED <<socket, op>>
  /\ timer' = [timer EXCEPT ![c] = "done"]
  /\ UNCHANGED <<accepting, _request, _response, answered, count, process>>

Counted(r) == r.verb = "get" /\ r.target = "/count"
Throws(r) == r.verb = "post" /\ r.target = "/email" /\ r.body = "noEmail"

request_count == count' = count + 1

NotFound == <<"not_found", "File not found">>

create_response(r) ==
  CASE r.target = "/count" -> <<"ok", "count">>
    [] r.target = "/time" -> <<"ok", "time">>
    [] OTHER -> NotFound

create_post_response(r) ==
  CASE r.target = "/email" -> <<"ok", IF r.body = "noJson" THEN "error 1001" ELSE "email">>
    [] OTHER -> NotFound

Reply(r) ==
  CASE r.verb = "get" -> create_response(r)
    [] r.verb = "post" -> create_post_response(r)
    [] OTHER -> <<"bad_request", "Invalid request-method">>

write_response(c) ==  \* on a closed socket async_write completes with an error
  op' = [op EXCEPT ![c] = IF socket[c] = "closed" THEN "writeFailed" ELSE "writing"]

process_request(c) ==
  LET r == _request[c] IN
  /\ ~Throws(r)
  /\ IF Counted(r) THEN request_count ELSE UNCHANGED count
  /\ _response' = [_response EXCEPT ![c] =
       [status |-> Reply(r)[1], content |-> Reply(r)[2],
        number |-> IF Counted(r) THEN count' ELSE 0, for |-> r]]
  /\ write_response(c)
  /\ UNCHANGED process

\* Nothing catches the exception before main: run() is left for good.
ProcessingThrows(c) ==
  /\ Throws(_request[c])
  /\ process' = "failed"
  /\ UNCHANGED <<op, _response, count>>

ReadHandler(c) ==
  /\ Running
  /\ \/ op[c] = "readOk" /\ (process_request(c) \/ ProcessingThrows(c))
     \/ /\ op[c] = "readFailed"      \* nothing is done, the timer runs on
        /\ op' = [op EXCEPT ![c] = "none"]
        /\ UNCHANGED <<_response, count, process>>
  /\ UNCHANGED <<accepting, timer, socket, _request, answered>>

cancel(t) == IF t = "waiting" THEN "cancelled" ELSE t  \* too late when expired

\* Fault: the next request is read on the same connection.
WriteHandlerReadsOn(c) ==
  /\ Running
  /\ op[c] \in {"writeOk", "writeFailed"}
  /\ op' = [op EXCEPT ![c] = "reading"]
  /\ UNCHANGED <<accepting, timer, socket, _request, _response, answered, count, process>>

WriteHandler(c) ==  \* for a write that failed, too
  /\ Running
  /\ op[c] \in {"writeOk", "writeFailed"}
  /\ op' = [op EXCEPT ![c] = "none"]
  /\ socket' = [socket EXCEPT ![c] = IF @ = "open" THEN "shut" ELSE @]
  /\ timer' = [timer EXCEPT ![c] = cancel(@)]
  /\ UNCHANGED <<accepting, _request, _response, answered, count, process>>

Handlers(c) == ReadHandler(c) \/ WriteHandler(c) \/ DeadlineHandler(c)

Next ==
  \/ \E c \in Conns :
       \/ Accept(c)
       \/ \E r \in Requests : RequestArrives(c, r)
       \/ ReadFails(c) \/ ResponseSent(c) \/ WriteFails(c) \/ Expire(c)
       \/ Handlers(c)
  \/ AcceptFails \/ RunReturns

Spec == Init /\ [][Next]_vars

(* Time passes, and the io_context runs every handler that is ready.       *)
(* Clients need not send, read or close.                                   *)
Fairness ==
  /\ \A c \in Conns :
       /\ WF_vars(Expire(c))
       /\ WF_vars(ReadHandler(c)) /\ WF_vars(WriteHandler(c)) /\ WF_vars(DeadlineHandler(c))
  /\ WF_vars(RunReturns)

FairSpec == Spec /\ Fairness

-----------------------------------------------------------------------------
(* Every variable stays in its domain, and a response is built only for a  *)
(* request that has been read.                                             *)
TypeOK ==
  /\ accepting \in BOOLEAN
  /\ op \in [Conns -> Ops]
  /\ timer \in [Conns -> Timers]
  /\ socket \in [Conns -> {"none", "open", "shut", "closed"}]
  /\ _request \in [Conns -> Requests \cup {NoRequest}]
  /\ \A c \in Conns : _response[c] = NoResponse \/ _response[c].for \in Requests
  /\ answered \subseteq Conns
  /\ count \in Nat
  /\ process \in {"running", "returned", "failed"}

(* No peer can hold a connection: whenever one waits for its peer, the     *)
(* deadline is running or about to be handled, although it is cancelled by *)
(* the write handler and shares nothing with the read handler.             *)
DeadlineCovers ==
  Running => \A c \in Conns :
    op[c] \in {"reading", "writing"} =>
      timer[c] \in {"waiting", "expired"} /\ socket[c] = "open"

(* request_count is shared by all connections: the /count pages carry the  *)
(* numbers 1 to count, each of them once.                                  *)
NumbersUnique ==
  LET C == {c \in Conns : _response[c].number # 0} IN
  /\ {_response[c].number : c \in C} = 1..count
  /\ Cardinality(C) = count

(* Connections, timers and the shared counter agree. *)
Consistent == TypeOK /\ DeadlineCovers /\ NumbersUnique

(* Every accepted connection is destroyed in the end, with its socket,     *)
(* whatever its peer does and in whatever order its handlers run.          *)
Released ==
  \A c \in Conns : socket[c] # "none" ~> (~Alive(c) \/ ~Running)

\* What the client of c can tell.
Lost(c) ==
  socket[c] = "closed" \/ op[c] \in {"none", "readFailed", "writeFailed"} \/ ~Running

Status(c) ==
  IF socket[c] = "none" THEN "free"
  ELSE IF c \in answered THEN "answered"
  ELSE IF Lost(c) THEN "dropped" ELSE "open"

Exchange == INSTANCE Exchanges
  WITH asked <- _request,
       answer <- [c \in Conns |-> IF c \in answered THEN _response[c].for ELSE NoRequest],
       status <- [c \in Conns |-> Status(c)]

(* One answer at most per connection, for its own request, and none after  *)
(* the deadline or an error has dropped it.                                *)
ImplementsExchanges == Exchange!Spec
=============================================================================
