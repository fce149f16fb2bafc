------------------------------- MODULE Greeter -------------------------------
(***************************************************************************)
(* GrpcServer: clients call SayHello, each through a channel of its own;   *)
(* the synchronous service answers every call on a thread of gRPC's, many  *)
(* at a time.  gRPC itself is external: it carries the bytes, or tells the *)
(* client that it could not.  No call has a deadline.                      *)
(***************************************************************************)
EXTENDS Naturals, Sequences

CONSTANTS
  Callers,  \* runs of the client program
  Names,    \* texts a client may send, and what is no text
  prefix,   \* "grpc server has receive data: "
  Error     \* any status.error_message()

VARIABLES
  serving,  \* the server process runs
  callPc,   \* per client: "idle", "sent", "handling", "answered", "failed",
            \* "returned"
  name,     \* per client: the argument of its SayHello
  message,  \* per call: its request's or response's bytes, or the request
  result    \* per client: what SayHello has returned

vars == <<serving, callPc, name, message, result>>

HelloRequest == INSTANCE HelloMessage
HelloReply == INSTANCE HelloMessage

Init ==
  /\ serving = TRUE
  /\ callPc = [c \in Callers |-> "idle"]
  /\ name = [c \in Callers |-> <<>>]
  /\ message = [c \in Callers |-> <<>>]
  /\ result = [c \in Callers |-> <<>>]

At(c, pc) == callPc[c] = pc
Goto(c, pc) == callPc' = [callPc EXCEPT ![c] = pc]
Carry(c, what) == message' = [message EXCEPT ![c] = what]

SayHello(c) ==  \* of the client: up to the blocking call of the stub
  /\ At(c, "idle")
  /\ \E n \in Names :
       /\ name' = [name EXCEPT ![c] = n]
       /\ Carry(c, HelloRequest!SerializeToString(n))
  /\ Goto(c, "sent")
  /\ UNCHANGED <<serving, result>>

Deserialize(c) ==  \* a request that does not parse is answered with a status
  /\ serving /\ At(c, "sent")
  /\ LET request == HelloRequest!ParseFromString(message[c]) IN
       /\ Carry(c, request.message)
       /\ Goto(c, IF request.ok THEN "handling" ELSE "failed")
  /\ UNCHANGED <<serving, name, result>>

Handle(c) ==  \* GreeterServiceImpl::SayHello, and the response on its way
  /\ serving /\ At(c, "handling")
  /\ Carry(c, HelloReply!SerializeToString(prefix \o message[c]))
  /\ Goto(c, "answered")
  /\ UNCHANGED <<serving, name, result>>

Fail(c) ==  \* no server, or none any more: gRPC gives up on the call
  /\ ~serving /\ callPc[c] \in {"sent", "handling", "answered"}
  /\ Goto(c, "failed")
  /\ UNCHANGED <<serving, name, message, result>>

Return(c) ==  \* the status: the caller gets a string in either case
  /\ callPc[c] \in {"answered", "failed"}
  /\ LET response == HelloReply!ParseFromString(message[c]) IN
       result' = [result EXCEPT ![c] =
                   IF At(c, "answered") /\ response.ok THEN response.message ELSE Error]
  /\ Goto(c, "returned")
  /\ UNCHANGED <<serving, name, message>>

ServerEnds ==  \* nobody calls Shutdown: Wait never returns
  /\ serving
  /\ serving' = FALSE
  /\ UNCHANGED <<callPc, name, message, result>>

Call(c) == Deserialize(c) \/ Handle(c) \/ Fail(c) \/ Return(c)

Next == (\E c \in Callers : SayHello(c) \/ Call(c)) \/ ServerEnds

Fairness == \A c \in Callers : WF_vars(Call(c))

-----------------------------------------------------------------------------
(* Every variable stays in its domain; nothing is returned before its time. *)
TypeOK ==
  /\ serving \in BOOLEAN
  /\ callPc \in [Callers -> {"idle", "sent", "handling", "answered", "failed", "returned"}]
  /\ \A c \in Callers :
       /\ name[c] \in Names \cup {<<>>}
       /\ ~At(c, "returned") => result[c] = <<>>

(* A call returns, and what it returns is the prefix and its own argument, *)
(* even the empty one, whatever other calls are handled at the same time   *)
(* and however many bytes the length takes; an error's text only if the    *)
(* server has ended or the argument is no text.                            *)
Greeted ==
  \A c \in Callers : \A n \in Names :
    At(c, "sent") /\ name[c] = n ~>
      /\ At(c, "returned")
      /\ \/ result[c] = prefix \o n /\ HelloRequest!Wire!IsText(n)
         \/ result[c] = Error /\ (~serving \/ ~HelloRequest!Wire!IsText(n))
=============================================================================
