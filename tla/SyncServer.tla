------------------------------ MODULE SyncServer ------------------------------
(***************************************************************************)
(* SyncServer: main accepts a connection at a time and gives it a thread   *)
(* of its own, which reads a chunk and sends a whole buffer back, until    *)
(* its client has gone; and the client, which asks once.  The threads      *)
(* share nothing but thread_set, which only main touches.                  *)
(*                                                                         *)
(* A byte is <<who, where>>: its client and its place in the request.      *)
(***************************************************************************)
EXTENDS Naturals, Sequences

CONSTANTS
  Clients,    \* runs of the client program, each one connection
  MAX_LENGTH  \* size of the arrays of both programs

ConstantsOK == MAX_LENGTH \in Nat \ {0}

VARIABLES
  mainPc,      \* the server's main: "accepting"; "leaving" on an exception;
               \* "exited", or "aborted" by std::terminate
  backlog,     \* connections that wait to be accepted
  thread_set,  \* the sessions whose std::thread is in thread_set
  threadPc,    \* per session: "none", "reading", "sending", "ended"
  buffer,      \* per session: the array data of its thread
  clientPc,    \* per client: "idle", "asking", "receiving", "exited"
  request,     \* per client: the line typed in
  up, down,    \* per connection: bytes on their way to the server, and back
  reply        \* per client: what it prints

server == <<mainPc, backlog, thread_set>>
threads == <<threadPc, buffer>>
clients == <<clientPc, request, reply>>
vars == <<server, threads, clients, up, down>>

Zero == <<"zero", 0>>
Junk == <<"stack", 0>>     \* what an array holds before anything is put there
Array(byte) == [i \in 1..MAX_LENGTH |-> byte]
Line(c, n) == [i \in 1..n |-> <<c, i>>]

Min2(a, b) == IF a < b THEN a ELSE b
Take(s, n) == SubSeq(s, 1, n)
Drop(s, n) == SubSeq(s, n + 1, Len(s))

Init ==
  /\ mainPc = "accepting" /\ backlog = <<>> /\ thread_set = {}
  /\ threadPc = [c \in Clients |-> "none"]
  /\ buffer = [c \in Clients |-> Array(Junk)]
  /\ clientPc = [c \in Clients |-> "idle"]
  /\ request = [c \in Clients |-> <<>>]
  /\ up = [c \in Clients |-> <<>>] /\ down = [c \in Clients |-> <<>>]
  /\ reply = [c \in Clients |-> <<>>]

Over == mainPc \in {"exited", "aborted"}
Gone(c) == clientPc[c] = "exited"
Closed(c) ==  \* by the server's side; a server that leaves has no acceptor
  Over \/ threadPc[c] = "ended" \/ (mainPc = "leaving" /\ threadPc[c] = "none")

-----------------------------------------------------------------------------
(* The client's main.                                                      *)

Goto(c, pc) == clientPc' = [clientPc EXCEPT ![c] = pc]

Connect(c) ==
  /\ clientPc[c] = "idle" /\ mainPc = "accepting"
  /\ backlog' = Append(backlog, c)
  /\ Goto(c, "asking")
  /\ UNCHANGED <<mainPc, thread_set, threads, request, reply, up, down>>

SendLine(c) ==  \* getline leaves room for the terminator
  /\ clientPc[c] = "asking"
  /\ \E n \in 0..(MAX_LENGTH - 1) :
       /\ request' = [request EXCEPT ![c] = Line(c, n)]
       /\ up' = [up EXCEPT ![c] = Line(c, n)]
  /\ Goto(c, "receiving")
  /\ UNCHANGED <<server, threads, reply, down>>

\* Fault: the reply may fill the array.
WholeArray(c) == MAX_LENGTH

ReplyRoom(c) == Len(request[c])

Receive(c) ==  \* one receive; into a buffer of no bytes it returns at once
  /\ clientPc[c] = "receiving"
  /\ \/ ReplyRoom(c) = 0 /\ UNCHANGED <<reply, down>>
     \/ \E n \in 1..Min2(ReplyRoom(c), Len(down[c])) :
          /\ reply' = [reply EXCEPT ![c] = Take(down[c], n)]
          /\ down' = [down EXCEPT ![c] = Drop(@, n)]
  /\ Goto(c, "exited")
  /\ UNCHANGED <<server, threads, request, up>>

ClientFails(c) ==  \* refused, or the server's end is closed
  /\ \/ clientPc[c] = "idle"
     \/ clientPc[c] \in {"asking", "receiving"} /\ Closed(c)
  /\ Goto(c, "exited")
  /\ UNCHANGED <<server, threads, request, reply, up, down>>

-----------------------------------------------------------------------------
(* The server's main and server.                                           *)

\* Fault: the thread is not kept.
Forget(c) == UNCHANGED thread_set

Insert(c) == thread_set' = thread_set \cup {c}   \* and never erased

Accept ==
  /\ mainPc = "accepting" /\ backlog # <<>>
  /\ threadPc' = [threadPc EXCEPT ![Head(backlog)] = "reading"]
  /\ Insert(Head(backlog))
  /\ backlog' = Tail(backlog)
  /\ UNCHANGED <<mainPc, buffer, clients, up, down>>

AcceptFails ==  \* accept throws, or the thread cannot be started
  /\ mainPc = "accepting"
  /\ mainPc' = "leaving"
  /\ UNCHANGED <<backlog, thread_set, threads, clients, up, down>>

Leave ==  \* main returns without a join: ~thread finds what is joinable
  /\ mainPc = "leaving"
  /\ mainPc' = IF thread_set = {} THEN "exited" ELSE "aborted"
  /\ UNCHANGED <<backlog, thread_set, threads, clients, up, down>>

-----------------------------------------------------------------------------
(* session, the thread of a connection.                                    *)

ThreadAt(c, pc) == ~Over /\ threadPc[c] = pc
ThreadGo(c, pc) == threadPc' = [threadPc EXCEPT ![c] = pc]

\* Fault: the array is not cleared.
MemsetNot(c) == buffer[c]

Memset(c) == Array(Zero)

ReadSome(c) ==
  /\ ThreadAt(c, "reading")
  /\ \E n \in 1..Min2(Len(up[c]), MAX_LENGTH) :
       /\ buffer' = [buffer EXCEPT ![c] = Take(up[c], n) \o Drop(Memset(c), n)]
       /\ up' = [up EXCEPT ![c] = Drop(@, n)]
  /\ ThreadGo(c, "sending")
  /\ UNCHANGED <<server, clients, down>>

SendBuffer(c) ==  \* MAX_LENGTH bytes, however many were read
  /\ ThreadAt(c, "sending")
  /\ down' = [down EXCEPT ![c] = @ \o buffer[c]]
  /\ ThreadGo(c, "reading")
  /\ UNCHANGED <<server, buffer, clients, up>>

\* eof, once all is read, or an error.  The io_context of a server that is
\* leaving has been destroyed, and the socket is released all the same.
EndSession(c) ==
  /\ threadPc[c] \in {"reading", "sending"} /\ ~Over
  /\ Gone(c)
  /\ ThreadGo(c, "ended")
  /\ mainPc' \in IF mainPc = "leaving" THEN {"leaving", "aborted"} ELSE {mainPc}
  /\ UNCHANGED <<backlog, thread_set, buffer, clients, up, down>>

Client(c) == SendLine(c) \/ Receive(c) \/ ClientFails(c)
session(c) == ReadSome(c) \/ SendBuffer(c) \/ EndSession(c)

Next ==
  \/ \E c \in Clients : Connect(c) \/ Client(c) \/ session(c)
  \/ Accept \/ AcceptFails \/ Leave

Spec == Init /\ [][Next]_vars

(* Every thread runs, and the client's user types a line; nobody need      *)
(* start a client.                                                         *)
Fairness ==
  /\ \A c \in Clients : WF_vars(clientPc[c] # "idle" /\ Client(c)) /\ WF_vars(session(c))
  /\ WF_vars(Accept) /\ WF_vars(Leave)

FairSpec == Spec /\ Fairness

-----------------------------------------------------------------------------
Waiting == {backlog[i] : i \in DOMAIN backlog}

(* Every variable stays in its domain. *)
TypeOK ==
  /\ mainPc \in {"accepting", "leaving", "exited", "aborted"}
  /\ threadPc \in [Clients -> {"none", "reading", "sending", "ended"}]
  /\ clientPc \in [Clients -> {"idle", "asking", "receiving", "exited"}]
  /\ \A c \in Clients :
       /\ DOMAIN buffer[c] = 1..MAX_LENGTH
       /\ Len(request[c]) < MAX_LENGTH

(* A connection waits to be accepted or has its thread, never both; every  *)
(* thread that was started is kept in thread_set to the end of main, so a  *)
(* server that has had a client cannot leave main without std::terminate.  *)
ThreadsKept ==
  /\ thread_set = {c \in Clients : threadPc[c] # "none"}
  /\ Waiting \cap thread_set = {}
  /\ \A c \in Clients : clientPc[c] \in {"asking", "receiving"} =>
                          c \in Waiting \cup thread_set
  /\ mainPc = "exited" => thread_set = {}

(* The threads, thread_set and the clients agree. *)
Consistent == TypeOK /\ ThreadsKept

(* What a client prints is its own line from the start, as far as the      *)
(* server's first read took it, and zeros after that: never a byte of      *)
(* another client, of a buffer's former content, or beyond its line.       *)
OwnEcho ==
  \A c \in Clients : reply[c] # <<>> =>
    \E n \in 1..Len(request[c]) :
      reply[c] = Take(Take(request[c], n) \o Array(Zero), Len(reply[c]))
      /\ Len(reply[c]) <= Len(request[c])

(* A client that has sent its line, even an empty one, comes to its end;   *)
(* and so does the thread of a client that has gone.                       *)
Served ==
  \A c \in Clients :
    /\ clientPc[c] = "receiving" ~> Gone(c)
    /\ Gone(c) /\ threadPc[c] # "none" ~> threadPc[c] = "ended" \/ Over
=============================================================================
