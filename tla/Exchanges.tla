------------------------------ MODULE Exchanges ------------------------------
(***************************************************************************)
(* What the HTTP server promises to its clients: a connection is given at  *)
(* most one answer, that answer belongs to the request that came in on     *)
(* this connection, and a connection that was dropped is not answered any  *)
(* more.  HttpServer implements it.                                        *)
(***************************************************************************)
CONSTANTS Conns, Requests, NoRequest

VARIABLES
  asked,   \* the request that came in on each connection, or NoRequest
  answer,  \* the request each connection was answered for, or NoRequest
  status   \* "free", "open", "answered" or "dropped"

vars == <<asked, answer, status>>

Init ==
  /\ asked = [c \in Conns |-> NoRequest]
  /\ answer = [c \in Conns |-> NoRequest]
  /\ status = [c \in Conns |-> "free"]

Open(c) ==
  /\ status[c] = "free"
  /\ status' = [status EXCEPT ![c] = "open"]
  /\ UNCHANGED <<asked, answer>>

Ask(c, r) ==
  /\ status[c] = "open" /\ asked[c] = NoRequest
  /\ asked' = [asked EXCEPT ![c] = r]
  /\ UNCHANGED <<answer, status>>

Answer(c) ==
  /\ status[c] = "open" /\ asked[c] # NoRequest
  /\ status' = [status EXCEPT ![c] = "answered"]
  /\ answer' = [answer EXCEPT ![c] = asked[c]]
  /\ UNCHANGED asked

\* One connection, or all of them when the process ends.
Drop(S) ==
  /\ \A c \in S : status[c] = "open"
  /\ status' = [c \in Conns |-> IF c \in S THEN "dropped" ELSE status[c]]
  /\ UNCHANGED <<asked, answer>>

Next ==
  \/ \E c \in Conns : Open(c) \/ Answer(c) \/ \E r \in Requests : Ask(c, r)
  \/ \E S \in SUBSET Conns : Drop(S)

Spec == Init /\ [][Next]_vars
=============================================================================
