----------------------------- MODULE EchoService -----------------------------
(***************************************************************************)
(* What an echo session promises to its client: the answers come in the    *)
(* order of the frames they answer, each frame is answered at most once    *)
(* and with what it contained, and none after the session is over.  A      *)
(* frame may be passed over: the server drops answers when too many of     *)
(* them wait.  TlvServer, EchoSession and JsonSession implement it.        *)
(***************************************************************************)
EXTENDS Naturals, Sequences

CONSTANT Frames

VARIABLES
  asked,    \* the frames the client sent, in order
  answers,  \* the answers it was sent, each with the number of its frame
  over

vars == <<asked, answers, over>>

Init == asked = <<>> /\ answers = <<>> /\ over = FALSE

Ask(f) ==
  /\ asked' = Append(asked, f)
  /\ UNCHANGED <<answers, over>>

Answer(k) ==
  /\ ~over
  /\ k \in DOMAIN asked
  /\ \A i \in DOMAIN answers : answers[i].nr < k
  /\ answers' = Append(answers, [nr |-> k, frame |-> asked[k]])
  /\ UNCHANGED <<asked, over>>

End ==
  /\ over' = TRUE
  /\ UNCHANGED <<asked, answers>>

Next ==
  \/ \E f \in Frames : Ask(f)
  \/ \E k \in DOMAIN asked : Answer(k)
  \/ End

Spec == Init /\ [][Next]_vars
=============================================================================
