----------------------------- MODULE FifoChannel -----------------------------
(***************************************************************************)
(* What each stage of the server promises to the one before it: items come *)
(* out in the order they went in, each at most once, none out of nowhere,  *)
(* until the stage breaks, after which nothing comes out any more.         *)
(* LogicSystem (LogicNodes to callbacks) and SendQueue (replies to the     *)
(* kernel) implement it; LoadTest takes it in the place of LogicSystem.    *)
(***************************************************************************)
EXTENDS Naturals, Sequences

CONSTANT Items

VARIABLES
  sent,       \* the items that went in, in order
  delivered,  \* the items that came out, in order
  broken

vars == <<sent, delivered, broken>>

Init == sent = <<>> /\ delivered = <<>> /\ broken = FALSE

Send(item) ==
  /\ sent' = Append(sent, item)
  /\ UNCHANGED <<delivered, broken>>

Deliver ==
  /\ ~broken
  /\ Len(delivered) < Len(sent)
  /\ delivered' = Append(delivered, sent[Len(delivered) + 1])
  /\ UNCHANGED <<sent, broken>>

Break ==
  /\ broken' = TRUE
  /\ UNCHANGED <<sent, delivered>>

Next == (\E item \in Items : Send(item)) \/ Deliver \/ Break

Spec == Init /\ [][Next]_vars
=============================================================================
