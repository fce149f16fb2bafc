--------------------------- MODULE SendQueue_proofs ---------------------------
(***************************************************************************)
(* What holds of SendQueue for any frames, queue limit and kernel: one     *)
(* write at a time, in the order of the Sends, none after an error, and    *)
(* that SendQueue implements FifoChannel.                                  *)
(*                                                                         *)
(* OneWriteInFlight and InOrder are inductive only together, with Stuck (a *)
(* Send after an error does not start a write because the queue still      *)
(* holds the node whose write failed) and Counted (the node a handler is   *)
(* about to pop is one of those on the wire).                              *)
(***************************************************************************)
EXTENDS SendQueue, TLAPS, SequenceTheorems

Stuck == cleared => writes = <<>> /\ completed = <<>> /\ _send_queue # <<>>

Counted == Unpopped <= Len(wire)

IInv == TypeOK /\ OneWriteInFlight /\ InOrder /\ QueueBound /\ Stuck /\ Counted

(* The facts about a sequence and an element, and about a non-empty one,   *)
(* that every step below uses.                                             *)
LEMMA Pushed ==
  ASSUME NEW S, NEW q \in Seq(S), NEW e \in S
  PROVE  /\ Append(q, e) \in Seq(S)
         /\ Append(q, e) # <<>>
         /\ Len(q) \in Nat
         /\ Len(Append(q, e)) = Len(q) + 1
         /\ DOMAIN q = 1..Len(q)
         /\ DOMAIN Append(q, e) = 1..(Len(q) + 1)
         /\ \A i \in 1..Len(q) : Append(q, e)[i] = q[i]
         /\ Append(q, e)[Len(q) + 1] = e
         /\ Head(Append(q, e)) = IF q = <<>> THEN e ELSE Head(q)
  BY AppendProperties, LenProperties, HeadTailAppend

(* The same of a sequence whose head is taken. *)
LEMMA Popped ==
  ASSUME NEW S, NEW q \in Seq(S), q # <<>>
  PROVE  /\ Head(q) \in S /\ Head(q) = q[1]
         /\ Tail(q) \in Seq(S)
         /\ Len(q) \in Nat \ {0}
         /\ Len(Tail(q)) = Len(q) - 1
         /\ DOMAIN q = 1..Len(q)
         /\ DOMAIN Tail(q) = 1..(Len(q) - 1)
         /\ \A i \in 1..(Len(q) - 1) : Tail(q)[i] = q[i + 1]
<1>1. Len(q) \in Nat \ {0}
  BY EmptySeq
<1>2. /\ Head(q) \in S /\ Tail(q) \in Seq(S)
      /\ Len(Tail(q)) = Len(q) - 1
      /\ \A i \in 1..Len(Tail(q)) : Tail(q)[i] = q[i + 1]
  BY HeadTailProperties
<1>3. DOMAIN q = 1..Len(q) /\ DOMAIN Tail(q) = 1..Len(Tail(q))
  BY <1>2, LenProperties
<1>4. Head(q) = q[1]
  BY <1>1
<1> QED
  BY <1>1, <1>2, <1>3, <1>4

(* A sequence of length at most one is empty once its head is gone. *)
LEMMA OneElement ==
  ASSUME NEW S, NEW q \in Seq(S), q # <<>>, Len(q) <= 1
  PROVE  Tail(q) = <<>> /\ Len(q) = 1
<1>0. Len(q) \in Nat \ {0}
  BY EmptySeq
<1>1. Len(q) = 1
  BY <1>0
<1>2. Tail(q) \in Seq(S) /\ Len(Tail(q)) = 0
  BY <1>1, HeadTailProperties
<1> QED
  BY <1>1, <1>2, EmptySeq

-----------------------------------------------------------------------------
(* The initial state satisfies the inductive invariant. *)
LEMMA InitHolds == Init => IInv
<1> SUFFICES ASSUME Init PROVE IInv
  OBVIOUS
<1>1. TypeOK
  BY EmptySeq DEF Init, TypeOK, InSeq
<1>2. DOMAIN <<>> = {} /\ Len(<<>>) = 0
  OBVIOUS
<1>3. OneWriteInFlight /\ Stuck
  BY <1>2 DEF Init, OneWriteInFlight, Stuck
<1>4. InOrder
  BY <1>2 DEF Init, InOrder, Unpopped
<1>6. Counted
  BY <1>2 DEF Init, Counted, Unpopped
<1>5. QueueBound
  BY <1>2, ConstantsOK DEF Init, QueueBound
<1> QED
  BY <1>1, <1>3, <1>4, <1>5, <1>6 DEF IInv

(* A Send that is accepted: it starts a write exactly when none is in the  *)
(* kernel or waiting for its handler and no error has been seen.           *)
LEMMA SendKeeps ==
  ASSUME IInv, NEW m \in Msgs, SendAccepted(m)
  PROVE  IInv'
<1> USE DEF SendAccepted, kernelVars
<1>1. /\ _send_queue \in Seq(Msgs) /\ accepted \in Seq(Msgs) /\ writes \in Seq(Msgs)
      /\ _send_queue' = Append(_send_queue, m) /\ accepted' = Append(accepted, m)
  BY DEF IInv, TypeOK
<1>2. /\ _send_queue' \in Seq(Msgs) /\ _send_queue' # <<>>
      /\ Len(_send_queue) \in Nat /\ Len(_send_queue') = Len(_send_queue) + 1
      /\ DOMAIN _send_queue = 1..Len(_send_queue)
      /\ DOMAIN _send_queue' = 1..(Len(_send_queue) + 1)
      /\ \A i \in 1..Len(_send_queue) : _send_queue'[i] = _send_queue[i]
      /\ _send_queue'[Len(_send_queue) + 1] = m
      /\ Head(_send_queue') = IF _send_queue = <<>> THEN m ELSE Head(_send_queue)
  BY <1>1, Pushed
<1>3. /\ accepted' \in Seq(Msgs)
      /\ Len(accepted) \in Nat /\ Len(accepted') = Len(accepted) + 1
      /\ DOMAIN accepted = 1..Len(accepted)
      /\ DOMAIN accepted' = 1..(Len(accepted) + 1)
      /\ \A i \in 1..Len(accepted) : accepted'[i] = accepted[i]
      /\ accepted'[Len(accepted) + 1] = m
  BY <1>1, Pushed
<1>4. QueueBound'
  BY <1>2, ConstantsOK DEF QueueBound, Full
<1>5. InOrder' /\ Counted'
  <2>1. /\ Unpopped \in {0, 1} /\ Unpopped' = Unpopped /\ Unpopped <= Len(wire)
        /\ Len(wire) \in Nat /\ DOMAIN wire = 1..Len(wire)
        /\ Len(accepted) = Len(wire) + Len(_send_queue) - Unpopped
        /\ Unpopped = 1 => Len(_send_queue) > 0
    BY <1>2, EmptySeq, LenProperties
       DEF IInv, TypeOK, InOrder, Counted, Unpopped, OneWriteInFlight
  <2>2. \A i \in DOMAIN wire : wire[i] = accepted'[i]
    BY <2>1, <1>2, <1>3, SMTT(60) DEF IInv, InOrder
  <2>3. ASSUME NEW i \in 1..(Len(_send_queue) + 1)
        PROVE  _send_queue'[i] = accepted'[Len(accepted) - Len(_send_queue) + i]
    <3>1. CASE i = Len(_send_queue) + 1
      <4>1. Len(accepted) - Len(_send_queue) + i = Len(accepted) + 1
        BY <3>1, <1>2, <1>3
      <4> QED
        BY <3>1, <4>1, <1>2, <1>3
    <3>2. CASE i \in 1..Len(_send_queue)
      <4> DEFINE j == Len(accepted) - Len(_send_queue) + i
      <4>1. j \in 1..Len(accepted)
        BY <3>2, <2>1, <1>2, <1>3
      <4>2. _send_queue[i] = accepted[j]
        BY <3>2, <1>2 DEF IInv, InOrder
      <4>3. accepted'[j] = accepted[j]
        BY <4>1, <1>3
      <4>4. _send_queue'[i] = _send_queue[i]
        BY <3>2, <1>2
      <4> QED
        BY <4>2, <4>3, <4>4
    <3>3. i = Len(_send_queue) + 1 \/ i \in 1..Len(_send_queue)
      <4>1. Len(_send_queue) \in Nat
        BY <1>2
      <4> QED
        BY <4>1
    <3> QED
      BY <3>1, <3>2, <3>3
  <2>4. Len(accepted') - Len(_send_queue') = Len(accepted) - Len(_send_queue)
    BY <1>2, <1>3
  <2>5. wire' = wire
    OBVIOUS
  <2>6. Len(accepted') = Len(wire') + Len(_send_queue') - Unpopped'
    BY <2>1, <2>5, <1>2, <1>3
  <2> QED
    BY <2>1, <2>2, <2>3, <2>4, <2>5, <2>6, <1>2 DEF InOrder, Counted
<1>8. refused' \subseteq {x \in Msgs : ~InSeq(x, accepted')}
  BY <1>3 DEF IInv, TypeOK, InSeq, Fresh
<1>6. CASE _send_queue = <<>>
  <2>1. MustStart(_send_queue)
    BY <1>6 DEF MustStart
  <2>2. writes = <<>> /\ completed = <<>> /\ ~cleared
    BY <1>6 DEF IInv, OneWriteInFlight, Stuck
  <2>3. writes' = <<m>>
    BY <2>1, <2>2, <1>2, <1>6 DEF AsyncSend
  <2>4. OneWriteInFlight' /\ Stuck'
    BY <2>2, <2>3, <1>2, <1>6 DEF OneWriteInFlight, Stuck
  <2>5. TypeOK'
    BY <2>3, <1>1, <1>2, <1>3, <1>8 DEF IInv, TypeOK
  <2> QED
    BY <2>4, <2>5, <1>4, <1>5 DEF IInv
<1>7. CASE _send_queue # <<>>
  <2>1. ~MustStart(_send_queue)
    BY <1>7, <1>1, EmptySeq DEF MustStart
  <2>2. UNCHANGED writes
    BY <2>1
  <2>3. OneWriteInFlight' /\ Stuck'
    BY <2>2, <1>2, <1>7 DEF IInv, OneWriteInFlight, Stuck
  <2>4. TypeOK'
    BY <2>2, <1>1, <1>2, <1>3, <1>8 DEF IInv, TypeOK
  <2> QED
    BY <2>3, <2>4, <1>4, <1>5 DEF IInv
<1> QED
  BY <1>6, <1>7
(* A Send that is refused changes nothing but the record of it. *)
LEMMA RefusalKeeps ==
  ASSUME IInv, NEW m \in Msgs, SendRefused(m)
  PROVE  IInv'
  BY DEF IInv, TypeOK, OneWriteInFlight, InOrder, Unpopped, QueueBound, Stuck, Counted,
         SendRefused, Fresh, InSeq, kernelVars

(* What a send in progress tells: it is the only one, it is of the front   *)
(* node, no error has been seen, and the front node is the next the wire   *)
(* is due.                                                                 *)
LEMMA InProgress ==
  ASSUME IInv, writes # <<>>
  PROVE  /\ Head(writes) \in Msgs /\ Head(writes) = Head(_send_queue)
         /\ Tail(writes) = <<>> /\ completed = <<>> /\ ~cleared
         /\ _send_queue # <<>>
         /\ Len(wire) < Len(accepted)
         /\ Head(writes) = accepted[Len(wire) + 1]
<1>1. writes \in Seq(Msgs) /\ _send_queue \in Seq(Msgs)
  BY DEF IInv, TypeOK
<1>2. /\ Len(writes) \in Nat \ {0}
      /\ completed \in Seq(Completions) /\ Len(completed) \in Nat
      /\ Len(wire) \in Nat /\ Len(accepted) \in Nat
  BY <1>1, EmptySeq, LenProperties DEF IInv, TypeOK
<1>3. Len(writes) <= 1 /\ completed = <<>>
  BY <1>2, EmptySeq DEF IInv, OneWriteInFlight
<1>4. Head(writes) \in Msgs /\ Tail(writes) = <<>>
  BY <1>1, <1>3, OneElement, HeadTailProperties
<1>5. _send_queue # <<>> /\ Head(writes) = Head(_send_queue) /\ ~cleared
  BY DEF IInv, OneWriteInFlight, Stuck
<1>6. /\ Len(_send_queue) \in Nat \ {0} /\ Head(_send_queue) = _send_queue[1]
      /\ 1 \in DOMAIN _send_queue
  BY <1>1, <1>5, Popped
<1>7. Len(accepted) = Len(wire) + Len(_send_queue)
  BY <1>3, <1>2, <1>6 DEF IInv, InOrder, Unpopped
<1>8. _send_queue[1] = accepted[Len(accepted) - Len(_send_queue) + 1]
  BY <1>6 DEF IInv, InOrder
<1>9. Len(accepted) - Len(_send_queue) + 1 = Len(wire) + 1
  BY <1>2, <1>6, <1>7
<1> QED
  BY <1>2, <1>3, <1>4, <1>5, <1>6, <1>7, <1>8, <1>9

(* The send in progress completes: the queue is untouched, and the wire    *)
(* grows by the front node unless the completion is an error.              *)
LEMMA CompletionKeeps ==
  ASSUME IInv, Write
  PROVE  IInv'
<1> DEFINE m == Head(writes)
<1>1. ASSUME NEW result \in {"ok", "partial", "error"}, Complete(result)
      PROVE  /\ writes # <<>> /\ writes' = <<>>
             /\ completed' = <<[node |-> m, result |-> result]>>
             /\ completed' \in Seq(Completions)
             /\ Head(completed') = [node |-> m, result |-> result]
  BY <1>1, InProgress DEF Complete, Completions
<1>2. ASSUME NEW result \in {"ok", "partial"}, Complete(result),
             wire' = Append(wire, m), cut' \subseteq cut \cup {m},
             UNCHANGED <<queueVars, open, cleared>>
      PROVE  IInv'
  <2>1. /\ wire \in Seq(Msgs) /\ m \in Msgs /\ m = accepted[Len(wire) + 1]
        /\ m = Head(_send_queue) /\ _send_queue # <<>> /\ ~cleared
        /\ completed = <<>> /\ Len(wire) < Len(accepted)
    BY <1>1, <1>2, InProgress DEF IInv, TypeOK
  <2>2. /\ wire' \in Seq(Msgs) /\ Len(wire) \in Nat /\ Len(wire') = Len(wire) + 1
        /\ DOMAIN wire = 1..Len(wire) /\ DOMAIN wire' = 1..(Len(wire) + 1)
        /\ \A i \in 1..Len(wire) : wire'[i] = wire[i]
        /\ wire'[Len(wire) + 1] = m
    BY <1>2, <2>1, Pushed
  <2>3. TypeOK'
    <3>1. cut' \subseteq Msgs
      BY <1>2, <2>1 DEF IInv, TypeOK
    <3>2. writes' = <<>> /\ completed' \in Seq(Completions)
      BY <1>1, <1>2
    <3>3. writes' \in Seq(Msgs)
      BY <3>2, EmptySeq
    <3> QED
      BY <1>2, <2>2, <3>1, <3>2, <3>3 DEF IInv, TypeOK, queueVars
  <2>4. completed' # <<>> /\ Len(writes') = 0 /\ Len(completed') = 1
    BY <1>1, <1>2
  <2>5. OneWriteInFlight' /\ Stuck'
    BY <1>1, <1>2, <2>1, <2>4 DEF OneWriteInFlight, Stuck, queueVars
  <2>6. Unpopped = 0 /\ Unpopped' = 1
    BY <1>1, <1>2, <2>1, <2>4 DEF Unpopped
  <2>7. Len(_send_queue) \in Nat /\ Len(accepted) \in Nat
    BY LenProperties DEF IInv, TypeOK
  <2>8. Len(accepted') = Len(wire') + Len(_send_queue') - Unpopped'
    BY <1>2, <2>2, <2>6, <2>7 DEF IInv, InOrder, queueVars
  <2>9. \A i \in DOMAIN wire' : wire'[i] = accepted'[i]
    <3>1. \A i \in 1..Len(wire) : wire'[i] = accepted[i]
      BY <2>2 DEF IInv, InOrder
    <3> QED
      BY <1>2, <2>1, <2>2, <3>1 DEF queueVars
  <2>10. InOrder' /\ QueueBound' /\ Counted'
    BY <1>2, <2>2, <2>6, <2>8, <2>9, SMTT(60) DEF IInv, InOrder, QueueBound, Counted, queueVars
  <2> QED
    BY <2>3, <2>5, <2>10 DEF IInv
<1>3. CASE WriteFails
  <2>1. Complete("error") /\ UNCHANGED <<queueVars, open, cleared, kernelVars>>
    BY <1>3 DEF WriteFails
  <2>2. /\ m = Head(_send_queue) /\ _send_queue # <<>> /\ ~cleared /\ completed = <<>>
    BY <1>1, <2>1, InProgress
  <2>3. Len(writes') = 0 /\ Len(completed') = 1 /\ completed' # <<>>
    BY <1>1, <2>1
  <2>4. TypeOK'
    BY <1>1, <2>1 DEF IInv, TypeOK, queueVars, kernelVars
  <2>5. OneWriteInFlight' /\ Stuck'
    BY <1>1, <2>1, <2>2, <2>3 DEF OneWriteInFlight, Stuck, queueVars
  <2>6. Unpopped' = Unpopped
    BY <1>1, <2>1, <2>2 DEF Unpopped
  <2>7. InOrder' /\ QueueBound' /\ Counted'
    BY <2>1, <2>6 DEF IInv, InOrder, QueueBound, Counted, queueVars, kernelVars
  <2> QED
    BY <2>4, <2>5, <2>7 DEF IInv
<1>4. CASE WriteDone
  BY <1>2, <1>4 DEF WriteDone
<1>5. CASE WritePartly
  BY <1>2, <1>5 DEF WritePartly, queueVars
<1> QED
  BY <1>3, <1>4, <1>5 DEF Write

(* HandleWrite pops the node whose send completed; the next one, if any,   *)
(* becomes the front of the queue and the only send in progress.           *)
LEMMA HandlerKeeps ==
  ASSUME IInv, HandleWrite
  PROVE  IInv'
<1>1. /\ completed # <<>> /\ completed \in Seq(Completions) /\ completed' = Tail(completed)
      /\ _send_queue \in Seq(Msgs) /\ accepted \in Seq(Msgs)
      /\ writes \in Seq(Msgs) /\ wire \in Seq(Msgs)
  BY DEF HandleWrite, HandleWriteOk, HandleWriteError, IInv, TypeOK
<1>2. Len(writes) \in Nat /\ Len(completed) \in Nat \ {0}
  BY <1>1, EmptySeq, LenProperties
<1>3. Len(completed) = 1 /\ Len(writes) = 0
  BY <1>2, SMTT(60) DEF IInv, OneWriteInFlight
<1>4. writes = <<>> /\ completed' = <<>> /\ completed' \in Seq(Completions)
  BY <1>1, <1>2, <1>3, EmptySeq, OneElement, SMTT(60)
<1>5. _send_queue # <<>> /\ ~cleared
  BY <1>1 DEF IInv, OneWriteInFlight, Stuck
<1>6. CASE HandleWriteError
  <2>1. TypeOK'
    BY <1>4, <1>6 DEF HandleWriteError, IInv, TypeOK, queueVars, kernelVars
  <2>2. OneWriteInFlight' /\ Stuck'
    BY <1>4, <1>5, <1>3, <1>6 DEF HandleWriteError, OneWriteInFlight, Stuck, queueVars
  <2>3. Unpopped = 0 /\ Unpopped' = 0
    BY <1>4, <1>6 DEF HandleWriteError, Unpopped
  <2>4. InOrder' /\ QueueBound' /\ Counted'
    BY <1>6, <2>3 DEF HandleWriteError, IInv, InOrder, QueueBound, Counted, queueVars, kernelVars
  <2> QED
    BY <2>1, <2>2, <2>4 DEF IInv
<1>7. CASE HandleWriteOk
  <2>1. /\ _send_queue' = Tail(_send_queue) /\ Continue(_send_queue')
        /\ UNCHANGED <<open, cleared, wire, cut, accepted, refused>>
    BY <1>7 DEF HandleWriteOk, kernelVars
  <2>2. /\ _send_queue' \in Seq(Msgs) /\ Len(_send_queue) \in Nat \ {0}
        /\ Len(_send_queue') = Len(_send_queue) - 1
        /\ DOMAIN _send_queue = 1..Len(_send_queue)
        /\ DOMAIN _send_queue' = 1..(Len(_send_queue) - 1)
        /\ \A i \in 1..(Len(_send_queue) - 1) : _send_queue'[i] = _send_queue[i + 1]
    BY <1>1, <1>5, <2>1, Popped
  <2>3. writes' = IF _send_queue' # <<>> THEN <<Head(_send_queue')>> ELSE <<>>
    BY <2>1, <1>4 DEF Continue, AsyncSend
  <2>4. writes' \in Seq(Msgs)
    <3>1. CASE _send_queue' = <<>>
      BY <2>3, <3>1, EmptySeq
    <3>2. CASE _send_queue' # <<>>
      <4>1. Head(_send_queue') \in Msgs
        BY <2>2, <3>2, Popped
      <4> QED
        BY <2>3, <3>2, <4>1
    <3> QED
      BY <3>1, <3>2
  <2>5. TypeOK'
    BY <1>4, <2>1, <2>2, <2>4 DEF IInv, TypeOK
  <2>6. Len(completed') = 0 /\ Len(<<>>) = 0
    BY <1>4
  <2>7. OneWriteInFlight'
    <3>1. CASE _send_queue' = <<>>
      BY <2>3, <2>6, <3>1, <1>4 DEF OneWriteInFlight
    <3>2. CASE _send_queue' # <<>>
      <4>1. writes' = <<Head(_send_queue')>>
        BY <2>3, <3>2
      <4>2. Len(writes') = 1 /\ Head(writes') = Head(_send_queue')
        BY <4>1
      <4> QED
        BY <2>6, <3>2, <4>2, <1>4 DEF OneWriteInFlight
    <3> QED
      BY <3>1, <3>2
  <2>8. Stuck'
    BY <1>5, <2>1 DEF Stuck
  <2>9. Unpopped = 1 /\ Unpopped' = 0
    BY <1>1, <1>4, <1>7 DEF HandleWriteOk, Unpopped
  <2>10. Len(wire) \in Nat /\ Len(accepted) \in Nat
    BY <1>1, LenProperties
  <2>11. \A i \in DOMAIN _send_queue' :
            _send_queue'[i] = accepted'[Len(accepted') - Len(_send_queue') + i]
    <3>1. ASSUME NEW i \in 1..(Len(_send_queue) - 1)
          PROVE  _send_queue'[i] = accepted[Len(accepted) - Len(_send_queue') + i]
      <4>1. i + 1 \in DOMAIN _send_queue
        BY <2>2
      <4>2. _send_queue[i + 1] = accepted[Len(accepted) - Len(_send_queue) + (i + 1)]
        BY <4>1 DEF IInv, InOrder
      <4>3. Len(accepted) - Len(_send_queue) + (i + 1) = Len(accepted) - Len(_send_queue') + i
        BY <2>2, <2>10
      <4> QED
        BY <2>2, <4>2, <4>3
    <3> QED
      BY <2>1, <2>2, <3>1
  <2>12. Len(accepted') = Len(wire') + Len(_send_queue') - Unpopped'
    BY <2>1, <2>2, <2>9, <2>10 DEF IInv, InOrder
  <2>13. InOrder'
    BY <2>1, <2>11, <2>12 DEF IInv, InOrder
  <2>14. QueueBound' /\ Counted'
    BY <2>1, <2>2, <2>9, <2>10, ConstantsOK DEF IInv, QueueBound, Counted
  <2> QED
    BY <2>5, <2>7, <2>8, <2>13, <2>14 DEF IInv
<1> QED
  BY <1>6, <1>7 DEF HandleWrite

(* Closing the socket and stuttering change nothing the invariant is about. *)
LEMMA CloseKeeps ==
  ASSUME IInv, Close \/ UNCHANGED vars
  PROVE  IInv'
<1>1. /\ UNCHANGED <<_send_queue, accepted, refused, writes, completed, cleared, wire, cut>>
      /\ open' \in BOOLEAN
  BY DEF IInv, TypeOK, Close, vars, queueVars, kernelVars
<1>2. TypeOK'
  BY <1>1 DEF IInv, TypeOK
<1>3. OneWriteInFlight' /\ Stuck' /\ QueueBound'
  BY <1>1 DEF IInv, OneWriteInFlight, Stuck, QueueBound
<1>4. InOrder' /\ Counted'
  BY <1>1 DEF IInv, InOrder, Counted, Unpopped
<1> QED
  BY <1>2, <1>3, <1>4 DEF IInv

(* The inductive invariant holds of every behaviour. *)
LEMMA Inductive == Spec => []IInv
<1>1. IInv /\ [Next]_vars => IInv'
  BY SendKeeps, RefusalKeeps, CompletionKeeps, HandlerKeeps, CloseKeeps DEF Next
<1> QED
  BY InitHolds, <1>1, PTL DEF Spec

-----------------------------------------------------------------------------
(* Send never both queues a frame and turns it away, and the queue holds   *)
(* at most MAX_SENDQUE_SIZE + 1 nodes, however many threads send.          *)
THEOREM QueueConsistent == Spec => []Consistent
<1>1. IInv => Consistent
  BY DEF IInv, Consistent
<1> QED
  BY Inductive, <1>1, PTL

(* At most one async_send at a time, always of the front node, which stays *)
(* queued until its handler runs, however Sends, completions, handlers and *)
(* Close interleave.                                                       *)
THEOREM WritesAreSerial == Spec => []OneWriteInFlight
<1>1. IInv => OneWriteInFlight
  BY DEF IInv
<1> QED
  BY Inductive, <1>1, PTL

(* The wire holds what Send accepted, in that order, without gap or        *)
(* repetition, and the rest is in the queue.                               *)
THEOREM WireIsInOrder == Spec => []InOrder
<1>1. IInv => InOrder
  BY DEF IInv
<1> QED
  BY Inductive, <1>1, PTL

(* Once HandleWrite has seen an error nothing is written any more. *)
THEOREM ErrorIsFinal == Spec => SilentAfterError
<1>1. IInv /\ [Next]_vars => [SilentStep]_vars
  <2> SUFFICES ASSUME IInv, [Next]_vars, cleared PROVE UNCHANGED <<writes, wire>>
    BY DEF SilentStep
  <2>1. writes = <<>> /\ completed = <<>> /\ _send_queue # <<>>
    BY DEF IInv, Stuck
  <2>2. ~MustStart(_send_queue)
    BY <2>1, EmptySeq DEF IInv, TypeOK, MustStart
  <2> QED
    BY <2>1, <2>2 DEF Next, SendAccepted, SendRefused, Write, WriteDone, WritePartly, WriteFails,
       Complete, HandleWrite, HandleWriteOk, HandleWriteError, Close, vars, queueVars, kernelVars
<1> QED
  BY Inductive, <1>1, PTL DEF Spec, SilentAfterError

(* SendQueue implements FifoChannel: a Send puts a frame in, the kernel    *)
(* takes the next one out, and an error breaks the channel for good.       *)
THEOREM Implementation == Spec => ImplementsChannel
<1>1. Init => Channel!Init
  BY DEF Init, Channel!Init
<1>2. IInv /\ [Next]_vars => [Channel!Next]_(Channel!vars)
  <2> SUFFICES ASSUME IInv, [Next]_vars PROVE Channel!Next \/ UNCHANGED Channel!vars
    OBVIOUS
  <2> USE DEF queueVars, kernelVars, Channel!vars, Channel!Next
  <2>1. ASSUME NEW m \in Msgs, SendAccepted(m) PROVE Channel!Next
    BY <2>1 DEF SendAccepted, Channel!Send
  <2>2. ASSUME NEW m \in Msgs, SendRefused(m) PROVE UNCHANGED Channel!vars
    BY <2>2 DEF SendRefused
  <2>3. CASE WriteDone \/ WritePartly
    BY <2>3, InProgress DEF WriteDone, WritePartly, Complete, Channel!Deliver
  <2>4. CASE WriteFails
    BY <2>4 DEF WriteFails
  <2>5. CASE HandleWriteOk
    BY <2>5 DEF HandleWriteOk
  <2>6. CASE HandleWriteError
    BY <2>6 DEF HandleWriteError, Channel!Break
  <2>7. CASE Close
    BY <2>7 DEF Close
  <2>8. CASE UNCHANGED vars
    BY <2>8 DEF vars
  <2> QED
    BY <2>1, <2>2, <2>3, <2>4, <2>5, <2>6, <2>7, <2>8 DEF Next, Write, HandleWrite
<1> QED
  BY Inductive, <1>1, <1>2, PTL DEF Spec, ImplementsChannel, Channel!Spec
=============================================================================
