-------------------------- MODULE LogicSystem_proofs --------------------------
(***************************************************************************)
(* What holds of LogicSystem for any posters, nodes and registered ids.    *)
(*                                                                         *)
(* None of TypeOK, NoLostWakeup, FrontExists and StopDrains is inductive   *)
(* alone: that a pop leaves a sequence needs FrontExists, which needs that *)
(* _b_stop never goes back to false.  IInv adds what connects them: the    *)
(* worker enters its wait only with an empty queue (PostMsg2Que is locked  *)
(* out between the test and the wait), and the flag is set exactly when    *)
(* the destructor has begun.                                               *)
(*                                                                         *)
(* That it is a FIFO channel rests on Halfway besides: the worker is done  *)
(* with the first nodes posted, of which it has handled as many as have a  *)
(* registered id, and the queue holds the others.  The registered ones are *)
(* counted by their places in posted (Rank), so no induction is needed.    *)
(***************************************************************************)
EXTENDS LogicSystem, TLAPS, SequenceTheorems, FiniteSetTheorems

Handshake ==
  /\ workerPc = "enter" => _msg_que = <<>>
  /\ _b_stop <=> mainPc # "running"
  /\ workerPc \in {"drain", "done"} => _b_stop

IInv == TypeOK /\ Handshake /\ NoLostWakeup /\ FrontExists /\ StopDrains

USE DEF WorkerAt, WorkerGo, WorkerOnly, WakeWorker, MutexFree, Alive, HoldsMutex,
        WorkerPcs, MainPcs

(* The initial state satisfies the inductive invariant. *)
LEMMA InitHolds == Init => IInv
<1> SUFFICES ASSUME Init PROVE IInv
  OBVIOUS
<1>1. TypeOK
  BY EmptySeq DEF Init, TypeOK
<1> QED
  BY <1>1 DEF Init, IInv, Handshake, NoLostWakeup, FrontExists, StopDrains

(* A push keeps the invariant: if it leaves the worker asleep, it or an    *)
(* earlier push still owes a notification.                                 *)
LEMMA PostKeeps ==
  ASSUME IInv, NEW t \in Posters, NEW n \in Nodes, PostMsg2Que(t, n)
  PROVE  IInv'
<1> USE DEF IInv, PostMsg2Que, Push
<1>1. /\ _msg_que \in Seq(Nodes) /\ posted \in Seq(Nodes)
      /\ _msg_que' = Append(_msg_que, n) /\ posted' = Append(posted, n)
  BY DEF TypeOK
<1>2. /\ _msg_que' \in Seq(Nodes) /\ posted' \in Seq(Nodes)
      /\ _msg_que' # <<>>
      /\ Len(_msg_que') = Len(_msg_que) + 1
  BY <1>1, AppendProperties
<1>3. TypeOK'
  BY <1>2 DEF TypeOK
<1>4. Handshake' /\ FrontExists' /\ StopDrains'
  BY <1>2 DEF Handshake, FrontExists, StopDrains
<1>5. NoLostWakeup'
  <2>1. CASE _msg_que = <<>>
    <3>1. MustNotify(_msg_que')
      BY <2>1, <1>2, EmptySeq DEF MustNotify
    <3> QED
      BY <3>1 DEF NoLostWakeup
  <2>2. CASE _msg_que # <<>>
    BY <2>2 DEF NoLostWakeup
  <2> QED
    BY <2>1, <2>2
<1> QED
  BY <1>3, <1>4, <1>5

(* A node taken from the front keeps the invariant. *)
LEMMA TakeKeeps ==
  ASSUME IInv, NEW next \in {"lock", "drain"}, TakeFront(next), _msg_que # <<>>,
         next = "drain" => _b_stop
  PROVE  IInv'
<1> USE DEF IInv, TakeFront, RunCallback, PopFront
<1>1. Head(_msg_que) \in Nodes /\ Tail(_msg_que) \in Seq(Nodes)
  BY HeadTailProperties DEF TypeOK
<1>2. handled' \in Seq(Registered)
  BY AppendProperties DEF TypeOK
<1>3. TypeOK'
  BY <1>1, <1>2 DEF TypeOK
<1> QED
  BY <1>3 DEF Handshake, NoLostWakeup, FrontExists, StopDrains

(* Every step of the worker keeps the invariant. *)
LEMMA WorkerKeeps ==
  ASSUME IInv, Worker \/ SpuriousWakeup
  PROVE  IInv'
<1> USE DEF IInv, TypeOK, Handshake, NoLostWakeup, FrontExists, StopDrains
<1>1. CASE Lock
  BY <1>1 DEF Lock
<1>2. CASE TestPredicate
  BY <1>2 DEF TestPredicate, MustWait
<1>3. CASE Wait
  BY <1>3 DEF Wait
<1>4. CASE Dispatch
  BY <1>4, TakeKeeps DEF Dispatch
<1>5. CASE StartDrain
  BY <1>5 DEF StartDrain
<1>6. CASE DrainOne
  BY <1>6, TakeKeeps DEF DrainOne
<1>7. CASE DrainEnd
  BY <1>7 DEF DrainEnd
<1>8. CASE CallbackThrows
  BY <1>8 DEF CallbackThrows
<1>9. CASE SpuriousWakeup
  BY <1>9 DEF SpuriousWakeup
<1>10. CASE StartDispatch
  BY <1>10 DEF StartDispatch
<1> QED
  BY <1>1, <1>2, <1>3, <1>4, <1>5, <1>6, <1>7, <1>8, <1>9, <1>10 DEF Worker

(* A notification and the three steps of the destructor keep it too. *)
LEMMA OthersKeep ==
  ASSUME IInv,
         (\E t \in Posters : Notify(t)) \/ SetStop \/ NotifyStop \/ Join \/ UNCHANGED vars
  PROVE  IInv'
<1> USE DEF IInv, TypeOK, Handshake, NoLostWakeup, FrontExists, StopDrains
<1>1. ASSUME NEW t \in Posters, Notify(t) PROVE IInv'
  BY <1>1 DEF Notify
<1>2. CASE SetStop
  BY <1>2 DEF SetStop
<1>3. CASE NotifyStop
  BY <1>3 DEF NotifyStop
<1>4. CASE Join
  BY <1>4 DEF Join
<1>5. CASE UNCHANGED vars
  BY <1>5 DEF vars
<1> QED
  BY <1>1, <1>2, <1>3, <1>4, <1>5

(* The inductive invariant holds of every behaviour. *)
LEMMA Inductive == Spec => []IInv
<1>1. IInv /\ [Next]_vars => IInv'
  BY PostKeeps, WorkerKeeps, OthersKeep DEF Next
<1> QED
  BY InitHolds, <1>1, PTL DEF Spec

(* A callback is given only nodes whose id is registered, and DealMsg      *)
(* never calls front() on an empty queue, however its wait ended.          *)
THEOREM QueueConsistent == Spec => []Consistent
<1>1. IInv => Consistent
  BY DEF IInv, Consistent
<1> QED
  BY Inductive, <1>1, PTL

(* PostMsg2Que may leave out the notification unless its push found the    *)
(* queue empty: the worker still never sleeps on a queue that has nodes    *)
(* in it while no poster is about to notify it, whatever the number of     *)
(* posters and nodes.                                                      *)
THEOREM WakeupsSuffice == Spec => []NoLostWakeup
<1>1. IInv => NoLostWakeup
  BY DEF IInv
<1> QED
  BY Inductive, <1>1, PTL

(* When DealMsg has returned, the stop was asked for and the queue is empty. *)
THEOREM DrainIsComplete == Spec => []StopDrains
<1>1. IInv => StopDrains
  BY DEF IInv
<1> QED
  BY Inductive, <1>1, PTL

-----------------------------------------------------------------------------
(* The nodes with a registered id are counted by their places.             *)
Rank(I, i) == Cardinality({j \in I : j <= i})

(* Going one place further counts that place, if it is one of them. *)
LEMMA RankStep ==
  ASSUME NEW I \in SUBSET Nat, NEW i \in Nat
  PROVE  /\ Rank(I, i) \in Nat /\ Rank(I, i + 1) \in Nat
         /\ Rank(I, i + 1) = IF i + 1 \in I THEN Rank(I, i) + 1 ELSE Rank(I, i)
<1> DEFINE A == {j \in I : j <= i}
           B == {j \in I : j <= i + 1}
<1>1. A \in SUBSET Nat /\ \A j \in A : j <= i
  OBVIOUS
<1>2. IsFiniteSet(A)
  BY <1>1, FS_BoundedSetOfNaturals
<1>3. i + 1 \notin A
  OBVIOUS
<1>4. \A j \in I : j <= i + 1 <=> j <= i \/ j = i + 1
  OBVIOUS
<1>5. CASE i + 1 \in I
  <2>1. \A j : j \in B <=> j \in A \cup {i + 1}
    BY <1>5, <1>4
  <2>2. B = A \cup {i + 1}
    BY <2>1
  <2> QED
    BY <1>2, <1>3, <1>5, <2>2, FS_AddElement, FS_CardinalityType DEF Rank
<1>6. CASE i + 1 \notin I
  <2>1. B = A
    BY <1>6, <1>4
  <2> QED
    BY <1>2, <1>6, <2>1, FS_CardinalityType DEF Rank
<1> QED
  BY <1>5, <1>6

(* Further on there are not fewer. *)
LEMMA RankGrows ==
  ASSUME NEW I \in SUBSET Nat, NEW i \in Nat, NEW k \in Nat, i <= k
  PROVE  Rank(I, i) <= Rank(I, k) /\ Rank(I, i) \in Nat /\ Rank(I, k) \in Nat
<1> DEFINE A == {j \in I : j <= i}
           B == {j \in I : j <= k}
<1>1. \A j \in I : j <= i => j <= k
  OBVIOUS
<1>2. B \in SUBSET Nat /\ (\A j \in B : j <= k) /\ A \in SUBSET B
  BY <1>1
<1>3. IsFiniteSet(B)
  BY <1>2, FS_BoundedSetOfNaturals
<1> QED
  BY <1>2, <1>3, FS_Subset, FS_CardinalityType DEF Rank

(* Two of them have different ranks. *)
LEMMA RankUnique ==
  ASSUME NEW I \in SUBSET (Nat \ {0}), NEW i \in I, NEW k \in I, Rank(I, i) = Rank(I, k)
  PROVE  i = k
<1>1. ASSUME NEW x \in I, NEW y \in I, x < y
      PROVE  Rank(I, x) < Rank(I, y)
  <2>1. PICK z \in Nat : y = z + 1
    <3>1. y - 1 \in Nat /\ y = (y - 1) + 1
      OBVIOUS
    <3> QED
      BY <3>1
  <2>2. x \in Nat /\ x <= z
    BY <1>1, <2>1
  <2>3. Rank(I, x) <= Rank(I, z) /\ Rank(I, x) \in Nat /\ Rank(I, z) \in Nat
    BY <2>2, RankGrows
  <2>4. Rank(I, z + 1) = Rank(I, z) + 1
    BY <2>1, RankStep
  <2> QED
    BY <2>1, <2>3, <2>4
<1>2. Rank(I, i) \in Nat /\ Rank(I, k) \in Nat
  BY RankGrows
<1>3. i < k \/ k < i \/ i = k
  OBVIOUS
<1> QED
  BY <1>1, <1>2, <1>3

\* The places of the registered nodes of s.
Places(s) == {i \in 1..Len(s) : s[i] \in Registered}
Kept(s) == Rank(Places(s), Len(s))

\* Every number up to how many there are is the rank of one of them.
Ranked(s) == \A k \in 1..Kept(s) : \E i \in Places(s) : Rank(Places(s), i) = k

(* The k-th of them, as RegisteredOf says. *)
LEMMA Chosen ==
  ASSUME NEW s \in Seq(Nodes)
  PROVE  /\ Kept(s) \in Nat
         /\ Places(s) \in SUBSET (Nat \ {0})
         /\ DOMAIN RegisteredOf(s) = 1..Kept(s) /\ Len(RegisteredOf(s)) = Kept(s)
         /\ \A i \in Places(s) : Rank(Places(s), i) \in 1..Kept(s)
         /\ \A i \in Places(s) : RegisteredOf(s)[Rank(Places(s), i)] = s[i]
<1> DEFINE I == Places(s)
           n == Len(s)
<1>1. n \in Nat /\ DOMAIN s = 1..n
  BY LenProperties
<1>2. I \in SUBSET (Nat \ {0}) /\ \A i \in I : i <= n
  BY <1>1 DEF Places
<1>3. I = {i \in DOMAIN s : s[i] \in Registered} /\ I = {j \in I : j <= n}
  BY <1>1, <1>2 DEF Places
<1>4. Kept(s) = Cardinality(I)
  BY <1>3 DEF Kept, Rank
<1> HIDE DEF I
<1>5. Kept(s) \in Nat
  <2>1. Rank(I, n) \in Nat
    BY <1>1, <1>2, RankGrows
  <2> QED
    BY <2>1 DEF Kept, I
<1>6. RegisteredOf(s) = [k \in 1..Kept(s) |-> s[CHOOSE i \in I : Rank(I, i) = k]]
  BY <1>3, <1>4 DEF RegisteredOf, Rank
<1>7. DOMAIN RegisteredOf(s) = 1..Kept(s) /\ Len(RegisteredOf(s)) = Kept(s)
  BY <1>5, <1>6
<1>8. ASSUME NEW i \in I PROVE Rank(I, i) \in 1..Kept(s)
  <2>1. i \in Nat \ {0} /\ i <= n
    BY <1>2
  <2>2. Rank(I, i) <= Rank(I, n) /\ Rank(I, i) \in Nat
    BY <1>1, <1>2, <2>1, RankGrows
  <2>3. PICK z \in Nat : i = z + 1
    <3>1. i - 1 \in Nat /\ i = (i - 1) + 1
      BY <2>1
    <3> QED
      BY <3>1
  <2>4. Rank(I, z + 1) = Rank(I, z) + 1 /\ Rank(I, z) \in Nat
    BY <1>2, <2>3, RankStep
  <2>5. Kept(s) = Rank(I, n)
    BY DEF Kept, I
  <2> QED
    BY <1>5, <2>2, <2>3, <2>4, <2>5
<1>9. ASSUME NEW i \in I PROVE RegisteredOf(s)[Rank(I, i)] = s[i]
  <2> DEFINE c == CHOOSE x \in I : Rank(I, x) = Rank(I, i)
  <2>1. c \in I /\ Rank(I, c) = Rank(I, i)
    OBVIOUS
  <2>2. c = i
    BY <1>2, <2>1, RankUnique
  <2>3. RegisteredOf(s)[Rank(I, i)] = s[c]
    BY <1>6, <1>8
  <2> QED
    BY <2>2, <2>3
<1> QED
  BY <1>2, <1>5, <1>7, <1>8, <1>9 DEF I

(* A node at the end of s is at the end of its registered ones, if it is   *)
(* one, and the others keep their places and ranks.                        *)
LEMMA Appended ==
  ASSUME NEW s \in Seq(Nodes), NEW n \in Nodes, Ranked(s)
  PROVE  LET t == Append(s, n) IN
         /\ Ranked(t)
         /\ RegisteredOf(t) = IF n \in Registered THEN Append(RegisteredOf(s), n)
                                                  ELSE RegisteredOf(s)
         /\ \A i \in 0..Len(s) : Rank(Places(t), i) = Rank(Places(s), i)
<1> DEFINE t == Append(s, n)
           l == Len(s)
           I == Places(s)
           J == Places(t)
<1>1. /\ l \in Nat /\ t \in Seq(Nodes) /\ Len(t) = l + 1 /\ t[l + 1] = n
      /\ \A i \in 1..l : t[i] = s[i]
  BY AppendProperties, LenProperties
<1>2. /\ I \in SUBSET (Nat \ {0}) /\ J \in SUBSET (Nat \ {0})
      /\ Kept(s) \in Nat /\ Kept(t) \in Nat
  BY <1>1, Chosen
<1>3. \A i \in 1..l : i \in J <=> i \in I
  BY <1>1 DEF Places
<1>4. l + 1 \in J <=> n \in Registered
  BY <1>1 DEF Places
<1>5. \A i : i \in J => i \in 1..l \/ i = l + 1
  BY <1>1 DEF Places
<1>6. \A i : i \in I => i \in 1..l
  BY DEF Places
<1> HIDE DEF t, l, I, J
<1>7. ASSUME NEW i \in 0..l PROVE Rank(J, i) = Rank(I, i)
  <2>1. {j \in J : j <= i} = {j \in I : j <= i}
    <3>1. \A j \in Nat \ {0} : j <= i => j \in 1..l
      BY <1>1
    <3> QED
      BY <1>2, <1>3, <3>1
  <2> QED
    BY <2>1 DEF Rank
<1>8. Kept(s) = Rank(I, l) /\ Kept(t) = Rank(J, l + 1)
  BY <1>1 DEF Kept, I, J, l
<1>9. Kept(t) = IF n \in Registered THEN Kept(s) + 1 ELSE Kept(s)
  <2>1. Rank(J, l + 1) = IF l + 1 \in J THEN Rank(J, l) + 1 ELSE Rank(J, l)
    BY <1>1, <1>2, RankStep
  <2>2. l \in 0..l
    BY <1>1
  <2> QED
    BY <1>4, <1>7, <1>8, <2>1, <2>2
<1>10. \A k \in 1..Kept(s) : \E i \in I : Rank(I, i) = k
  BY DEF Ranked, I
<1>11. ASSUME NEW k \in 1..Kept(t), k \notin 1..Kept(s)
       PROVE  n \in Registered /\ l + 1 \in J /\ k = Kept(s) + 1 /\ Rank(J, l + 1) = k
  BY <1>2, <1>4, <1>8, <1>9, <1>11
<1>12. ASSUME NEW k \in 1..Kept(s)
       PROVE  \E i \in I : i \in J /\ i \in 1..l /\ Rank(I, i) = k /\ Rank(J, i) = k
  <2>1. PICK i \in I : Rank(I, i) = k
    BY <1>10
  <2>2. i \in 1..l /\ i \in J
    BY <1>3, <1>6
  <2>3. i \in 0..l
    BY <1>1, <2>2
  <2> QED
    BY <1>7, <2>1, <2>2, <2>3
<1>13. Ranked(t)
  <2>1. ASSUME NEW k \in 1..Kept(t) PROVE \E i \in J : Rank(J, i) = k
    BY <1>11, <1>12
  <2> QED
    BY <2>1 DEF Ranked, J
<1>14. /\ DOMAIN RegisteredOf(s) = 1..Kept(s) /\ Len(RegisteredOf(s)) = Kept(s)
       /\ \A i \in I : RegisteredOf(s)[Rank(I, i)] = s[i]
       /\ DOMAIN RegisteredOf(t) = 1..Kept(t) /\ Len(RegisteredOf(t)) = Kept(t)
       /\ \A i \in J : RegisteredOf(t)[Rank(J, i)] = t[i]
  BY <1>1, Chosen DEF I, J
<1>15. ASSUME NEW k \in 1..Kept(s) PROVE RegisteredOf(t)[k] = RegisteredOf(s)[k]
  <2>1. PICK i \in I : i \in J /\ i \in 1..l /\ Rank(I, i) = k /\ Rank(J, i) = k
    BY <1>12
  <2> QED
    BY <1>1, <1>14, <2>1
<1>16. ASSUME n \in Registered PROVE RegisteredOf(t)[Kept(s) + 1] = n
  <2>1. l + 1 \in J /\ Rank(J, l + 1) = Kept(s) + 1
    BY <1>4, <1>8, <1>9, <1>16
  <2> QED
    BY <1>1, <1>14, <2>1
<1>17. ASSUME NEW x \in Seq(Nodes)
       PROVE  RegisteredOf(x) = [k \in DOMAIN RegisteredOf(x) |-> RegisteredOf(x)[k]]
  BY DEF RegisteredOf
<1>18. RegisteredOf(t) = IF n \in Registered THEN Append(RegisteredOf(s), n) ELSE RegisteredOf(s)
  <2>1. CASE n \notin Registered
    <3>1. Kept(t) = Kept(s)
      BY <1>9, <2>1
    <3> QED
      BY <1>1, <1>14, <1>15, <1>17, <2>1, <3>1, SMTT(60)
  <2>2. CASE n \in Registered
    <3>1. RegisteredOf(s) \in Seq(Nodes)
      <4>1. ASSUME NEW k \in 1..Kept(s) PROVE RegisteredOf(s)[k] \in Nodes
        <5>1. PICK i \in I : i \in 1..l /\ Rank(I, i) = k
          BY <1>12
        <5>2. RegisteredOf(s)[k] = s[i] /\ s[i] \in Nodes
          BY <1>14, <5>1 DEF l
        <5> QED
          BY <5>2
      <4>2. RegisteredOf(s) \in [1..Kept(s) -> Nodes]
        BY <1>14, <1>17, <4>1
      <4> QED
        BY <1>2, <4>2
    <3>2. /\ Append(RegisteredOf(s), n) \in Seq(Nodes)
          /\ Len(Append(RegisteredOf(s), n)) = Kept(s) + 1
          /\ \A k \in 1..Kept(s) : Append(RegisteredOf(s), n)[k] = RegisteredOf(s)[k]
          /\ Append(RegisteredOf(s), n)[Kept(s) + 1] = n
      BY <1>14, <3>1, AppendProperties
    <3>3. Kept(t) = Kept(s) + 1
      BY <1>9, <2>2
    <3>4. \A k \in 1..(Kept(s) + 1) : k \in 1..Kept(s) \/ k = Kept(s) + 1
      BY <1>2
    <3>5. \A k \in 1..(Kept(s) + 1) : RegisteredOf(t)[k] = Append(RegisteredOf(s), n)[k]
      BY <1>15, <1>16, <2>2, <3>2, <3>4
    <3>6. Append(RegisteredOf(s), n)
            = [k \in 1..(Kept(s) + 1) |-> Append(RegisteredOf(s), n)[k]]
      <4>1. ASSUME NEW q \in Seq(Nodes), Len(q) = Kept(s) + 1
            PROVE  q = [k \in 1..(Kept(s) + 1) |-> q[k]]
        <5>1. q \in [1..Len(q) -> Nodes]
          BY LenProperties
        <5> QED
          BY <4>1, <5>1
      <4> QED
        BY <3>2, <4>1
    <3>7. RegisteredOf(t) = [k \in 1..(Kept(s) + 1) |-> RegisteredOf(t)[k]]
      BY <1>1, <1>14, <1>17, <3>3
    <3> QED
      BY <2>2, <3>5, <3>6, <3>7
  <2> QED
    BY <2>1, <2>2
<1> QED
  BY <1>7, <1>13, <1>18 DEF t, l, I, J

-----------------------------------------------------------------------------
\* How many of the posted nodes the worker is done with.
Done == Len(posted) - Len(_msg_que)

\* What it is not done with is in the queue, in order, and the registered
\* ones among the others have been handled.
Halfway ==
  /\ Ranked(posted)
  /\ Done >= 0 /\ \A i \in 1..Len(_msg_que) : _msg_que[i] = posted[Done + i]
  /\ Len(handled) = Rank(Places(posted), Done)

(* A post adds to what went into the channel, and to the queue. *)
LEMMA PostSends ==
  ASSUME IInv, Halfway, NEW t \in Posters, NEW n \in Nodes, PostMsg2Que(t, n)
  PROVE  /\ Halfway'
         /\ handled' = handled /\ workerPc' = workerPc
         /\ RegisteredOf(posted') = IF n \in Registered THEN Append(RegisteredOf(posted), n)
                                                        ELSE RegisteredOf(posted)
<1>1. /\ _msg_que \in Seq(Nodes) /\ posted \in Seq(Nodes)
      /\ _msg_que' = Append(_msg_que, n) /\ posted' = Append(posted, n)
      /\ handled' = handled /\ workerPc' = workerPc
  BY DEF IInv, TypeOK, PostMsg2Que, Push
<1>2. PICK l, m, d : l = Len(posted) /\ m = Len(_msg_que) /\ d = Done
  OBVIOUS
<1>3. /\ l \in Nat /\ m \in Nat /\ d = l - m /\ d \in Nat
      /\ \A i \in 1..m : _msg_que[i] = posted[d + i]
  <2>1. l \in Nat /\ m \in Nat
    BY <1>1, <1>2, LenProperties
  <2>2. d = l - m /\ d >= 0
    BY <1>2 DEF Halfway, Done
  <2> QED
    BY <1>2, <2>1, <2>2 DEF Halfway
<1>4. /\ Len(posted') = l + 1 /\ posted'[l + 1] = n /\ \A i \in 1..l : posted'[i] = posted[i]
      /\ Len(_msg_que') = m + 1 /\ _msg_que'[m + 1] = n
      /\ \A i \in 1..m : _msg_que'[i] = _msg_que[i]
  BY <1>1, <1>2, AppendProperties
<1>5. Done' = d
  BY <1>3, <1>4 DEF Done
<1>6. /\ Ranked(posted')
      /\ RegisteredOf(posted') = IF n \in Registered THEN Append(RegisteredOf(posted), n)
                                                     ELSE RegisteredOf(posted)
      /\ \A i \in 0..l : Rank(Places(posted'), i) = Rank(Places(posted), i)
  BY <1>1, <1>2, Appended DEF Halfway
<1>7. ASSUME NEW i \in 1..(m + 1) PROVE _msg_que'[i] = posted'[d + i]
  <2>1. CASE i = m + 1
    <3>1. d + i = l + 1
      BY <1>3, <2>1
    <3> QED
      BY <1>4, <2>1, <3>1
  <2>2. CASE i \in 1..m
    <3>1. d + i \in 1..l
      BY <1>3, <2>2
    <3> QED
      BY <1>3, <1>4, <2>2, <3>1
  <2> QED
    BY <1>3, <2>1, <2>2
<1>8. Len(handled') = Rank(Places(posted'), d)
  <2>1. d \in 0..l
    BY <1>3
  <2> QED
    BY <1>1, <1>2, <1>6, <2>1 DEF Halfway
<1> QED
  <2>1. Done' >= 0 /\ \A i \in 1..Len(_msg_que') : _msg_que'[i] = posted'[Done' + i]
    BY <1>3, <1>4, <1>5, <1>7
  <2>2. Halfway'
    BY <1>5, <1>6, <1>8, <2>1 DEF Halfway
  <2> QED
    BY <1>1, <1>6, <2>2

(* The node the worker takes is the next one of the channel, if it has a   *)
(* registered id.                                                          *)
LEMMA TakeDelivers ==
  ASSUME IInv, Halfway, NEW next \in {"lock", "drain"}, TakeFront(next), _msg_que # <<>>
  PROVE  /\ Halfway'
         /\ posted' = posted /\ workerPc' = next
         /\ \/ handled' = handled
            \/ /\ Len(handled) < Len(RegisteredOf(posted))
               /\ handled' = Append(handled, RegisteredOf(posted)[Len(handled) + 1])
<1> DEFINE n == Head(_msg_que)
           I == Places(posted)
<1>1. /\ _msg_que \in Seq(Nodes) /\ posted \in Seq(Nodes) /\ handled \in Seq(Registered)
      /\ _msg_que' = Tail(_msg_que) /\ posted' = posted /\ workerPc' = next
      /\ handled' = IF n \in Registered THEN Append(handled, n) ELSE handled
  BY DEF IInv, TypeOK, TakeFront, RunCallback, PopFront
<1>2. PICK l, m, d, h : l = Len(posted) /\ m = Len(_msg_que) /\ d = Done /\ h = Len(handled)
  OBVIOUS
<1>3. /\ l \in Nat /\ m \in Nat \ {0} /\ d = l - m /\ d \in Nat /\ h \in Nat
      /\ \A i \in 1..m : _msg_que[i] = posted[d + i]
      /\ h = Rank(I, d) /\ Ranked(posted)
  BY <1>1, <1>2, EmptySeq, LenProperties DEF Halfway, Done
<1>4. /\ n = _msg_que[1]
      /\ Len(_msg_que') = m - 1 /\ \A i \in 1..(m - 1) : _msg_que'[i] = _msg_que[i + 1]
  <2>1. /\ Len(Tail(_msg_que)) = m - 1
        /\ \A i \in 1..Len(Tail(_msg_que)) : Tail(_msg_que)[i] = _msg_que[i + 1]
    BY <1>1, <1>2, HeadTailProperties
  <2> QED
    BY <1>1, <2>1
<1> HIDE DEF n, I
<1>5. Done' = d + 1 /\ d + 1 \in 1..l
  BY <1>1, <1>2, <1>3, <1>4 DEF Done
<1>6. n = posted[d + 1]
  <2>1. 1 \in 1..m
    BY <1>3
  <2> QED
    BY <1>3, <1>4, <2>1
<1>7. d + 1 \in I <=> n \in Registered
  BY <1>2, <1>5, <1>6 DEF I, Places
<1>8. I \in SUBSET (Nat \ {0})
  BY <1>1, Chosen DEF I
<1>9. Rank(I, d + 1) = IF n \in Registered THEN h + 1 ELSE h
  BY <1>3, <1>7, <1>8, RankStep
<1>10. Len(handled') = Rank(I, d + 1)
  BY <1>1, <1>2, <1>9, AppendProperties
<1>11. ASSUME NEW i \in 1..(m - 1) PROVE _msg_que'[i] = posted[d + 1 + i]
  <2>1. i + 1 \in 1..m /\ d + (i + 1) = d + 1 + i
    BY <1>3
  <2> QED
    BY <1>3, <1>4, <2>1
<1>12. Halfway'
  BY <1>1, <1>3, <1>4, <1>5, <1>10, <1>11 DEF Halfway, I
<1>13. ASSUME n \in Registered
       PROVE  h < Len(RegisteredOf(posted)) /\ RegisteredOf(posted)[h + 1] = n
  <2>1. d + 1 \in I /\ Rank(I, d + 1) = h + 1
    BY <1>7, <1>9, <1>13
  <2>2. h + 1 \in 1..Kept(posted) /\ RegisteredOf(posted)[h + 1] = posted[d + 1]
    BY <1>1, <2>1, Chosen DEF I
  <2>3. Len(RegisteredOf(posted)) = Kept(posted) /\ Kept(posted) \in Nat
    BY <1>1, Chosen
  <2> QED
    BY <1>3, <1>6, <2>2, <2>3
<1> QED
  BY <1>1, <1>2, <1>12, <1>13

(* A step that moves no node keeps Halfway. *)
LEMMA HalfwayStays ==
  ASSUME Halfway, UNCHANGED <<posted, _msg_que, handled>>
  PROVE  Halfway'
  BY DEF Halfway, Done

(* Every step of the system is one of the channel, or none, and keeps      *)
(* Halfway.                                                                *)
LEMMA StepImplements ==
  ASSUME IInv, Halfway, [Next]_vars
  PROVE  Halfway' /\ [Channel!Next]_(Channel!vars)
<1> DEFINE pipe == RegisteredOf(posted)
           broken == workerPc \in {"done", "aborted"}
<1>1. ASSUME NEW t \in Posters, NEW n \in Nodes, PostMsg2Que(t, n)
      PROVE  Halfway' /\ [Channel!Next]_(Channel!vars)
  <2>1. Halfway' /\ handled' = handled /\ broken' = broken
    BY <1>1, PostSends
  <2>2. CASE n \in Registered
    <3>1. pipe' = Append(pipe, n)
      BY <1>1, <2>2, PostSends
    <3>2. Channel!Send(n)
      BY <2>1, <3>1 DEF Channel!Send
    <3> QED
      BY <2>1, <2>2, <3>2 DEF Channel!Next
  <2>3. CASE n \notin Registered
    <3>1. pipe' = pipe
      BY <1>1, <2>3, PostSends
    <3> QED
      BY <2>1, <3>1 DEF Channel!vars
  <2> QED
    BY <2>2, <2>3
<1>2. ASSUME NEW next \in {"lock", "drain"}, TakeFront(next), _msg_que # <<>>,
             ~broken
      PROVE  Halfway' /\ [Channel!Next]_(Channel!vars)
  <2>1. Halfway' /\ posted' = posted /\ broken' = broken
    BY <1>2, TakeDelivers
  <2>2. pipe' = pipe
    BY <2>1
  <2>3. CASE handled' = handled
    BY <2>1, <2>2, <2>3 DEF Channel!vars
  <2>4. CASE /\ Len(handled) < Len(pipe)
             /\ handled' = Append(handled, pipe[Len(handled) + 1])
    <3>1. Channel!Deliver
      BY <1>2, <2>1, <2>2, <2>4 DEF Channel!Deliver
    <3> QED
      BY <2>1, <3>1 DEF Channel!Next
  <2> QED
    BY <1>2, <2>3, <2>4, TakeDelivers
<1>3. ASSUME UNCHANGED <<posted, _msg_que, handled>>, broken' = TRUE \/ broken' = broken
      PROVE  Halfway' /\ [Channel!Next]_(Channel!vars)
  <2>1. Halfway' /\ pipe' = pipe /\ handled' = handled
    BY <1>3, HalfwayStays
  <2> QED
    BY <1>3, <2>1 DEF Channel!Next, Channel!Break, Channel!vars
<1>4. CASE Dispatch
  <2>1. TakeFront("lock") /\ _msg_que # <<>> /\ ~broken
    BY <1>4 DEF Dispatch, IInv, FrontExists
  <2> QED
    BY <1>2, <2>1
<1>5. CASE DrainOne
  <2>1. TakeFront("drain") /\ _msg_que # <<>> /\ ~broken
    BY <1>5 DEF DrainOne
  <2> QED
    BY <1>2, <2>1
<1>6. CASE Lock \/ TestPredicate \/ Wait \/ StartDispatch \/ StartDrain \/ SpuriousWakeup
  <2>1. UNCHANGED <<posted, _msg_que, handled>> /\ broken' = broken
    BY <1>6 DEF Lock, TestPredicate, Wait, StartDispatch, StartDrain, SpuriousWakeup
  <2> QED
    BY <1>3, <2>1
<1>7. CASE DrainEnd \/ CallbackThrows
  <2>1. UNCHANGED <<posted, _msg_que, handled>> /\ broken' = TRUE
    BY <1>7 DEF DrainEnd, CallbackThrows
  <2> QED
    BY <1>3, <2>1
<1>8. CASE (\E t \in Posters : Notify(t)) \/ SetStop \/ NotifyStop \/ Join \/ UNCHANGED vars
  <2>1. UNCHANGED <<posted, _msg_que, handled>> /\ broken' = broken
    BY <1>8 DEF Notify, SetStop, NotifyStop, Join, vars
  <2> QED
    BY <1>3, <2>1
<1> QED
  BY <1>1, <1>4, <1>5, <1>6, <1>7, <1>8 DEF Next, Worker

(* Nothing has been posted at first. *)
LEMMA HalfwayAtFirst ==
  ASSUME Init
  PROVE  Halfway /\ Channel!Init
<1>1. posted = <<>> /\ _msg_que = <<>> /\ handled = <<>> /\ Len(<<>>) = 0
  BY DEF Init
<1>2. Places(<<>>) = {}
  BY DEF Places
<1>3. Rank({}, 0) = 0
  <2>1. {j \in {} : j <= 0} = {}
    OBVIOUS
  <2> QED
    BY <2>1, FS_EmptySet DEF Rank
<1>4. Done = 0
  BY <1>1 DEF Done
<1>5. Kept(<<>>) = 0
  BY <1>1, <1>2, <1>3 DEF Kept
<1>6. Ranked(<<>>)
  BY <1>5 DEF Ranked
<1>7. Halfway
  <2>1. \A i \in 1..0 : FALSE
    OBVIOUS
  <2>2. Ranked(posted) /\ Rank(Places(posted), Done) = 0 /\ Len(_msg_que) = 0 /\ Len(handled) = 0
    BY <1>1, <1>2, <1>3, <1>4, <1>6
  <2> QED
    BY <1>4, <2>1, <2>2 DEF Halfway
<1>8. RegisteredOf(<<>>) = <<>>
  <2>1. {i \in DOMAIN <<>> : <<>>[i] \in Registered} = {}
    OBVIOUS
  <2>2. Cardinality({}) = 0
    BY FS_EmptySet
  <2> QED
    BY <2>1, <2>2 DEF RegisteredOf
<1> QED
  BY <1>1, <1>7, <1>8 DEF Init, Channel!Init

(* LogicSystem implements FifoChannel for any posters, nodes and           *)
(* registered ids: each node with a registered id is given to its callback *)
(* once, in posting order, across the wakeups, ids without a callback and  *)
(* the drain, until the worker ends.                                       *)
THEOREM ChannelImplemented == Spec => ImplementsChannel
<1>1. Init => Halfway /\ Channel!Init
  BY HalfwayAtFirst
<1>2. IInv /\ Halfway /\ [Next]_vars => Halfway' /\ [Channel!Next]_(Channel!vars)
  BY StepImplements
<1> QED
  BY Inductive, <1>1, <1>2, PTL DEF Spec, ImplementsChannel, Channel!Spec
=============================================================================
