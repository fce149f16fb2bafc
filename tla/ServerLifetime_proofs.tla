------------------------ MODULE ServerLifetime_proofs ------------------------
(***************************************************************************)
(* What holds of ServerLifetime for any sessions and any number of posted  *)
(* nodes, and after it of IOContextPool.  Of ServerLifetime: the map is    *)
(* exact, a reply to write is being written, and a session is destroyed    *)
(* exactly when the last shared_ptr to it goes.                            *)
(*                                                                         *)
(* None of them is inductive.  AcceptOk adds the accepted session to the   *)
(* map, so nothing may have happened to it before (Fresh); a failed write  *)
(* may never be taken up again, and an error is only seen on a connection  *)
(* that has ended (WriteStates); a _send_queue is bounded by the nodes     *)
(* posted because the worker pops a node it has answered (Answered).       *)
(***************************************************************************)
EXTENDS MCIOContextPool, TLAPS, SequenceTheorems

Untouched(s) ==
  /\ unsent[s] = 0 /\ writing[s] = "none"
  /\ s \notin reading \cup _session \cup broken
  /\ ~InSeq(s, nodes)

Fresh ==
  /\ \A s \in Sessions : s \notin created \/ s = accepting => Untouched(s)
  /\ IF Running THEN accepting \in created ELSE accepting = NoSession

WriteStates ==
  \A s \in Sessions :
    /\ writing[s] = "error" => s \in broken
    /\ s \in failed => writing[s] = "none"

Answered ==
  /\ replied => nodes # <<>>
  /\ \A s \in Sessions : unsent[s] + Len(nodes) <= posts + (IF replied THEN 1 ELSE 0)

(* A session is destroyed exactly when no shared_ptr to it is left: none   *)
(* is used after its release, and none is left behind by its owners.       *)
DestroyedExactly == destroyed = {s \in created : ~Held(s)}

IInv ==
  TypeOK /\ MapExact /\ WritesGoOn /\ Fresh /\ WriteStates /\ Answered /\ DestroyedExactly

-----------------------------------------------------------------------------
(* A sequence stays one when more elements are allowed. *)
LEMMA Widened ==
  ASSUME NEW S, NEW T, S \subseteq T, NEW q \in Seq(S)
  PROVE  q \in Seq(T)
<1>1. Len(q) \in Nat /\ q \in [1..Len(q) -> S]
  BY LenProperties
<1>2. q \in [1..Len(q) -> T]
  BY <1>1
<1> QED
  BY <1>1, <1>2, IsASeq

(* What is queued after k nodes of one session are appended. *)
LEMMA Posted ==
  ASSUME NEW S, NEW q \in Seq(S), NEW e \in S, NEW k \in Nat
  PROVE  LET r == q \o [i \in 1..k |-> e]
         IN  /\ r \in Seq(S) /\ Len(r) = Len(q) + k
             /\ \A t : InSeq(t, r) => InSeq(t, q) \/ t = e
             /\ \A t : InSeq(t, q) => InSeq(t, r)
<1> DEFINE more == [i \in 1..k |-> e]
<1>1. more \in Seq(S) /\ Len(more) = k
  BY IsASeq
<1> HIDE DEF more
<1>2. /\ q \o more \in Seq(S) /\ Len(q \o more) = Len(q) + k
      /\ \A i \in 1..(Len(q) + k) :
           (q \o more)[i] = IF i <= Len(q) THEN q[i] ELSE more[i - Len(q)]
  BY <1>1, ConcatProperties
<1>3. Len(q) \in Nat /\ DOMAIN q = 1..Len(q) /\ DOMAIN (q \o more) = 1..(Len(q) + k)
  BY <1>2, LenProperties
<1>4. \A i \in 1..k : more[i] = e
  BY DEF more
<1>5. \A t : InSeq(t, q \o more) => InSeq(t, q) \/ t = e
  BY <1>2, <1>3, <1>4 DEF InSeq
<1>6. \A t : InSeq(t, q) => InSeq(t, q \o more)
  BY <1>2, <1>3 DEF InSeq
<1> QED
  BY <1>2, <1>5, <1>6 DEF more

(* What is queued once the front node is taken. *)
LEMMA Taken ==
  ASSUME NEW S, NEW q \in Seq(S), q # <<>>
  PROVE  /\ Head(q) \in S /\ InSeq(Head(q), q)
         /\ Tail(q) \in Seq(S)
         /\ Len(q) \in Nat \ {0} /\ Len(Tail(q)) = Len(q) - 1
         /\ \A t : InSeq(t, q) <=> t = Head(q) \/ InSeq(t, Tail(q))
<1>1. Len(q) \in Nat \ {0}
  BY EmptySeq
<1>2. /\ Head(q) \in S /\ Tail(q) \in Seq(S) /\ Len(Tail(q)) = Len(q) - 1
      /\ \A i \in 1..Len(Tail(q)) : Tail(q)[i] = q[i + 1]
  BY HeadTailProperties
<1>3. DOMAIN q = 1..Len(q) /\ DOMAIN Tail(q) = 1..(Len(q) - 1)
  BY <1>2, LenProperties
<1>4. Head(q) = q[1] /\ 1 \in 1..Len(q)
  BY <1>1
<1>5. \A t : InSeq(t, Tail(q)) => InSeq(t, q)
  <2> SUFFICES ASSUME NEW t, NEW i \in 1..(Len(q) - 1), Tail(q)[i] = t
               PROVE  InSeq(t, q)
    BY <1>3 DEF InSeq
  <2>1. i + 1 \in 1..Len(q) /\ q[i + 1] = t
    BY <1>1, <1>2
  <2> QED
    BY <2>1, <1>3 DEF InSeq
<1>6. \A t : InSeq(t, q) => t = Head(q) \/ InSeq(t, Tail(q))
  <2> SUFFICES ASSUME NEW t, NEW i \in 1..Len(q), q[i] = t, i # 1
               PROVE  InSeq(t, Tail(q))
    BY <1>3, <1>4 DEF InSeq
  <2>1. i - 1 \in 1..(Len(q) - 1)
    BY <1>1
  <2>2. Tail(q)[i - 1] = t
    BY <1>1, <1>2, <2>1
  <2> QED
    BY <2>1, <2>2, <1>3 DEF InSeq
<1>7. InSeq(Head(q), q)
  BY <1>3, <1>4 DEF InSeq
<1> QED
  BY <1>1, <1>2, <1>5, <1>6, <1>7

(* A step that only drops shared_ptrs, and gives none to a session that    *)
(* had none, destroys exactly the sessions left without one.               *)
LEMMA OwnersDrop ==
  ASSUME DestroyedExactly, created \subseteq created', Release,
         \A s \in created : Held(s)' => Held(s)
  PROVE  DestroyedExactly'
  BY DEF DestroyedExactly, Release

(* A step that leaves every session with an owner or without one. *)
LEMMA OwnersKept ==
  ASSUME DestroyedExactly, created' = created, destroyed' = destroyed,
         \A s \in created : Held(s)' <=> Held(s)
  PROVE  DestroyedExactly'
  BY DEF DestroyedExactly

-----------------------------------------------------------------------------
(* The initial state satisfies the inductive invariant. *)
LEMMA InitHolds == Init => IInv
<1> SUFFICES ASSUME Init PROVE IInv
  OBVIOUS
<1>0. \A s : ~InSeq(s, <<>>)
  BY DEF InSeq
<1>1. TypeOK
  <2>1. nodes \in Seq(created)
    BY EmptySeq DEF Init
  <2>2. /\ unsent \in [Sessions -> 0..MaxNodes] /\ posts \in 0..MaxNodes
    BY ConstantsOK DEF Init
  <2>3. writing \in [Sessions -> {"none", "pending", "ok", "error"}]
    BY DEF Init
  <2>4. created \subseteq Sessions /\ accepting \in Sessions
    BY DEF Init
  <2> QED
    BY <2>1, <2>2, <2>3, <2>4 DEF Init, TypeOK
<1>2. MapExact /\ WritesGoOn
  BY DEF Init, MapExact, WritesGoOn, Writing
<1>3. Fresh /\ WriteStates
  BY <1>0 DEF Init, Fresh, Untouched, WriteStates, Running
<1>4. Answered
  BY DEF Init, Answered
<1>5. DestroyedExactly
  BY DEF Init, DestroyedExactly, Held, HeldByServer
<1> QED
  BY <1>1, <1>2, <1>3, <1>4, <1>5 DEF IInv

-----------------------------------------------------------------------------
(* handle_accept: the accepted session was untouched until now, and so is  *)
(* the new one.                                                            *)
LEMMA AcceptKeeps == ASSUME IInv, AcceptOk \/ AcceptFails PROVE IInv'
<1> USE DEF IInv
<1>1. /\ Running /\ Running'
      /\ accepting \in created /\ accepting \in Sessions /\ Untouched(accepting)
      /\ UNCHANGED <<broken, closed, writing, unsent, failed, nodes, replied, posts, mainPc>>
      /\ Release
      /\ \/ reading' = reading \cup {accepting} /\ _session' = _session \cup {accepting}
         \/ reading' = reading /\ _session' = _session
  BY DEF AcceptOk, AcceptFails, sendVars, logicVars, Fresh, Running, TypeOK
<1>2. PICK s \in Sessions \ created : created' = created \cup {s} /\ accepting' = s
  BY DEF AcceptOk, AcceptFails, start_accept
<1>3. Untouched(s) /\ s # accepting
  BY <1>1, <1>2 DEF Fresh
<1>4. TypeOK'
  <2>1. nodes' \in Seq(created')
    BY <1>1, <1>2, Widened DEF TypeOK
  <2>2. destroyed' \subseteq created'
    BY <1>1, <1>2 DEF TypeOK, Release
  <2> QED
    BY <1>1, <1>2, <2>1, <2>2 DEF TypeOK
<1>5. MapExact' /\ WritesGoOn'
  BY <1>1, <1>2, <1>3 DEF TypeOK, MapExact, WritesGoOn, Untouched, Writing
<1>6. Fresh'
  <2>1. ASSUME NEW t \in Sessions, t \notin created' \/ t = accepting'
        PROVE  Untouched(t)'
    BY <1>1, <1>2, <1>3, <2>1 DEF Fresh, Untouched, InSeq
  <2> QED
    BY <1>1, <1>2, <2>1 DEF Fresh
<1>7. WriteStates' /\ Answered'
  BY <1>1 DEF WriteStates, Answered
<1>8. DestroyedExactly'
  <2>1. \A t \in created : Held(t)' => Held(t)
    BY <1>1, <1>2 DEF Held, HeldByServer, HeldByHandler, HeldByNode, Writing, InSeq
  <2> QED
    BY <1>1, <1>2, <2>1, OwnersDrop
<1> QED
  BY <1>4, <1>5, <1>6, <1>7, <1>8

(* The end of a connection touches no owner. *)
LEMMA PeerKeeps == ASSUME IInv, NEW s \in Sessions, PeerEnds(s) PROVE IInv'
<1> USE DEF IInv, PeerEnds, sendVars, logicVars
<1>1. s \in created /\ s # accepting /\ broken' = broken \cup {s}
  BY DEF TypeOK, Fresh, Untouched, Writing
<1>2. TypeOK'
  BY <1>1 DEF TypeOK
<1>3. MapExact' /\ WritesGoOn'
  BY DEF MapExact, WritesGoOn, Running, Writing
<1>4. Fresh'
  BY <1>1 DEF Fresh, Untouched, InSeq, Running
<1>5. WriteStates' /\ Answered'
  BY DEF WriteStates, Answered
<1>6. DestroyedExactly'
  BY OwnersKept DEF Held, HeldByServer, HeldByHandler, HeldByNode, Writing, InSeq
<1> QED
  BY <1>2, <1>3, <1>4, <1>5, <1>6

-----------------------------------------------------------------------------
(* HandleRead posts for a session that its read handler keeps alive.       *)
LEMMA ReadChunkKeeps ==
  ASSUME IInv, NEW s \in Sessions, NEW k \in 1..2, ReadChunk(s, k)
  PROVE  IInv'
<1> USE DEF IInv, ReadChunk, connVars, sendVars
<1>1. s \in created /\ s # accepting /\ k \in Nat /\ nodes \in Seq(created)
  BY DEF TypeOK, Fresh, Untouched
<1>2. /\ nodes' \in Seq(created) /\ Len(nodes') = Len(nodes) + k /\ Len(nodes) \in Nat
      /\ \A t : InSeq(t, nodes') => InSeq(t, nodes) \/ t = s
      /\ \A t : InSeq(t, nodes) => InSeq(t, nodes')
  BY <1>1, Posted, LenProperties
<1>3. TypeOK'
  BY <1>1, <1>2, ConstantsOK DEF TypeOK
<1>4. MapExact' /\ WritesGoOn'
  BY DEF MapExact, WritesGoOn, Running, Writing
<1>5. Fresh'
  BY <1>1, <1>2 DEF Fresh, Untouched, Running
<1>6. WriteStates'
  BY DEF WriteStates
<1>7. Answered'
  <2>1. replied' => nodes' # <<>>
    BY <1>2, EmptySeq DEF Answered
  <2>2. ASSUME NEW t \in Sessions
        PROVE  unsent'[t] + Len(nodes') <= posts' + (IF replied' THEN 1 ELSE 0)
    <3>1. PICK x \in Nat, l \in Nat, m \in Nat : x = unsent[t] /\ l = Len(nodes) /\ m = posts
      BY <1>2 DEF TypeOK
    <3>2. x + l <= m + (IF replied THEN 1 ELSE 0)
      BY <3>1 DEF Answered
    <3>3. unsent'[t] = x /\ Len(nodes') = l + k /\ posts' = m + k /\ replied' = replied
      BY <1>2, <3>1
    <3>4. x + (l + k) <= (m + k) + (IF replied THEN 1 ELSE 0)
      BY <1>1, <3>1, <3>2, SMTT(60)
    <3> QED
      BY <3>3, <3>4
  <2> QED
    BY <2>1, <2>2 DEF Answered
<1>8. DestroyedExactly'
  BY <1>1, <1>2, OwnersKept DEF Held, HeldByServer, HeldByHandler, HeldByNode, Writing
<1> QED
  BY <1>3, <1>4, <1>5, <1>6, <1>7, <1>8

(* HandleRead ends the read: the map loses what the read handler held.     *)
LEMMA EndReadKeeps ==
  ASSUME IInv, NEW s \in Sessions, ReadRejects(s) \/ ReadFails(s)
  PROVE  IInv'
<1> USE DEF IInv
<1>1. /\ Running /\ s \in reading
      /\ reading' = reading \ {s} /\ _session' = _session \ {s}
      /\ UNCHANGED <<created, accepting, broken, writing, unsent, failed>>
      /\ UNCHANGED <<nodes, replied, posts, mainPc>>
      /\ closed' \subseteq closed \cup broken
      /\ Release
  BY DEF ReadRejects, ReadFails, EndRead, ClearSession, sendVars, logicVars
<1>2. TypeOK'
  BY <1>1 DEF TypeOK, Release
<1>3. MapExact' /\ WritesGoOn'
  BY <1>1 DEF MapExact, WritesGoOn, Running, Writing
<1>4. Fresh'
  BY <1>1 DEF Fresh, Untouched, InSeq, Running
<1>5. WriteStates' /\ Answered'
  BY <1>1 DEF WriteStates, Answered
<1>6. DestroyedExactly'
  BY <1>1, OwnersDrop DEF Held, HeldByServer, HeldByHandler, HeldByNode, Writing, InSeq
<1> QED
  BY <1>2, <1>3, <1>4, <1>5, <1>6

-----------------------------------------------------------------------------
(* The worker's Send: a node of the session is queued, so it has an owner  *)
(* before it gets the write handler as another.                            *)
LEMMA CallbackKeeps == ASSUME IInv, Callback PROVE IInv'
<1> USE DEF IInv, Callback, connVars
<1> DEFINE h == Head(nodes)
<1>1. /\ h \in created /\ h \in Sessions /\ InSeq(h, nodes) /\ Len(nodes) \in Nat \ {0}
  BY Taken DEF TypeOK
<1>2. h # accepting
  BY <1>1 DEF Fresh, Untouched
<1>3. unsent[h] \in Nat /\ unsent[h] + 1 <= MaxNodes
  BY <1>1, ConstantsOK DEF TypeOK, Answered
<1>4. /\ unsent' \in [Sessions -> 0..MaxNodes]
      /\ writing' \in [Sessions -> {"none", "pending", "ok", "error"}]
      /\ unsent'[h] = unsent[h] + 1
      /\ \A t \in Sessions \ {h} : unsent'[t] = unsent[t] /\ writing'[t] = writing[t]
      /\ writing'[h] = IF unsent[h] = 0 /\ Running THEN "pending" ELSE writing[h]
  BY <1>1, <1>3, ConstantsOK DEF TypeOK, Push, StartIfFirst
<1> HIDE DEF h
<1>5. TypeOK'
  BY <1>4 DEF TypeOK
<1>6. MapExact' /\ WritesGoOn'
  <2>1. MapExact'
    BY DEF MapExact, Running
  <2>2. ASSUME Running, NEW t \in created
        PROVE  unsent'[t] > 0 <=> writing'[t] # "none" \/ t \in failed
    <3>1. CASE t = h
      BY <3>1, <2>2, <1>1, <1>3, <1>4 DEF WritesGoOn, Writing
    <3>2. CASE t # h
      BY <3>2, <2>2, <1>4 DEF WritesGoOn, Writing, TypeOK
    <3> QED
      BY <3>1, <3>2
  <2> QED
    BY <2>1, <2>2 DEF WritesGoOn, Writing, Running
<1>7. Fresh'
  BY <1>1, <1>2, <1>4 DEF Fresh, Untouched, InSeq, Running
<1>8. WriteStates'
  BY <1>1, <1>3, <1>4, SMTT(60) DEF WriteStates, WritesGoOn, Writing, TypeOK
<1>9. Answered'
  <2>1. ASSUME NEW t \in Sessions
        PROVE  unsent'[t] + Len(nodes) <= posts + 1
    <3>1. unsent[t] + Len(nodes) <= posts
      BY <1>1 DEF Answered, TypeOK
    <3>2. unsent[t] \in Nat /\ posts \in Nat /\ unsent'[t] \in {unsent[t], unsent[t] + 1}
      BY <1>4 DEF TypeOK
    <3> QED
      BY <3>1, <3>2, <1>1
  <2> QED
    BY <2>1 DEF Answered
<1>10. DestroyedExactly'
  <2>1. ASSUME NEW t \in created PROVE Held(t)' <=> Held(t)
    BY <1>1, <1>4 DEF Held, HeldByServer, HeldByHandler, HeldByNode, Writing, InSeq, TypeOK
  <2> QED
    BY <2>1, OwnersKept
<1> QED
  BY <1>5, <1>6, <1>7, <1>8, <1>9, <1>10

(* The worker drops a node: if it was the last shared_ptr, the session is  *)
(* destroyed here.                                                         *)
LEMMA PopKeeps == ASSUME IInv, Pop PROVE IInv'
<1> USE DEF IInv, Pop, connVars, sendVars
<1>1. /\ nodes' \in Seq(created) /\ Len(nodes) \in Nat \ {0}
      /\ Len(nodes') = Len(nodes) - 1
      /\ \A t : InSeq(t, nodes') => InSeq(t, nodes)
  BY Taken DEF TypeOK
<1>2. TypeOK'
  BY <1>1 DEF TypeOK, Release
<1>3. MapExact' /\ WritesGoOn'
  BY DEF MapExact, WritesGoOn, Running, Writing
<1>4. Fresh' /\ WriteStates'
  BY <1>1 DEF Fresh, Untouched, Running, WriteStates
<1>5. Answered'
  <2>1. ASSUME NEW t \in Sessions PROVE unsent[t] + Len(nodes') <= posts
    <3>1. unsent[t] + Len(nodes) <= posts + 1
      <4>1. CASE replied
        BY <4>1 DEF Answered
      <4>2. CASE ~replied
        BY <4>2, <1>1 DEF Answered, TypeOK
      <4> QED
        BY <4>1, <4>2
    <3>2. unsent[t] \in Nat /\ posts \in Nat
      BY DEF TypeOK
    <3> QED
      BY <3>1, <3>2, <1>1
  <2> QED
    BY <2>1 DEF Answered, TypeOK
<1>6. DestroyedExactly'
  BY <1>1, OwnersDrop DEF Held, HeldByServer, HeldByHandler, HeldByNode, Writing
<1> QED
  BY <1>2, <1>3, <1>4, <1>5, <1>6

-----------------------------------------------------------------------------
(* What a completion or its handler leaves alone, and that the session of  *)
(* a write in progress is neither fresh nor failed.                        *)
LEMMA InProgress ==
  ASSUME IInv, NEW s \in Sessions, writing[s] # "none"
  PROVE  s \in created /\ s # accepting /\ s \notin failed
  BY DEF IInv, Fresh, Untouched, WriteStates

(* A send completes; its handler still holds the session. *)
LEMMA CompletionKeeps ==
  ASSUME IInv, NEW s \in Sessions, NEW result \in {"ok", "error"}, SendCompletes(s, result)
  PROVE  IInv'
<1> USE DEF IInv, SendCompletes, connVars, logicVars
<1>1. s \in created /\ s # accepting /\ s \notin failed
  BY InProgress
<1>2. /\ writing' \in [Sessions -> {"none", "pending", "ok", "error"}]
      /\ writing'[s] = result /\ result # "none"
      /\ \A t \in Sessions \ {s} : writing'[t] = writing[t]
      /\ result = "error" => s \in broken
  BY DEF TypeOK
<1>3. TypeOK'
  BY <1>2 DEF TypeOK
<1>4. MapExact' /\ WritesGoOn'
  BY <1>2 DEF MapExact, WritesGoOn, Running, Writing, TypeOK
<1>5. Fresh'
  BY <1>1, <1>2 DEF Fresh, Untouched, InSeq, Running
<1>6. WriteStates' /\ Answered'
  BY <1>1, <1>2 DEF WriteStates, Answered
<1>7. DestroyedExactly'
  <2>1. ASSUME NEW t \in created PROVE Held(t)' <=> Held(t)
    BY <1>2 DEF Held, HeldByServer, HeldByHandler, HeldByNode, Writing, InSeq, TypeOK
  <2> QED
    BY <2>1, OwnersKept
<1> QED
  BY <1>3, <1>4, <1>5, <1>6, <1>7

(* HandleWrite without an error: the queue is popped and the next write    *)
(* started exactly when there is one.                                      *)
LEMMA WriteOkKeeps == ASSUME IInv, NEW s \in Sessions, WriteOk(s) PROVE IInv'
<1> USE DEF IInv, WriteOk, connVars, logicVars
<1>1. s \in created /\ s # accepting /\ s \notin failed
  BY InProgress
<1>2. unsent[s] \in 1..MaxNodes
  BY <1>1, ConstantsOK DEF TypeOK, WritesGoOn, Writing
<1>3. /\ unsent' \in [Sessions -> 0..MaxNodes]
      /\ writing' \in [Sessions -> {"none", "pending", "ok", "error"}]
      /\ unsent'[s] = unsent[s] - 1
      /\ writing'[s] = IF unsent'[s] > 0 THEN "pending" ELSE "none"
      /\ \A t \in Sessions \ {s} : unsent'[t] = unsent[t] /\ writing'[t] = writing[t]
  BY <1>2, ConstantsOK DEF TypeOK, NextWrite
<1>4. TypeOK'
  BY <1>3 DEF TypeOK, Release
<1>5. MapExact'
  BY DEF MapExact, Running
<1>6. WritesGoOn'
  <2>1. ASSUME NEW t \in created
        PROVE  unsent'[t] > 0 <=> writing'[t] # "none" \/ t \in failed
    <3>1. CASE t = s
      BY <3>1, <1>1, <1>2, <1>3
    <3>2. CASE t # s
      BY <3>2, <1>3 DEF WritesGoOn, Writing, TypeOK
    <3> QED
      BY <3>1, <3>2
  <2> QED
    BY <2>1 DEF WritesGoOn, Writing, Running
<1>7. Fresh'
  BY <1>1, <1>3 DEF Fresh, Untouched, InSeq, Running
<1>8. WriteStates'
  BY <1>1, <1>3 DEF WriteStates
<1>9. Answered'
  <2>1. \A t \in Sessions : unsent[t] \in Nat /\ unsent'[t] \in Nat /\ unsent'[t] <= unsent[t]
    BY <1>2, <1>3 DEF TypeOK
  <2>2. Len(nodes) \in Nat
    BY LenProperties DEF TypeOK
  <2> QED
    BY <2>1, <2>2, SMTT(60) DEF Answered, TypeOK
<1>10. DestroyedExactly'
  <2>1. ASSUME NEW t \in created, Held(t)' PROVE Held(t)
    BY <1>3, <2>1 DEF Held, HeldByServer, HeldByHandler, HeldByNode, Writing, InSeq, TypeOK
  <2> QED
    BY <2>1, OwnersDrop
<1> QED
  BY <1>4, <1>5, <1>6, <1>7, <1>8, <1>9, <1>10

(* HandleWrite with an error: the session leaves the map and never writes  *)
(* again, as its queue keeps the node that failed.                         *)
LEMMA WriteFailsKeeps == ASSUME IInv, NEW s \in Sessions, WriteFails(s) PROVE IInv'
<1> USE DEF IInv, WriteFails, ClearSession, logicVars
<1>1. s \in created /\ s # accepting /\ s \notin failed /\ s \in broken
  BY InProgress DEF WriteStates
<1>2. /\ writing' \in [Sessions -> {"none", "pending", "ok", "error"}]
      /\ writing'[s] = "none"
      /\ \A t \in Sessions \ {s} : writing'[t] = writing[t]
  BY DEF TypeOK
<1>3. TypeOK'
  BY <1>1, <1>2 DEF TypeOK, Release
<1>4. MapExact'
  BY DEF MapExact, Running
<1>5. WritesGoOn'
  BY <1>1, <1>2 DEF WritesGoOn, Writing, Running, TypeOK
<1>6. Fresh'
  BY <1>1, <1>2 DEF Fresh, Untouched, InSeq, Running
<1>7. WriteStates' /\ Answered'
  BY <1>2 DEF WriteStates, Answered
<1>8. DestroyedExactly'
  <2>1. ASSUME NEW t \in created, Held(t)' PROVE Held(t)
    BY <1>2, <2>1 DEF Held, HeldByServer, HeldByHandler, HeldByNode, Writing, InSeq, TypeOK
  <2> QED
    BY <2>1, OwnersDrop
<1> QED
  BY <1>3, <1>4, <1>5, <1>6, <1>7, <1>8

-----------------------------------------------------------------------------
(* The exit of main destroys every session no queued node still holds. *)
LEMMA UnwindKeeps == ASSUME IInv, Unwind PROVE IInv'
<1> USE DEF IInv, Unwind, logicVars
<1>1. ~Running'
  BY DEF Running
<1>2. TypeOK'
  BY DEF TypeOK, Release
<1>3. MapExact' /\ WritesGoOn'
  BY <1>1 DEF MapExact, WritesGoOn
<1>4. Fresh'
  BY <1>1, ConstantsOK DEF Fresh, Untouched, InSeq
<1>5. WriteStates' /\ Answered'
  BY DEF WriteStates, Answered
<1>6. DestroyedExactly'
  <2>1. ASSUME NEW t \in created, Held(t)' PROVE Held(t)
    BY <2>1, ConstantsOK
       DEF Held, HeldByServer, HeldByHandler, HeldByNode, Writing, InSeq, TypeOK
  <2> QED
    BY <2>1, OwnersDrop
<1> QED
  BY <1>2, <1>3, <1>4, <1>5, <1>6

-----------------------------------------------------------------------------
(* The invariant is inductive. *)
THEOREM Inductive == Spec => []IInv
<1>1. ASSUME IInv, Next PROVE IInv'
  <2>1. CASE AcceptOk \/ AcceptFails
    BY <1>1, <2>1, AcceptKeeps
  <2>2. ASSUME NEW s \in Sessions, PeerEnds(s) PROVE IInv'
    BY <1>1, <2>2, PeerKeeps
  <2>3. ASSUME NEW s \in Sessions, Kernel(s) PROVE IInv'
    BY <1>1, <2>3, CompletionKeeps DEF Kernel
  <2>4. ASSUME NEW s \in Sessions, HandleRead(s) PROVE IInv'
    BY <1>1, <2>4, ReadChunkKeeps, EndReadKeeps DEF HandleRead
  <2>5. ASSUME NEW s \in Sessions, HandleWrite(s) PROVE IInv'
    BY <1>1, <2>5, WriteOkKeeps, WriteFailsKeeps DEF HandleWrite
  <2>6. CASE Callback \/ Pop
    BY <1>1, <2>6, CallbackKeeps, PopKeeps
  <2>7. CASE Unwind
    BY <1>1, <2>7, UnwindKeeps
  <2> QED
    BY <1>1, <2>1, <2>2, <2>3, <2>4, <2>5, <2>6, <2>7 DEF Next
<1>2. ASSUME IInv, UNCHANGED vars PROVE IInv'
  BY <1>2 DEF vars, connVars, sendVars, logicVars, IInv, TypeOK, MapExact, WritesGoOn, Fresh,
     Untouched, WriteStates, Answered, DestroyedExactly, Held, HeldByServer, HeldByHandler,
     HeldByNode, InSeq, Writing, Running
<1> QED
  BY InitHolds, <1>1, <1>2, PTL DEF Spec

(* Map, pending operations and queue of every session agree: the map holds *)
(* exactly the sessions that read and whose writes have not failed, and a  *)
(* session writes exactly when it has a reply and has not failed.          *)
THEOREM ConsistentAlways == Spec => []Consistent
<1>1. IInv => Consistent
  BY DEF IInv, Consistent
<1> QED
  BY Inductive, <1>1, PTL

(* Every session without a shared_ptr has been destroyed, and no other. *)
THEOREM DestroyedExactlyAlways == Spec => []DestroyedExactly
<1>1. IInv => DestroyedExactly
  BY DEF IInv
<1> QED
  BY Inductive, <1>1, PTL

(* No pending read or write, LogicNode or map entry refers to a session    *)
(* that has been destroyed.                                                *)
THEOREM NeverUsedAfterRelease == Spec => []NoUseAfterRelease
<1>1. IInv => NoUseAfterRelease
  BY DEF IInv, DestroyedExactly, NoUseAfterRelease, Held, HeldByServer, HeldByHandler, HeldByNode
<1> QED
  BY Inductive, <1>1, PTL

-----------------------------------------------------------------------------
(* IOContextPool, which main of IOContextPoolServer builds and stops       *)
(* beside those sessions, for every number of contexts: the index stays in *)
(* range and hands the contexts out in turn, and no thread leaves run()    *)
(* before its context is stopped.  The last is not inductive: that a       *)
(* context that was not stopped has its work object depends on how far the *)
(* loops of the constructor and of Stop have come (WorkHeld).  What the    *)
(* sessions do meanwhile does not matter.                                  *)

WorkHeld ==
  /\ poolPc = "works" =>
       \A c \in Pool!Contexts : _threads[c] = "none" /\ (c < loop => _works[c] = c)
  /\ poolPc \in {"threads", "serving"} => \A c \in Pool!Contexts : _works[c] = c
  /\ poolPc = "serving" => loop = 0
  /\ poolPc = "stopping" =>
       \A c \in Pool!Contexts : IF c < loop THEN c \in stopped ELSE _works[c] = c
  /\ poolPc = "joining" => Pool!Contexts \subseteq stopped
  /\ poolPc \in {"unwinding", "exited", "aborted"} =>
       \A c \in Pool!Contexts : c \in stopped \/ _works[c] = c

Ahead(c) == IF c < _next_io_context THEN 1 ELSE 0

InTurn == \A c, d \in Pool!Contexts : handed[c] - handed[d] = Ahead(c) - Ahead(d)

PoolInv == Pool!TypeOK /\ WorkHeld /\ Pool!NoEarlyReturn /\ InTurn

(* What one iteration of a loop leaves behind. *)
LEMMA LoopSteps ==
  ASSUME Pool!ConstantsOK, Pool!TypeOK, NEW pc, NEW next \in Pool!MainPcs, Pool!Loop(pc, next)
  PROVE  /\ poolPc' \in Pool!MainPcs /\ loop' \in Pool!Contexts
         /\ poolPc = pc
         /\ \/ poolPc' = pc /\ loop' = loop + 1 /\ loop + 1 < Size
            \/ poolPc' = next /\ loop' = 0 /\ loop + 1 = Size
  BY DEF Pool!ConstantsOK, Pool!TypeOK, Pool!Loop, Pool!Contexts

(* The initial state satisfies the inductive invariant. *)
LEMMA PoolInit == ASSUME Pool!ConstantsOK, Pool!Init PROVE PoolInv
  BY DEF Pool!ConstantsOK, Pool!Init, PoolInv, Pool!TypeOK, WorkHeld, Pool!NoEarlyReturn,
     InTurn, Ahead, Pool!Contexts, Pool!NoWork, Pool!ThreadStates, Pool!MainPcs

(* The constructor keeps the invariant: all the work objects are there     *)
(* before the first thread is.                                             *)
LEMMA ConstructKeeps ==
  ASSUME Pool!ConstantsOK, PoolInv, Pool!Construct
  PROVE  PoolInv'
<1> USE DEF PoolInv
<1>1. CASE Pool!MakeWork
  <2> USE <1>1 DEF Pool!MakeWork, Pool!userVars
  <2>1. /\ poolPc' \in Pool!MainPcs /\ loop' \in Pool!Contexts
        /\ poolPc = "works"
        /\ \/ poolPc' = "works" /\ loop' = loop + 1 /\ loop + 1 < Size
           \/ poolPc' = "threads" /\ loop' = 0 /\ loop + 1 = Size
    BY LoopSteps DEF Pool!MainPcs
  <2>2. Pool!TypeOK'
    BY <2>1 DEF Pool!TypeOK
  <2>3. WorkHeld'
    BY <2>1 DEF Pool!TypeOK, WorkHeld, Pool!Contexts
  <2> QED
    BY <2>2, <2>3 DEF Pool!NoEarlyReturn, InTurn, Ahead
<1>2. CASE Pool!StartThread
  <2> USE <1>2 DEF Pool!StartThread, Pool!userVars
  <2>1. /\ poolPc' \in Pool!MainPcs /\ loop' \in Pool!Contexts
        /\ poolPc = "threads"
        /\ \/ poolPc' = "threads"
           \/ poolPc' = "serving" /\ loop' = 0
    BY LoopSteps DEF Pool!MainPcs
  <2>2. Pool!TypeOK'
    BY <2>1 DEF Pool!TypeOK, Pool!ThreadStates
  <2>3. WorkHeld'
    BY <2>1 DEF WorkHeld
  <2>4. Pool!NoEarlyReturn'
    BY DEF Pool!TypeOK, Pool!NoEarlyReturn
  <2> QED
    BY <2>2, <2>3, <2>4 DEF InTurn, Ahead
<1>3. CASE Pool!StartThreadFails
  BY <1>3 DEF Pool!StartThreadFails, Pool!poolVars, Pool!userVars, Pool!TypeOK, Pool!MainPcs,
     WorkHeld, Pool!NoEarlyReturn, InTurn, Ahead
<1> QED
  BY <1>1, <1>2, <1>3 DEF Pool!Construct

(* The index moves to the next context, and the one handed out is the one  *)
(* that was behind.                                                        *)
LEMMA HandOutKeeps ==
  ASSUME Pool!ConstantsOK, PoolInv, Pool!GetIOContext
  PROVE  PoolInv'
<1> USE DEF PoolInv, Pool!GetIOContext
<1>1. /\ _next_io_context \in Pool!Contexts
      /\ _next_io_context' \in Pool!Contexts
      /\ _next_io_context' = IF _next_io_context + 1 = Size THEN 0 ELSE _next_io_context + 1
  BY DEF Pool!ConstantsOK, Pool!TypeOK, Pool!NextIndex, Pool!Contexts
<1>2. Pool!TypeOK'
  BY <1>1 DEF Pool!TypeOK
<1>3. InTurn'
  <2> SUFFICES ASSUME NEW c \in Pool!Contexts, NEW d \in Pool!Contexts
               PROVE  (handed[c] - handed[d] = Ahead(c) - Ahead(d))'
    BY DEF InTurn
  <2>1. handed[c] - handed[d] = Ahead(c) - Ahead(d)
    BY DEF InTurn
  <2>2. \A e \in Pool!Contexts :
          handed'[e] = IF e = _next_io_context THEN handed[e] + 1 ELSE handed[e]
    BY DEF Pool!TypeOK
  <2>3. handed[c] \in Nat /\ handed[d] \in Nat
    BY DEF Pool!TypeOK
  <2> QED
    BY <1>1, <2>1, <2>2, <2>3 DEF Ahead, Pool!Contexts
<1> QED
  BY <1>2, <1>3 DEF WorkHeld, Pool!NoEarlyReturn

(* The threads keep the invariant: a context that is not stopped has its   *)
(* work object, so its run() does not return.                              *)
LEMMA ThreadsKeep ==
  ASSUME Pool!ConstantsOK, PoolInv, NEW c \in Pool!Contexts, Pool!Complete(c) \/ Pool!Thread(c)
  PROVE  PoolInv'
<1> USE DEF PoolInv, Pool!TypeOK, WorkHeld, Pool!NoEarlyReturn, InTurn, Ahead, Pool!ThreadStates
<1>1. CASE Pool!Complete(c)
  BY <1>1 DEF Pool!Complete, Pool!poolVars
<1>2. CASE Pool!Run(c)
  BY <1>2 DEF Pool!Run, Pool!userVars
<1>3. CASE Pool!RunHandler(c)
  BY <1>3 DEF Pool!RunHandler, Pool!poolVars
<1>4. CASE Pool!Return(c)
  <2>1. poolPc # "works"
    BY <1>4 DEF Pool!Return
  <2>2. c \in stopped \/ _works[c] = c
    BY <2>1 DEF Pool!MainPcs
  <2>3. c \in stopped
    BY <1>4, <2>2 DEF Pool!Return, Pool!HasWork
  <2> QED
    BY <1>4, <2>1, <2>3 DEF Pool!Return, Pool!userVars
<1> QED
  BY <1>1, <1>2, <1>3, <1>4 DEF Pool!Thread

(* Stop and the exit after it keep the invariant. *)
LEMMA ShutdownKeeps ==
  ASSUME Pool!ConstantsOK, PoolInv, Pool!Shutdown
  PROVE  PoolInv'
<1> USE DEF PoolInv
<1>1. CASE Pool!StopContext
  <2> USE <1>1 DEF Pool!StopContext, Pool!userVars
  <2>1. /\ poolPc' \in Pool!MainPcs /\ loop' \in Pool!Contexts
        /\ poolPc = "stopping"
        /\ \/ poolPc' = "stopping" /\ loop' = loop + 1 /\ loop + 1 < Size
           \/ poolPc' = "joining" /\ loop' = 0 /\ loop + 1 = Size
    BY LoopSteps DEF Pool!MainPcs
  <2>2. loop \in Pool!Contexts /\ _works[loop] = loop
    BY <2>1 DEF Pool!TypeOK, WorkHeld, Pool!Contexts
  <2>3. Pool!TypeOK'
    BY <2>1, <2>2 DEF Pool!TypeOK
  <2>4. WorkHeld'
    BY <2>1, <2>2 DEF Pool!TypeOK, WorkHeld, Pool!Contexts
  <2> QED
    BY <2>3, <2>4 DEF Pool!NoEarlyReturn, InTurn, Ahead
<1>2. CASE Pool!Join
  <2> USE <1>2 DEF Pool!Join, Pool!userVars
  <2>1. /\ poolPc' \in Pool!MainPcs /\ loop' \in Pool!Contexts
        /\ poolPc = "joining"
        /\ \/ poolPc' = "joining"
           \/ poolPc' = "unwinding"
    BY LoopSteps DEF Pool!MainPcs
  <2>2. Pool!TypeOK'
    BY <2>1 DEF Pool!TypeOK, Pool!ThreadStates
  <2>3. WorkHeld' /\ Pool!NoEarlyReturn'
    BY <2>1 DEF WorkHeld, Pool!NoEarlyReturn
  <2> QED
    BY <2>2, <2>3 DEF InTurn, Ahead
<1>3. CASE Pool!DestroyPool
  BY <1>3 DEF Pool!DestroyPool, Pool!poolVars, Pool!userVars, Pool!TypeOK, Pool!MainPcs,
     WorkHeld, Pool!NoEarlyReturn, InTurn, Ahead
<1> QED
  BY <1>1, <1>2, <1>3 DEF Pool!Shutdown

(* A signal, an exception in main and a stuttering step keep it too. *)
LEMMA OthersKeep ==
  ASSUME Pool!ConstantsOK, PoolInv, Pool!Signal \/ Pool!ServingThrows \/ UNCHANGED Pool!vars
  PROVE  PoolInv'
<1> USE DEF PoolInv, Pool!TypeOK, Pool!MainPcs, WorkHeld, Pool!NoEarlyReturn, InTurn, Ahead
<1>1. CASE Pool!Signal
  <2>1. loop' = 0 /\ poolPc' = "stopping"
    BY <1>1 DEF Pool!Signal
  <2>2. \A c \in Pool!Contexts : _works[c] = c /\ ~(c < 0)
    BY <1>1 DEF Pool!Signal, Pool!Contexts
  <2> QED
    BY <1>1, <2>1, <2>2 DEF Pool!Signal, Pool!poolVars, Pool!userVars
<1>2. CASE Pool!ServingThrows
  BY <1>2 DEF Pool!ServingThrows, Pool!poolVars, Pool!userVars
<1>3. CASE UNCHANGED Pool!vars
  BY <1>3 DEF Pool!vars, Pool!poolVars, Pool!userVars
<1> QED
  BY <1>1, <1>2, <1>3

(* The inductive invariant holds of every behaviour. *)
LEMMA PoolInductive == Pool!Spec => []PoolInv
<1>1. Pool!Init => PoolInv
  BY PoolInit, PoolConstantsOK
<1>2. PoolInv /\ [Pool!Next]_(Pool!vars) => PoolInv'
  BY ConstructKeeps, HandOutKeeps, ThreadsKeep, ShutdownKeeps, OthersKeep, PoolConstantsOK
     DEF Pool!Next
<1> QED
  BY <1>1, <1>2, PTL DEF Pool!Spec

(* No thread of the pool leaves run() before the stop of its context,      *)
(* whatever operations are outstanding on it (README.md:4-8).              *)
THEOREM WorkKeepsRunning == Pool!Spec => []NoEarlyReturn
<1>1. PoolInv => NoEarlyReturn
  BY DEF PoolInv, NoEarlyReturn
<1> QED
  BY PoolInductive, <1>1, PTL

(* GetIOContext stays within the vector of contexts and goes round it in   *)
(* turn, so their loads never differ by more than one, for every number of *)
(* contexts.                                                               *)
THEOREM HandedOutEvenly == Pool!Spec => []PoolConsistent
<1>1. PoolInv => Pool!SpreadEvenly
  <2> SUFFICES ASSUME PoolInv, NEW c \in Pool!Contexts, NEW d \in Pool!Contexts, c < d
               PROVE  handed[c] - handed[d] \in {0, 1}
    BY DEF Pool!SpreadEvenly
  <2>1. c \in Int /\ d \in Int /\ _next_io_context \in Int
    BY DEF PoolInv, Pool!TypeOK, Pool!Contexts
  <2>2. handed[c] - handed[d] = Ahead(c) - Ahead(d)
    BY DEF PoolInv, InTurn
  <2>3. Ahead(c) - Ahead(d) \in {0, 1}
    BY <2>1 DEF Ahead
  <2> QED
    BY <2>2, <2>3
<1>2. PoolInv => PoolConsistent
  BY <1>1 DEF PoolInv, PoolConsistent, Pool!Consistent
<1> QED
  BY PoolInductive, <1>2, PTL
=============================================================================
