-------------------------- MODULE SmallServers_proofs --------------------------
(***************************************************************************)
(* What holds of AsyncEcho, SyncServer, JsonSession and Greeter for any    *)
(* sessions, clients, frames, sizes of the buffers and numbers of bytes;   *)
(* in the end, that the runs of MCSmallServers are runs of these four.     *)
(*                                                                         *)
(* AsyncEcho: each live session has exactly one operation or handler left, *)
(* so "delete this" is safe, and its peer gets its own bytes back in order.*)
(* A session goes round: a read is pending, its handler, a write is        *)
(* pending, its handler (Stage).  What it has echoed covers what it        *)
(* received up to the bytes that _data still holds (Buffered), and that is *)
(* what makes the order inductive.                                         *)
(***************************************************************************)
EXTENDS MCSmallServers, TLAPS, SequenceTheorems, FiniteSetTheorems

Completed(handler, ok) == [h |-> handler, ok |-> ok]

InOrder(e, n) ==
  /\ e \in Seq(Nat)
  /\ \A i \in 2..Len(e) : e[i - 1] < e[i]
  /\ \A i \in 1..Len(e) : e[i] \in 1..n

EchoedTo(s, n) == InOrder(echoed[s], n) /\ (s \notin short => echoed[s] = Chunk(1, n))

Buffered(s) ==
  /\ Len(_data[s]) \in 1..received[s]
  /\ _data[s] = Chunk(received[s] - Len(_data[s]) + 1, Len(_data[s]))
  /\ EchoedTo(s, received[s] - Len(_data[s]))

Stage(s) ==
  \/ ops[s] = {"read"} /\ done[s] = {} /\ EchoedTo(s, received[s])
  \/ ops[s] = {} /\ done[s] = {Completed("handle_read", TRUE)} /\ Buffered(s)
  \/ ops[s] = {"write"} /\ done[s] = {} /\ Buffered(s) /\ sending[s] = _data[s]
  \/ ops[s] = {} /\ done[s] = {Completed("handle_write", TRUE)} /\ EchoedTo(s, received[s])
  \/ /\ ops[s] = {} /\ \E h \in {"handle_read", "handle_write"} : done[s] = {Completed(h, FALSE)}
     /\ InOrder(echoed[s], received[s])

Fresh(s) ==
  s \notin deleted /\ s \notin short /\ received[s] = 0 /\ echoed[s] = <<>>

EchoState(s) ==
  /\ s \in Live => Stage(s)
  /\ s \notin Live => ops[s] = {} /\ done[s] = {} /\ InOrder(echoed[s], received[s])
  /\ s \notin created \/ s \in accepting => Fresh(s)

Functions ==
  /\ sending = [s \in Sessions |-> sending[s]] /\ _data = [s \in Sessions |-> _data[s]]
  /\ echoed = [s \in Sessions |-> echoed[s]]
  /\ received = [s \in Sessions |-> received[s]] /\ sent = [s \in Sessions |-> sent[s]]

EchoInv == TypeOK /\ Functions /\ \A s \in Sessions : EchoState(s)

-----------------------------------------------------------------------------
(* The bytes first, first + 1, ... of a peer. *)
LEMMA ChunkIs ==
  ASSUME NEW first \in Nat, NEW n \in Nat
  PROVE  /\ Chunk(first, n) \in Seq(Nat) /\ Len(Chunk(first, n)) = n
         /\ DOMAIN Chunk(first, n) = 1..n
         /\ \A i \in 1..n : Chunk(first, n)[i] = first + i - 1
<1>1. \A i \in 1..n : first + i - 1 \in Nat
  OBVIOUS
<1>2. Chunk(first, n) \in [1..n -> Nat]
  BY <1>1 DEF Chunk
<1>3. Chunk(first, n) \in Seq(Nat) /\ Len(Chunk(first, n)) = n
  BY <1>2
<1> QED
  BY <1>2, <1>3 DEF Chunk

(* A function on 1..n is a sequence. *)
LEMMA SeqOf == ASSUME NEW T, NEW n \in Nat, NEW q \in [1..n -> T] PROVE q \in Seq(T)
  OBVIOUS

(* A peer whose bytes came back in order up to one place still has them in *)
(* order when more have arrived.                                           *)
LEMMA InOrderWidens ==
  ASSUME NEW e, NEW m \in Nat, NEW n \in Nat, m <= n, InOrder(e, m)
  PROVE  InOrder(e, n)
  BY DEF InOrder

(* Nothing echoed is in order, and all that was received when nothing was. *)
LEMMA NothingEchoed == \A n : InOrder(<<>>, n) /\ Chunk(1, 0) = <<>>
<1>1. <<>> \in Seq(Nat) /\ Len(<<>>) = 0
  BY EmptySeq
<1>2. Chunk(1, 0) = <<>>
  <2>1. Chunk(1, 0) \in Seq(Nat) /\ Len(Chunk(1, 0)) = 0
    BY ChunkIs
  <2> QED
    BY <2>1, EmptySeq
<1> QED
  BY <1>1, <1>2 DEF InOrder

(* A send of the first n of the m bytes in _data. *)
LEMMA Echoes ==
  ASSUME NEW base \in Nat, NEW m \in Nat, NEW n \in 1..m, NEW e, InOrder(e, base)
  PROVE  LET q == SubSeq(Chunk(base + 1, m), 1, n)
         IN  /\ InOrder(e \o q, base + m)
             /\ n = m /\ e = Chunk(1, base) => e \o q = Chunk(1, base + m)
<1> DEFINE q == SubSeq(Chunk(base + 1, m), 1, n)
           c == Chunk(base + 1, m)
<1>1. c \in Seq(Nat) /\ DOMAIN c = 1..m /\ \A i \in 1..m : c[i] = base + i
  BY ChunkIs
<1>2. q \in Seq(Nat) /\ Len(q) = n /\ \A i \in 1..n : q[i] = base + i
  <2>1. \A i \in 1..n : c[i] \in Nat
    BY <1>1
  <2>2. /\ q \in Seq(Nat) /\ Len(q) = (IF 1 <= n THEN n - 1 + 1 ELSE 0)
        /\ \A i \in 1..(n - 1 + 1) : q[i] = c[1 + i - 1]
    BY <2>1, SubSeqProperties
  <2> QED
    BY <2>2, <1>1
<1> HIDE DEF q, c
<1> DEFINE d == e \o q
           l == Len(e)
<1>3. e \in Seq(Nat) /\ l \in Nat
  BY LenProperties DEF InOrder
<1>4. /\ d \in Seq(Nat) /\ Len(d) = l + n
      /\ \A i \in 1..(l + n) : d[i] = IF i <= l THEN e[i] ELSE q[i - l]
  BY <1>2, <1>3, ConcatProperties
<1>5. /\ \A i \in 1..l : d[i] = e[i] /\ e[i] \in 1..base
      /\ \A i \in 2..l : e[i - 1] < e[i]
  BY <1>2, <1>3, <1>4 DEF InOrder
<1> HIDE DEF d, l
<1>6. \A i \in (l + 1)..(l + n) : d[i] = base + (i - l)
  <2> SUFFICES ASSUME NEW i \in (l + 1)..(l + n) PROVE d[i] = base + (i - l)
    OBVIOUS
  <2>1. i \in 1..(l + n) /\ ~(i <= l) /\ i - l \in 1..n
    BY <1>3
  <2> QED
    BY <1>2, <1>4, <2>1
<1>7. \A i \in 1..(l + n) : d[i] \in 1..(base + m)
  <2> SUFFICES ASSUME NEW i \in 1..(l + n) PROVE d[i] \in 1..(base + m)
    OBVIOUS
  <2>1. i \in 1..l \/ i \in (l + 1)..(l + n)
    BY <1>3
  <2>2. CASE i \in 1..l
    BY <2>2, <1>5
  <2>3. CASE i \in (l + 1)..(l + n)
    BY <2>3, <1>3, <1>6
  <2> QED
    BY <2>1, <2>2, <2>3
<1>8. \A i \in 2..(l + n) : d[i - 1] < d[i]
  <2> SUFFICES ASSUME NEW i \in 2..(l + n) PROVE d[i - 1] < d[i]
    OBVIOUS
  <2>1. \/ i \in 2..l /\ i \in 1..l /\ i - 1 \in 1..l
        \/ i = l + 1 /\ i - 1 \in 1..l /\ i \in (l + 1)..(l + n)
        \/ i - 1 \in (l + 1)..(l + n) /\ i \in (l + 1)..(l + n)
    BY <1>3
  <2>2. CASE i \in 2..l /\ i \in 1..l /\ i - 1 \in 1..l
    <3>1. d[i] = e[i] /\ d[i - 1] = e[i - 1] /\ e[i - 1] < e[i]
      BY <2>2, <1>5
    <3> QED
      BY <3>1
  <2>3. CASE i = l + 1 /\ i - 1 \in 1..l /\ i \in (l + 1)..(l + n)
    <3>1. d[i - 1] \in 1..base /\ d[i] = base + 1
      <4>1. d[i - 1] = e[i - 1] /\ e[i - 1] \in 1..base
        BY <2>3, <1>5
      <4>2. d[i] = base + (i - l) /\ i - l = 1
        BY <2>3, <1>3, <1>6
      <4> QED
        BY <4>1, <4>2
    <3> QED
      BY <3>1
  <2>4. CASE i - 1 \in (l + 1)..(l + n) /\ i \in (l + 1)..(l + n)
    <3>1. d[i] = base + (i - l) /\ d[i - 1] = base + (i - 1 - l)
      BY <2>4, <1>6
    <3> QED
      BY <3>1, <1>3
  <2> QED
    BY <2>1, <2>2, <2>3, <2>4
<1>9. ASSUME n = m, e = Chunk(1, base) PROVE d = Chunk(1, base + m)
  <2> DEFINE f == Chunk(1, base + m)
  <2>1. Chunk(1, base) \in Seq(Nat) /\ Len(Chunk(1, base)) = base
        /\ \A i \in 1..base : Chunk(1, base)[i] = 1 + i - 1
    BY ChunkIs
  <2>2. l = base /\ \A i \in 1..base : e[i] = i
    BY <1>9, <2>1 DEF l
  <2>3. base + m \in Nat
    OBVIOUS
  <2>4. f \in Seq(Nat) /\ Len(f) = base + m /\ \A i \in 1..(base + m) : f[i] = 1 + i - 1
    BY <2>3, ChunkIs
  <2> HIDE DEF f
  <2>5. \A i \in 1..(base + m) : d[i] = f[i]
    <3> SUFFICES ASSUME NEW i \in 1..(base + m) PROVE d[i] = i /\ f[i] = i
      OBVIOUS
    <3>1. CASE i \in 1..base
      BY <3>1, <2>2, <2>4, <1>5, SMTT(60)
    <3>2. CASE i \in (base + 1)..(base + m)
      BY <3>2, <2>2, <2>4, <1>6, <1>9
    <3> QED
      BY <3>1, <3>2
  <2>6. d = f
    BY <1>4, <1>9, <2>2, <2>4, <2>5, SeqEqual
  <2> QED
    BY <2>6 DEF f
<1> QED
  BY <1>4, <1>7, <1>8, <1>9 DEF InOrder, d, q
-----------------------------------------------------------------------------
(* A session stays where it is in a step that touches none of its parts. *)
LEMMA OthersKept ==
  ASSUME NEW t, EchoState(t),
         UNCHANGED <<ops[t], done[t], _data[t], sending[t], received[t], echoed[t]>>,
         t \in short' <=> t \in short, t \in created' <=> t \in created,
         t \in deleted' <=> t \in deleted, t \in accepting' <=> t \in accepting
  PROVE  EchoState(t)'
  BY DEF EchoState, Live, Stage, Buffered, EchoedTo, Fresh

(* The stages exclude one another. *)
LEMMA StageTells ==
  ASSUME EchoInv, NEW s \in Sessions
  PROVE  /\ ops[s] # {} \/ done[s] # {} => s \in Live
         /\ "read" \in ops[s] => done[s] = {} /\ ops[s] = {"read"} /\ EchoedTo(s, received[s])
         /\ "write" \in ops[s] =>
              done[s] = {} /\ ops[s] = {"write"} /\ Buffered(s) /\ sending[s] = _data[s]
         /\ Completed("handle_read", TRUE) \in done[s] =>
              ops[s] = {} /\ done[s] = {Completed("handle_read", TRUE)} /\ Buffered(s)
         /\ Completed("handle_write", TRUE) \in done[s] =>
              /\ ops[s] = {} /\ done[s] = {Completed("handle_write", TRUE)}
              /\ EchoedTo(s, received[s])
         /\ \A h \in {"handle_read", "handle_write"} : Completed(h, FALSE) \in done[s] =>
              ops[s] = {} /\ done[s] = {Completed(h, FALSE)}
         /\ InOrder(echoed[s], received[s])
<1>1. /\ received[s] \in Nat /\ EchoState(s)
  BY ConstantsOK DEF EchoInv, TypeOK
<1>2. Buffered(s) => InOrder(echoed[s], received[s])
  <2> SUFFICES ASSUME Buffered(s) PROVE InOrder(echoed[s], received[s])
    OBVIOUS
  <2>1. /\ received[s] - Len(_data[s]) \in Nat /\ received[s] - Len(_data[s]) <= received[s]
        /\ InOrder(echoed[s], received[s] - Len(_data[s]))
    BY <1>1 DEF Buffered, EchoedTo
  <2> QED
    BY <1>1, <2>1, InOrderWidens
<1>3. InOrder(echoed[s], received[s])
  BY <1>1, <1>2 DEF EchoState, Stage, EchoedTo
<1>4. ops[s] # {} \/ done[s] # {} => Stage(s) /\ s \in Live
  BY <1>1 DEF EchoState
<1> QED
  BY <1>3, <1>4 DEF Stage, Completed

(* The initial state satisfies the inductive invariant. *)
LEMMA EchoInitHolds == Init => EchoInv
<1> SUFFICES ASSUME Init PROVE EchoInv
  OBVIOUS
<1>1. TypeOK
  <2>1. ASSUME NEW s \in Sessions
        PROVE  _data[s] \in Seq(1..MaxBytes) /\ Len(_data[s]) <= max_length
               /\ received[s] \in 0..sent[s] /\ sent[s] \in 0..MaxBytes
    BY EmptySeq, ConstantsOK DEF Init
  <2> QED
    BY <2>1 DEF Init, TypeOK
<1>2. Functions
  BY DEF Init, Functions
<1>3. ASSUME NEW s \in Sessions PROVE EchoState(s)
  <2>1. Fresh(s) /\ s \notin Live /\ ops[s] = {} /\ done[s] = {} /\ echoed[s] = <<>>
    BY DEF Init, Fresh, Live
  <2> QED
    BY <2>1, NothingEchoed DEF EchoState
<1> QED
  BY <1>1, <1>2, <1>3 DEF EchoInv

-----------------------------------------------------------------------------
(* handle_accept: the session starts to read, or is deleted after an error,*)
(* and a new one, of which nothing is known yet, takes its place.          *)
LEMMA EchoAcceptKeeps == ASSUME EchoInv, NEW s \in Sessions, Accept(s) PROVE EchoInv'
<1> USE DEF EchoInv
<1>1. /\ s \in accepting /\ s \in created /\ s \notin Live /\ s \notin deleted
      /\ ops[s] = {} /\ done[s] = {} /\ received[s] = 0 /\ echoed[s] = <<>> /\ s \notin short
      /\ EchoedTo(s, 0)
  BY NothingEchoed
     DEF Accept, handle_accept_ok, handle_accept_error, TypeOK, EchoState, Fresh, Live, EchoedTo
<1>2. /\ created \subseteq created' /\ created' \subseteq Sessions
      /\ accepting' \subseteq (accepting \ {s}) \cup (created' \ created)
      /\ accepting \ {s} \subseteq accepting'
      /\ created' \ created \subseteq accepting'
  BY DEF Accept, handle_accept_ok, handle_accept_error, start_accept, TypeOK
<1>3. UNCHANGED <<done, sending, received, echoed, short, sent, ended>>
  BY DEF Accept, handle_accept_ok, handle_accept_error, io, history, peer
<1>4. \/ StartRead(s) /\ deleted' = deleted
      \/ UNCHANGED <<ops, _data>> /\ deleted' = deleted \cup {s}
  BY DEF Accept, handle_accept_ok, handle_accept_error, AcceptError, io
<1>5. /\ ops' \in [Sessions -> SUBSET {"read", "write"}]
      /\ _data' = [t \in Sessions |-> _data'[t]]
      /\ \A t \in Sessions \ {s} : ops'[t] = ops[t] /\ _data'[t] = _data[t]
      /\ \/ ops'[s] = {"read"} /\ _data'[s] = <<>> /\ deleted' = deleted
         \/ ops'[s] = {} /\ _data'[s] = _data[s] /\ deleted' = deleted \cup {s}
  <2>1. /\ ops \in [Sessions -> SUBSET {"read", "write"}]
        /\ _data = [t \in Sessions |-> _data[t]] /\ ops[s] = {}
    BY <1>1 DEF TypeOK, Functions
  <2>2. CASE StartRead(s) /\ deleted' = deleted
    <3>1. ops' = [ops EXCEPT ![s] = ops[s] \cup {"read"}] /\ _data' = [_data EXCEPT ![s] = <<>>]
      BY <2>2 DEF StartRead
    <3>2. ops' \in [Sessions -> SUBSET {"read", "write"}] /\ ops'[s] = {"read"}
      BY <2>1, <3>1
    <3>3. _data' = [t \in Sessions |-> _data'[t]] /\ _data'[s] = <<>>
      BY <2>1, <3>1
    <3>4. \A t \in Sessions \ {s} : ops'[t] = ops[t] /\ _data'[t] = _data[t]
      BY <2>1, <3>1
    <3> QED
      BY <2>2, <3>2, <3>3, <3>4
  <2>3. CASE UNCHANGED <<ops, _data>> /\ deleted' = deleted \cup {s}
    BY <2>1, <2>3
  <2> QED
    BY <1>4, <2>2, <2>3
<1>6. TypeOK'
  <2>1. ASSUME NEW t \in Sessions
        PROVE  _data'[t] \in Seq(1..MaxBytes) /\ Len(_data'[t]) <= max_length
    <3>1. _data'[t] = <<>> \/ _data'[t] = _data[t]
      BY <1>5
    <3>2. <<>> \in Seq(1..MaxBytes) /\ Len(<<>>) <= max_length
      BY EmptySeq, ConstantsOK
    <3>3. _data[t] \in Seq(1..MaxBytes) /\ Len(_data[t]) <= max_length
      BY DEF TypeOK
    <3> QED
      BY <3>1, <3>2, <3>3
  <2>2. accepting' \subseteq created' /\ deleted' \subseteq created' /\ ended' \subseteq created'
    BY <1>1, <1>2, <1>3, <1>5 DEF TypeOK
  <2> QED
    BY <1>2, <1>3, <1>5, <2>1, <2>2 DEF TypeOK
<1>7. Functions'
  BY <1>3, <1>5 DEF Functions
<1>8. ASSUME NEW t \in Sessions PROVE EchoState(t)'
  <2>1. CASE t = s
    <3>1. s \in created' /\ s \notin accepting'
      BY <1>1, <1>2
    <3>2. EchoedTo(s, 0)'
      BY <1>1, <1>3 DEF EchoedTo
    <3>3. InOrder(echoed'[s], received'[s])
      BY <1>1, <1>3 DEF EchoedTo
    <3> QED
      BY <2>1, <3>1, <3>2, <3>3, <1>1, <1>3, <1>5 DEF EchoState, Live, Stage
  <2>2. CASE t # s /\ (t \in created \/ t \notin created')
    <3>1. t \in created' <=> t \in created
      BY <2>2, <1>2
    <3>2. t \in accepting' <=> t \in accepting
      BY <2>2, <1>2 DEF TypeOK
    <3> QED
      BY <2>2, <3>1, <3>2, <1>3, <1>5, OthersKept
  <2>3. CASE t # s /\ t \notin created /\ t \in created'
    <3>1. t \notin Live /\ t \notin Live' /\ Fresh(t)
      BY <2>3, <1>2 DEF EchoState, Live
    <3>2. Fresh(t)'
      BY <2>3, <3>1, <1>3, <1>5 DEF Fresh
    <3>3. ops'[t] = {} /\ done'[t] = {} /\ InOrder(echoed'[t], received'[t])
      BY <2>3, <3>1, <1>3, <1>5 DEF EchoState
    <3> QED
      BY <3>1, <3>2, <3>3 DEF EchoState
  <2> QED
    BY <2>1, <2>2, <2>3
<1> QED
  BY <1>6, <1>7, <1>8

(* A peer sends one more byte or ends its connection. *)
LEMMA EchoPeerKeeps ==
  ASSUME EchoInv, NEW s \in Sessions, PeerSend(s) \/ PeerEnds(s)
  PROVE  EchoInv'
<1> USE DEF EchoInv
<1>1. UNCHANGED <<created, deleted, accepting, ops, done, _data, sending, received, echoed, short>>
  BY DEF PeerSend, PeerEnds, objects, io, history
<1>2. ended' \subseteq created /\ sent' = [t \in Sessions |-> sent'[t]]
  BY DEF PeerSend, PeerEnds, Connected, TypeOK, Functions
<1>3. TypeOK'
  <2>1. ASSUME NEW t \in Sessions PROVE received[t] \in 0..sent'[t] /\ sent'[t] \in 0..MaxBytes
    <3>1. received[t] \in 0..sent[t] /\ sent[t] \in 0..MaxBytes
      BY DEF TypeOK
    <3>2. \/ sent'[t] = sent[t]
          \/ sent[t] < MaxBytes /\ sent'[t] = sent[t] + 1
      BY DEF PeerSend, PeerEnds, Functions
    <3> QED
      BY <3>1, <3>2, ConstantsOK
  <2> QED
    BY <1>1, <1>2, <2>1 DEF TypeOK
<1>4. Functions'
  BY <1>1, <1>2 DEF Functions
<1>5. \A t \in Sessions : EchoState(t)'
  BY <1>1, OthersKept
<1> QED
  BY <1>3, <1>4, <1>5

-----------------------------------------------------------------------------
(* What the completion of an operation does to the objects. *)
LEMMA CompleteIs ==
  ASSUME EchoInv, NEW s \in Sessions, NEW op \in {"read", "write"},
         NEW handler \in {"handle_read", "handle_write"}, NEW ok \in BOOLEAN,
         Complete(s, op, handler, ok)
  PROVE  /\ UNCHANGED <<created, deleted, accepting, sent, ended>>
         /\ op \in ops[s] /\ ops[s] = {op} /\ done[s] = {}
         /\ s \in Live /\ Live' = Live
         /\ ops' \in [Sessions -> SUBSET {"read", "write"}] /\ ops'[s] = {}
         /\ done' \in [Sessions -> SUBSET Handlers] /\ done'[s] = {Completed(handler, ok)}
         /\ \A t \in Sessions \ {s} : ops'[t] = ops[t] /\ done'[t] = done[t]
<1>1. /\ op \in ops[s] /\ UNCHANGED <<created, deleted, accepting, sent, ended>>
      /\ ops' = [ops EXCEPT ![s] = @ \ {op}]
      /\ done' = [done EXCEPT ![s] = @ \cup {Completed(handler, ok)}]
  BY DEF Complete, Completed, objects, peer
<1>2. Completed(handler, ok) \in Handlers
  BY DEF Completed, Handlers
<1>3. s \in Live /\ done[s] = {} /\ ops[s] = {op}
  BY <1>1, StageTells
<1>4. Live' = Live
  BY <1>1 DEF Live
<1> QED
  BY <1>1, <1>2, <1>3, <1>4 DEF EchoInv, TypeOK

(* A read completes: the bytes it put into _data are the next ones. *)
LEMMA ReadDoneKeeps == ASSUME EchoInv, NEW s \in Sessions, ReadDone(s) PROVE EchoInv'
<1> USE DEF EchoInv
<1>1. /\ UNCHANGED <<created, deleted, accepting, sent, ended>>
      /\ ops[s] = {"read"} /\ done[s] = {} /\ s \in Live /\ Live' = Live
      /\ ops' \in [Sessions -> SUBSET {"read", "write"}] /\ ops'[s] = {}
      /\ done' \in [Sessions -> SUBSET Handlers]
      /\ done'[s] = {Completed("handle_read", TRUE)}
      /\ \A t \in Sessions \ {s} : ops'[t] = ops[t] /\ done'[t] = done[t]
      /\ UNCHANGED <<sending, echoed, short>>
  BY CompleteIs DEF ReadDone
<1>2. PICK n \in 1..max_length :
        /\ n <= sent[s] - received[s]
        /\ _data' = [_data EXCEPT ![s] = Chunk(received[s] + 1, n)]
        /\ received' = [received EXCEPT ![s] = @ + n]
  BY DEF ReadDone, Room
<1>3. /\ received[s] \in Nat /\ sent[s] \in Nat /\ sent[s] <= MaxBytes /\ n \in Nat
      /\ received[s] + n <= sent[s]
  BY <1>2, ConstantsOK DEF TypeOK
<1>4. /\ _data' = [t \in Sessions |-> _data'[t]] /\ received' = [t \in Sessions |-> received'[t]]
      /\ _data'[s] = Chunk(received[s] + 1, n) /\ received'[s] = received[s] + n
      /\ \A t \in Sessions \ {s} : _data'[t] = _data[t] /\ received'[t] = received[t]
  BY <1>2 DEF Functions
<1>5. Len(_data'[s]) = n /\ _data'[s] \in Seq(1..MaxBytes)
  <2> DEFINE r == received[s] + 1
             c == Chunk(r, n)
  <2>1. r \in Nat /\ r >= 1 /\ r + n - 1 <= MaxBytes
    BY <1>3, ConstantsOK
  <2> HIDE DEF r
  <2>2. c \in Seq(Nat) /\ Len(c) = n /\ DOMAIN c = 1..n /\ \A i \in 1..n : c[i] = r + i - 1
    BY <1>3, <2>1, ChunkIs
  <2> HIDE DEF c
  <2>3. \A i \in 1..n : r + i - 1 \in 1..MaxBytes
    BY <1>3, <2>1, ConstantsOK
  <2>4. c \in [1..n -> 1..MaxBytes]
    <3>1. c \in [1..n -> Nat]
      BY <2>2, LenProperties
    <3> QED
      BY <2>2, <2>3, <3>1
  <2>5. c \in Seq(1..MaxBytes)
    BY <1>3, <2>4, SeqOf
  <2> QED
    BY <1>4, <2>2, <2>5 DEF r, c
<1>6. TypeOK'
  <2>1. ASSUME NEW t \in Sessions
        PROVE  _data'[t] \in Seq(1..MaxBytes) /\ Len(_data'[t]) <= max_length
               /\ received'[t] \in 0..sent[t] /\ sent[t] \in 0..MaxBytes
    <3>1. CASE t = s
      BY <3>1, <1>2, <1>3, <1>4, <1>5 DEF TypeOK
    <3>2. CASE t # s
      BY <3>2, <1>4 DEF TypeOK
    <3> QED
      BY <3>1, <3>2
  <2> QED
    BY <1>1, <2>1 DEF TypeOK
<1>7. Functions'
  BY <1>1, <1>4 DEF Functions
<1>8. EchoState(s)'
  <2>1. EchoedTo(s, received[s])
    BY <1>1, StageTells
  <2>2. received'[s] - n = received[s] /\ received'[s] - n + 1 = received[s] + 1
        /\ n \in 1..received'[s]
    BY <1>2, <1>3, <1>4
  <2>3. Buffered(s)'
    <3>1. InOrder(echoed'[s], received[s]) /\ (s \notin short' => echoed'[s] = Chunk(1, received[s]))
      BY <2>1, <1>1 DEF EchoedTo
    <3> QED
      BY <3>1, <2>2, <1>4, <1>5 DEF Buffered, EchoedTo
  <2> QED
    BY <2>3, <1>1 DEF EchoState, Live, Stage, TypeOK
<1>9. ASSUME NEW t \in Sessions, t # s PROVE EchoState(t)'
  BY <1>1, <1>4, <1>9, OthersKept
<1> QED
  BY <1>6, <1>7, <1>8, <1>9

(* A write completes, if only for a part of its bytes: what comes back     *)
(* continues what had come back.                                           *)
LEMMA WriteDoneKeeps == ASSUME EchoInv, NEW s \in Sessions, WriteDone(s) PROVE EchoInv'
<1> USE DEF EchoInv
<1>1. /\ UNCHANGED <<created, deleted, accepting, sent, ended>>
      /\ "write" \in ops[s] /\ done[s] = {} /\ s \in Live /\ Live' = Live
      /\ ops' \in [Sessions -> SUBSET {"read", "write"}] /\ ops'[s] = {}
      /\ done' \in [Sessions -> SUBSET Handlers]
      /\ done'[s] = {Completed("handle_write", TRUE)}
      /\ \A t \in Sessions \ {s} : ops'[t] = ops[t] /\ done'[t] = done[t]
      /\ UNCHANGED <<_data, sending, received>>
  BY CompleteIs DEF WriteDone
<1>2. Buffered(s) /\ sending[s] = _data[s]
  BY <1>1, StageTells
<1>3. PICK n \in 1..Len(_data[s]) :
        /\ echoed' = [echoed EXCEPT ![s] = @ \o SubSeq(_data[s], 1, n)]
        /\ short' = IF n < Len(_data[s]) THEN short \cup {s} ELSE short
  BY <1>2 DEF WriteDone
<1>4. /\ echoed' = [t \in Sessions |-> echoed'[t]]
      /\ echoed'[s] = echoed[s] \o SubSeq(_data[s], 1, n)
      /\ \A t \in Sessions \ {s} : echoed'[t] = echoed[t]
  BY <1>3 DEF Functions
<1>5. TypeOK' /\ Functions'
  <2>1. short' \subseteq Sessions
    BY <1>3 DEF TypeOK
  <2> QED
    BY <2>1, <1>1, <1>4 DEF TypeOK, Functions
<1>6. EchoState(s)'
  <2> DEFINE m == Len(_data[s])
             base == received[s] - m
  <2>1. /\ received[s] \in Nat /\ m \in 1..received[s] /\ m \in Nat /\ base \in Nat
        /\ base + m = received[s] /\ n \in 1..m
    BY <1>2, <1>3 DEF Buffered, TypeOK
  <2>2. _data[s] = Chunk(base + 1, m) /\ EchoedTo(s, base)
    BY <1>2 DEF Buffered
  <2> HIDE DEF m, base
  <2>3. /\ InOrder(echoed'[s], base + m)
        /\ n = m /\ echoed[s] = Chunk(1, base) => echoed'[s] = Chunk(1, base + m)
    <3>1. PICK e : e = echoed[s] /\ InOrder(e, base)
      BY <2>2 DEF EchoedTo
    <3>2. PICK q : q = SubSeq(Chunk(base + 1, m), 1, n)
      OBVIOUS
    <3>3. /\ InOrder(e \o q, base + m)
          /\ n = m /\ e = Chunk(1, base) => e \o q = Chunk(1, base + m)
      BY <2>1, <3>1, <3>2, Echoes
    <3>4. echoed'[s] = e \o q
      BY <1>4, <2>2, <3>1, <3>2
    <3> QED
      BY <3>1, <3>3, <3>4
  <2>4. s \notin short' => n = m /\ s \notin short
    BY <2>1, <1>3 DEF m
  <2>5. EchoedTo(s, received[s])'
    BY <2>1, <2>2, <2>3, <2>4, <1>1 DEF EchoedTo
  <2> QED
    BY <2>5, <1>1 DEF EchoState, Live, Stage, TypeOK
<1>7. ASSUME NEW t \in Sessions, t # s PROVE EchoState(t)'
  <2>1. t \in short' <=> t \in short
    BY <1>3, <1>7
  <2> QED
    BY <2>1, <1>1, <1>4, <1>7, OthersKept
<1> QED
  BY <1>5, <1>6, <1>7

(* An operation of an ended connection completes with an error. *)
LEMMA FailsKeeps == ASSUME EchoInv, NEW s \in Sessions, Fails(s) PROVE EchoInv'
<1> USE DEF EchoInv
<1>1. PICK h \in {"handle_read", "handle_write"} :
        /\ UNCHANGED <<created, deleted, accepting, sent, ended>>
        /\ s \in Live /\ Live' = Live
        /\ ops' \in [Sessions -> SUBSET {"read", "write"}] /\ ops'[s] = {}
        /\ done' \in [Sessions -> SUBSET Handlers] /\ done'[s] = {Completed(h, FALSE)}
        /\ \A t \in Sessions \ {s} : ops'[t] = ops[t] /\ done'[t] = done[t]
  BY CompleteIs DEF Fails
<1>2. UNCHANGED <<_data, sending, received, echoed, short>>
  BY DEF Fails, history
<1>3. TypeOK' /\ Functions'
  BY <1>1, <1>2 DEF TypeOK, Functions
<1>4. EchoState(s)'
  <2>1. InOrder(echoed'[s], received'[s])
    BY <1>2, StageTells
  <2> QED
    BY <2>1, <1>1 DEF EchoState, Live, Stage, TypeOK
<1>5. ASSUME NEW t \in Sessions, t # s PROVE EchoState(t)'
  BY <1>1, <1>2, <1>5, OthersKept
<1> QED
  BY <1>3, <1>4, <1>5

-----------------------------------------------------------------------------
(* What taking a completion out for its handler does to the objects. *)
LEMMA RunIs ==
  ASSUME EchoInv, NEW s \in Sessions,
         NEW h \in {"handle_read", "handle_write"}, NEW ok \in BOOLEAN, Run(s, h, ok)
  PROVE  /\ UNCHANGED <<created, accepting, received, echoed, short, sent, ended>>
         /\ Completed(h, ok) \in done[s] /\ ops[s] = {} /\ s \in Live
         /\ done' \in [Sessions -> SUBSET Handlers] /\ done'[s] = {}
         /\ \A t \in Sessions \ {s} : done'[t] = done[t]
<1>1. /\ UNCHANGED <<created, accepting, received, echoed, short, sent, ended>>
      /\ Completed(h, ok) \in done[s]
      /\ done' = [done EXCEPT ![s] = @ \ {Completed(h, ok)}]
  BY DEF Run, Completed, history, peer
<1>2. s \in Live /\ ops[s] = {} /\ done[s] = {Completed(h, ok)}
  BY <1>1, StageTells
<1> QED
  BY <1>1, <1>2 DEF EchoInv, TypeOK

(* handle_read sends back what is in _data. *)
LEMMA HandleReadKeeps == ASSUME EchoInv, NEW s \in Sessions, handle_read(s) PROVE EchoInv'
<1> USE DEF EchoInv
<1>1. /\ UNCHANGED <<created, accepting, received, echoed, short, sent, ended, deleted, _data>>
      /\ Completed("handle_read", TRUE) \in done[s] /\ ops[s] = {} /\ s \in Live
      /\ done' \in [Sessions -> SUBSET Handlers] /\ done'[s] = {}
      /\ \A t \in Sessions \ {s} : done'[t] = done[t]
  BY RunIs DEF handle_read, Answer
<1>2. /\ ops' \in [Sessions -> SUBSET {"read", "write"}] /\ ops'[s] = {"write"}
      /\ sending' = [t \in Sessions |-> sending'[t]] /\ sending'[s] = _data[s]
      /\ \A t \in Sessions \ {s} : ops'[t] = ops[t] /\ sending'[t] = sending[t]
  BY <1>1 DEF handle_read, Answer, TypeOK, Functions
<1>3. TypeOK' /\ Functions'
  BY <1>1, <1>2 DEF TypeOK, Functions
<1>4. EchoState(s)'
  <2>1. Buffered(s)
    BY <1>1, StageTells
  <2>2. Buffered(s)'
    BY <2>1, <1>1 DEF Buffered, EchoedTo
  <2> QED
    BY <2>2, <1>1, <1>2 DEF EchoState, Live, Stage, TypeOK
<1>5. ASSUME NEW t \in Sessions, t # s PROVE EchoState(t)'
  BY <1>1, <1>2, <1>5, OthersKept
<1> QED
  BY <1>3, <1>4, <1>5

(* handle_write clears _data and reads again. *)
LEMMA HandleWriteKeeps == ASSUME EchoInv, NEW s \in Sessions, handle_write(s) PROVE EchoInv'
<1> USE DEF EchoInv
<1>1. /\ UNCHANGED <<created, accepting, received, echoed, short, sent, ended, deleted, sending>>
      /\ Completed("handle_write", TRUE) \in done[s] /\ ops[s] = {} /\ s \in Live
      /\ done' \in [Sessions -> SUBSET Handlers] /\ done'[s] = {}
      /\ \A t \in Sessions \ {s} : done'[t] = done[t]
  BY RunIs DEF handle_write
<1>2. /\ ops' \in [Sessions -> SUBSET {"read", "write"}] /\ ops'[s] = {"read"}
      /\ _data' = [t \in Sessions |-> _data'[t]] /\ _data'[s] = <<>>
      /\ \A t \in Sessions \ {s} : ops'[t] = ops[t] /\ _data'[t] = _data[t]
  BY <1>1 DEF handle_write, ReadAgain, StartRead, TypeOK, Functions
<1>3. TypeOK' /\ Functions'
  <2>1. <<>> \in Seq(1..MaxBytes) /\ Len(<<>>) <= max_length
    BY EmptySeq, ConstantsOK
  <2>2. ASSUME NEW t \in Sessions
        PROVE  _data'[t] \in Seq(1..MaxBytes) /\ Len(_data'[t]) <= max_length
    <3>1. CASE t = s
      BY <3>1, <1>2, <2>1
    <3>2. CASE t # s
      BY <3>2, <1>2 DEF TypeOK
    <3> QED
      BY <3>1, <3>2
  <2>3. TypeOK'
    BY <1>1, <1>2, <2>2 DEF TypeOK
  <2> QED
    BY <1>1, <1>2, <2>3 DEF Functions
<1>4. EchoState(s)'
  <2>1. EchoedTo(s, received[s])
    BY <1>1, StageTells
  <2>2. EchoedTo(s, received[s])'
    BY <2>1, <1>1 DEF EchoedTo
  <2> QED
    BY <2>2, <1>1, <1>2 DEF EchoState, Live, Stage, TypeOK
<1>5. ASSUME NEW t \in Sessions, t # s PROVE EchoState(t)'
  BY <1>1, <1>2, <1>5, OthersKept
<1> QED
  BY <1>3, <1>4, <1>5

(* A handler that sees an error deletes the session, which has nothing     *)
(* else that could run on it.                                              *)
LEMMA DeleteKeeps == ASSUME EchoInv, NEW s \in Sessions, delete_this(s) PROVE EchoInv'
<1> USE DEF EchoInv
<1>1. /\ UNCHANGED <<created, accepting, received, echoed, short, sent, ended>>
      /\ ops[s] = {} /\ s \in Live
      /\ done' \in [Sessions -> SUBSET Handlers] /\ done'[s] = {}
      /\ \A t \in Sessions \ {s} : done'[t] = done[t]
      /\ UNCHANGED <<ops, _data, sending>> /\ deleted' = deleted \cup {s}
  BY RunIs DEF delete_this
<1>2. TypeOK' /\ Functions'
  BY <1>1 DEF TypeOK, Functions, Live
<1>3. EchoState(s)'
  <2>1. InOrder(echoed'[s], received'[s])
    BY <1>1, StageTells
  <2> QED
    BY <2>1, <1>1 DEF EchoState, Live, TypeOK
<1>4. ASSUME NEW t \in Sessions, t # s PROVE EchoState(t)'
  <2>1. t \in deleted' <=> t \in deleted
    BY <1>1, <1>4
  <2> QED
    BY <2>1, <1>1, <1>4, OthersKept
<1> QED
  BY <1>2, <1>3, <1>4

-----------------------------------------------------------------------------
(* The invariant of AsyncEcho is inductive. *)
LEMMA EchoStep == ASSUME EchoInv, [Next]_vars PROVE EchoInv'
<1>1. ASSUME NEW s \in Sessions, Accept(s) PROVE EchoInv'
  BY <1>1, EchoAcceptKeeps
<1>2. ASSUME NEW s \in Sessions, PeerSend(s) \/ PeerEnds(s) PROVE EchoInv'
  BY <1>2, EchoPeerKeeps
<1>3. ASSUME NEW s \in Sessions, Kernel(s) PROVE EchoInv'
  BY <1>3, ReadDoneKeeps, WriteDoneKeeps, FailsKeeps DEF Kernel
<1>4. ASSUME NEW s \in Sessions, Handle(s) PROVE EchoInv'
  BY <1>4, HandleReadKeeps, HandleWriteKeeps, DeleteKeeps DEF Handle
<1>5. CASE UNCHANGED vars
  <2>1. UNCHANGED <<created, deleted, accepting, ops, done, _data, sending, sent, received,
                    echoed, short, ended>>
    BY <1>5 DEF vars, objects, io, history, peer
  <2>2. TypeOK' /\ Functions'
    BY <2>1 DEF EchoInv, TypeOK, Functions
  <2>3. \A s \in Sessions : EchoState(s)'
    BY <2>1, OthersKept DEF EchoInv
  <2> QED
    BY <2>2, <2>3 DEF EchoInv
<1> QED
  BY <1>1, <1>2, <1>3, <1>4, <1>5 DEF Next

(* AsyncEcho: the inductive invariant holds of every behaviour. *)
THEOREM EchoInductive == Spec => []EchoInv
  BY EchoInitHolds, EchoStep, PTL DEF Spec

(* One pending operation or handler, or none, means one owner. *)
LEMMA OneOwnerHolds == EchoInv => OneOwner
<1> SUFFICES ASSUME EchoInv PROVE OneOwner
  OBVIOUS
<1>1. Cardinality({}) = 0 /\ \A x : Cardinality({x}) = 1
  BY FS_EmptySet, FS_Singleton
<1>2. ASSUME NEW s \in Live PROVE Pending(s) = 1
  <2>1. s \in Sessions /\ Stage(s)
    BY <1>2 DEF EchoInv, EchoState, TypeOK, Live
  <2>2. \/ Cardinality(ops[s]) = 1 /\ Cardinality(done[s]) = 0
        \/ Cardinality(ops[s]) = 0 /\ Cardinality(done[s]) = 1
    BY <1>1, <2>1 DEF Stage
  <2> QED
    BY <2>2 DEF Pending
<1>3. ASSUME NEW s \in Sessions \ Live PROVE Pending(s) = 0
  BY <1>1, <1>3 DEF EchoInv, EchoState, Pending
<1>4. accepting \cap deleted = {}
  BY DEF EchoInv, EchoState, Fresh, TypeOK
<1> QED
  BY <1>2, <1>3, <1>4 DEF OneOwner

(* The invariant says what Consistent does. *)
LEMMA EchoConsistentHolds == EchoInv => Consistent
<1>1. EchoInv => BufferStable
  BY StageTells DEF BufferStable, Live, EchoInv, TypeOK
<1> QED
  BY <1>1, OneOwnerHolds DEF EchoInv, Consistent

(* What comes back to a peer is in order, and complete when the session    *)
(* reads again and no send was cut short.                                  *)
LEMMA EchoInOrderHolds == EchoInv => EchoInOrder
<1> SUFFICES ASSUME EchoInv, NEW s \in Sessions
             PROVE  /\ \A i \in 2..Len(echoed[s]) : echoed[s][i - 1] < echoed[s][i]
                    /\ \A i \in DOMAIN echoed[s] : echoed[s][i] \in 1..received[s]
                    /\ "read" \in ops[s] /\ s \notin short =>
                         echoed[s] = Chunk(1, received[s])
  BY DEF EchoInOrder
<1>1. /\ InOrder(echoed[s], received[s])
      /\ "read" \in ops[s] => EchoedTo(s, received[s])
  BY StageTells
<1>2. DOMAIN echoed[s] = 1..Len(echoed[s])
  BY <1>1, LenProperties DEF InOrder
<1> QED
  BY <1>1, <1>2 DEF InOrder, EchoedTo

(* AsyncEchoServer: the peer gets its bytes back in order, none twice. *)
THEOREM EchoInOrderAlways == Spec => []EchoInOrder
  BY EchoInductive, EchoInOrderHolds, PTL

-----------------------------------------------------------------------------
(* SyncServer.  That a thread is kept in thread_set and not started twice  *)
(* rests on the backlog: no connection is in it twice, and none before its *)
(* client has connected (Queued).  What a client prints is a piece of the  *)
(* first buffer its thread sent, so the invariant follows that one         *)
(* (FirstAnswer) and need not know what the later ones hold.               *)

Bytes == (Clients \X Nat) \cup {Sync!Zero, Sync!Junk}

Queued ==
  /\ backlog \in Seq(Clients)
  /\ \A i, j \in 1..Len(backlog) : backlog[i] = backlog[j] => i = j
  /\ \A c \in Clients : clientPc[c] = "idle" => c \notin Sync!Waiting \cup thread_set

\* q is an answer to the first n bytes of the line, as far as it goes.
Answers(c, n, q) ==
  \A i \in 1..Len(q) : i <= MAX_LENGTH => q[i] = IF i <= n THEN request[c][i] ELSE Sync!Zero

FirstAnswer(c) ==
  \/ up[c] = request[c] /\ down[c] = <<>> /\ reply[c] = <<>> /\ threadPc[c] # "sending"
  \/ \E n \in 1..Len(request[c]) :
       /\ Answers(c, n, reply[c]) /\ Len(reply[c]) <= Len(request[c])
       /\ \/ threadPc[c] = "sending" /\ down[c] = <<>> /\ Answers(c, n, buffer[c])
          \/ Len(down[c]) >= MAX_LENGTH /\ Answers(c, n, down[c])
          \/ clientPc[c] = "exited"

ClientState(c) ==
  /\ {request[c], reply[c], up[c], down[c], buffer[c]} \subseteq Seq(Bytes)
  /\ Len(buffer[c]) = MAX_LENGTH /\ Len(request[c]) < MAX_LENGTH
  /\ clientPc[c] # "exited" => reply[c] = <<>>
  /\ clientPc[c] \in {"idle", "asking"} => request[c] = <<>>
  /\ FirstAnswer(c)

SyncFunctions ==
  /\ request = [c \in Clients |-> request[c]] /\ reply = [c \in Clients |-> reply[c]]
  /\ up = [c \in Clients |-> up[c]] /\ down = [c \in Clients |-> down[c]]
  /\ buffer = [c \in Clients |-> buffer[c]]

PcTypes ==
  /\ mainPc \in {"accepting", "leaving", "exited", "aborted"}
  /\ threadPc \in [Clients -> {"none", "reading", "sending", "ended"}]
  /\ clientPc \in [Clients -> {"idle", "asking", "receiving", "exited"}]

SyncInv ==
  /\ PcTypes /\ Sync!ThreadsKept /\ Queued
  /\ SyncFunctions /\ \A c \in Clients : ClientState(c)

-----------------------------------------------------------------------------
(* The first n elements of a sequence, and the others. *)
LEMMA TakeDrop ==
  ASSUME NEW S, NEW q \in Seq(S), NEW n \in 0..Len(q)
  PROVE  /\ Sync!Take(q, n) \in Seq(S) /\ Len(Sync!Take(q, n)) = n
         /\ \A i \in 1..n : Sync!Take(q, n)[i] = q[i]
         /\ Sync!Drop(q, n) \in Seq(S) /\ Len(Sync!Drop(q, n)) = Len(q) - n
         /\ \A i \in 1..(Len(q) - n) : Sync!Drop(q, n)[i] = q[n + i]
<1> DEFINE l == Len(q)
<1>1. l \in Nat /\ \A i \in 1..l : q[i] \in S
  BY LenProperties
<1> HIDE DEF l
<1>2. n \in Nat /\ n <= l
  BY <1>1 DEF l
<1>3. /\ SubSeq(q, 1, n) \in Seq(S)
      /\ Len(SubSeq(q, 1, n)) = IF 1 <= n THEN n - 1 + 1 ELSE 0
      /\ \A i \in 1..(n - 1 + 1) : SubSeq(q, 1, n)[i] = q[1 + i - 1]
  <2>1. \A i \in 1..n : q[i] \in S
    BY <1>1, <1>2
  <2>2. 1 \in Int /\ n \in Int
    BY <1>2
  <2> QED
    BY <2>1, <2>2, SubSeqProperties
<1>4. /\ SubSeq(q, n + 1, l) \in Seq(S)
      /\ Len(SubSeq(q, n + 1, l)) = IF n + 1 <= l THEN l - (n + 1) + 1 ELSE 0
      /\ \A i \in 1..(l - (n + 1) + 1) : SubSeq(q, n + 1, l)[i] = q[n + 1 + i - 1]
  <2>1. \A i \in (n + 1)..l : q[i] \in S
    BY <1>1, <1>2
  <2>2. n + 1 \in Int /\ l \in Int
    BY <1>1, <1>2
  <2> QED
    BY <2>1, <2>2, SubSeqProperties
<1>5. /\ Len(SubSeq(q, 1, n)) = n
      /\ \A i \in 1..n : SubSeq(q, 1, n)[i] = q[i]
  BY <1>2, <1>3
<1>6. /\ Len(SubSeq(q, n + 1, l)) = l - n
      /\ \A i \in 1..(l - n) : SubSeq(q, n + 1, l)[i] = q[n + i]
  BY <1>1, <1>2, <1>4
<1> QED
  BY <1>3, <1>4, <1>5, <1>6 DEF Sync!Take, Sync!Drop, l

(* A client stays where it is in a step that touches none of its parts. *)
LEMMA ClientsKept ==
  ASSUME NEW t, ClientState(t),
         UNCHANGED <<request[t], reply[t], up[t], down[t], buffer[t], threadPc[t], clientPc[t]>>
  PROVE  ClientState(t)'
<1>1. \A n, q : Answers(t, n, q) => Answers(t, n, q)'
  BY DEF Answers
<1>2. FirstAnswer(t)'
  BY <1>1 DEF ClientState, FirstAnswer
<1> QED
  BY <1>2 DEF ClientState

(* The threads are kept by a step that starts none, ends no main and lets  *)
(* no client connect.                                                      *)
LEMMA ThreadsUntouched ==
  ASSUME SyncInv, UNCHANGED <<backlog, thread_set>>, PcTypes',
         \A c \in Clients : threadPc'[c] = "none" <=> threadPc[c] = "none",
         \A c \in Clients :
           /\ clientPc'[c] = "idle" => clientPc[c] = "idle"
           /\ clientPc'[c] \in {"asking", "receiving"} => clientPc[c] \in {"asking", "receiving"},
         mainPc' = "exited" => mainPc = "exited" \/ thread_set = {}
  PROVE  Sync!ThreadsKept' /\ Queued'
  BY DEF SyncInv, PcTypes, Sync!ThreadsKept, Sync!Waiting, Queued

(* The initial state satisfies the inductive invariant. *)
LEMMA SyncInitHolds == Sync!Init => SyncInv
<1> SUFFICES ASSUME Sync!Init PROVE SyncInv
  OBVIOUS
<1> USE DEF Sync!Init
<1>1. PcTypes /\ SyncFunctions
  BY DEF PcTypes, SyncFunctions
<1>2. DOMAIN <<>> = {} /\ Len(<<>>) = 0
  OBVIOUS
<1>3. Queued
  <2>1. backlog \in Seq(Clients)
    BY EmptySeq
  <2> QED
    BY <2>1, <1>2 DEF Queued, Sync!Waiting
<1>4. Sync!ThreadsKept
  BY <1>2 DEF Sync!ThreadsKept, Sync!Waiting
<1>5. Sync!Array(Sync!Junk) \in Seq(Bytes) /\ Len(Sync!Array(Sync!Junk)) = MAX_LENGTH
  <2>1. MAX_LENGTH \in Nat
    BY SyncConstantsOK DEF Sync!ConstantsOK
  <2>2. Sync!Array(Sync!Junk) \in [1..MAX_LENGTH -> Bytes]
    BY DEF Sync!Array, Bytes
  <2> QED
    BY <2>1, <2>2, SeqOf
<1>6. ASSUME NEW c \in Clients PROVE ClientState(c)
  <2>1. <<>> \in Seq(Bytes) /\ Len(<<>>) < MAX_LENGTH
    BY EmptySeq, SyncConstantsOK DEF Sync!ConstantsOK
  <2>2. FirstAnswer(c)
    BY DEF FirstAnswer
  <2> QED
    BY <1>5, <2>1, <2>2 DEF ClientState
<1> QED
  BY <1>1, <1>3, <1>4, <1>6 DEF SyncInv

-----------------------------------------------------------------------------
(* A client connects: its connection is not in the backlog yet. *)
LEMMA ConnectKeeps == ASSUME SyncInv, NEW c \in Clients, Sync!Connect(c) PROVE SyncInv'
<1> USE DEF SyncInv
<1>1. /\ clientPc[c] = "idle" /\ mainPc = "accepting" /\ backlog' = Append(backlog, c)
      /\ clientPc' = [clientPc EXCEPT ![c] = "asking"]
      /\ UNCHANGED <<mainPc, thread_set, threadPc, buffer, request, reply, up, down>>
  BY DEF Sync!Connect, Sync!Goto, Sync!threads
<1>2. /\ Len(backlog) \in Nat /\ backlog' \in Seq(Clients) /\ Len(backlog') = Len(backlog) + 1
      /\ \A i \in 1..Len(backlog) : backlog'[i] = backlog[i]
      /\ backlog'[Len(backlog) + 1] = c
      /\ DOMAIN backlog = 1..Len(backlog) /\ DOMAIN backlog' = 1..(Len(backlog) + 1)
  <2>1. backlog \in Seq(Clients)
    BY DEF Queued
  <2>2. /\ Append(backlog, c) \in Seq(Clients) /\ Len(Append(backlog, c)) = Len(backlog) + 1
        /\ \A i \in 1..Len(backlog) : Append(backlog, c)[i] = backlog[i]
        /\ Append(backlog, c)[Len(backlog) + 1] = c
    BY <2>1, AppendProperties
  <2> QED
    BY <1>1, <2>1, <2>2, LenProperties
<1>3. Sync!Waiting' = Sync!Waiting \cup {c}
  BY <1>2 DEF Sync!Waiting
<1>4. c \notin Sync!Waiting /\ c \notin thread_set
  BY <1>1 DEF Queued
<1>5. PcTypes'
  BY <1>1 DEF PcTypes
<1>6. Sync!ThreadsKept'
  BY <1>1, <1>3, <1>4 DEF PcTypes, Sync!ThreadsKept
<1>7. Queued'
  <2>1. \A i, j \in 1..(Len(backlog) + 1) : backlog'[i] = backlog'[j] => i = j
    <3>1. \A i \in 1..Len(backlog) : backlog[i] # c
      BY <1>2, <1>4 DEF Sync!Waiting
    <3>2. \A i \in 1..(Len(backlog) + 1) : i \in 1..Len(backlog) \/ i = Len(backlog) + 1
      BY <1>2
    <3> QED
      BY <3>1, <3>2, <1>2 DEF Queued
  <2>2. \A d \in Clients : clientPc'[d] = "idle" => d \notin Sync!Waiting' \cup thread_set'
    BY <1>1, <1>3 DEF PcTypes, Queued
  <2> QED
    BY <1>2, <2>1, <2>2 DEF Queued
<1>8. SyncFunctions'
  BY <1>1 DEF SyncFunctions
<1>9. ASSUME NEW d \in Clients PROVE ClientState(d)'
  <2>1. CASE d # c
    BY <2>1, <1>1, ClientsKept DEF PcTypes
  <2>2. CASE d = c
    <3>1. reply[c] = <<>> /\ request[c] = <<>> /\ clientPc'[c] = "asking"
      BY <1>1 DEF ClientState, PcTypes
    <3>2. FirstAnswer(c)'
      BY <3>1, <1>1, EmptySeq DEF ClientState, FirstAnswer
    <3> QED
      BY <2>2, <3>1, <3>2, <1>1 DEF ClientState
  <2> QED
    BY <2>1, <2>2
<1> QED
  BY <1>5, <1>6, <1>7, <1>8, <1>9

(* A client sends its line, of which nothing has been answered. *)
LEMMA SendLineKeeps == ASSUME SyncInv, NEW c \in Clients, Sync!SendLine(c) PROVE SyncInv'
<1> USE DEF SyncInv
<1>1. PICK n \in 0..(MAX_LENGTH - 1) :
        /\ request' = [request EXCEPT ![c] = Sync!Line(c, n)]
        /\ up' = [up EXCEPT ![c] = Sync!Line(c, n)]
  BY DEF Sync!SendLine
<1>2. /\ clientPc[c] = "asking" /\ clientPc' = [clientPc EXCEPT ![c] = "receiving"]
      /\ UNCHANGED <<mainPc, backlog, thread_set, threadPc, buffer, reply, down>>
  BY DEF Sync!SendLine, Sync!Goto, Sync!server, Sync!threads
<1>3. Sync!Line(c, n) \in Seq(Bytes) /\ Len(Sync!Line(c, n)) < MAX_LENGTH
  <2>1. n \in Nat /\ n < MAX_LENGTH
    BY SyncConstantsOK DEF Sync!ConstantsOK
  <2>2. Sync!Line(c, n) \in [1..n -> Bytes]
    BY <2>1 DEF Sync!Line, Bytes
  <2>3. Len(Sync!Line(c, n)) = n
    BY <2>1 DEF Sync!Line
  <2> QED
    BY <2>1, <2>2, <2>3, SeqOf
<1>4. PcTypes' /\ SyncFunctions'
  BY <1>1, <1>2 DEF PcTypes, SyncFunctions
<1>5. Sync!ThreadsKept' /\ Queued'
  BY <1>2, <1>4, ThreadsUntouched DEF PcTypes
<1>6. ASSUME NEW d \in Clients PROVE ClientState(d)'
  <2>1. CASE d # c
    BY <2>1, <1>1, <1>2, ClientsKept DEF PcTypes, SyncFunctions
  <2>2. CASE d = c
    <3>1. reply[c] = <<>> /\ request[c] = <<>>
      BY <1>2 DEF ClientState
    <3>2. down[c] = <<>> /\ threadPc[c] # "sending"
      BY <3>1, <1>2, EmptySeq DEF ClientState, FirstAnswer
    <3>3. request'[c] = Sync!Line(c, n) /\ up'[c] = Sync!Line(c, n) /\ clientPc'[c] = "receiving"
      BY <1>1, <1>2 DEF SyncFunctions, PcTypes
    <3>4. FirstAnswer(c)'
      BY <3>1, <3>2, <3>3, <1>2 DEF FirstAnswer
    <3> QED
      BY <2>2, <3>1, <3>3, <3>4, <1>2, <1>3 DEF ClientState
  <2> QED
    BY <2>1, <2>2
<1> QED
  BY <1>4, <1>5, <1>6

(* A client receives less than an array: a piece of the first answer. *)
LEMMA ReceiveKeeps == ASSUME SyncInv, NEW c \in Clients, Sync!Receive(c) PROVE SyncInv'
<1> USE DEF SyncInv
<1>1. /\ clientPc[c] = "receiving" /\ clientPc' = [clientPc EXCEPT ![c] = "exited"]
      /\ UNCHANGED <<mainPc, backlog, thread_set, threadPc, buffer, request, up>>
  BY DEF Sync!Receive, Sync!Goto, Sync!server, Sync!threads
<1>2. /\ PcTypes' /\ clientPc'[c] = "exited"
      /\ \A d \in Clients \ {c} : clientPc'[d] = clientPc[d]
  BY <1>1 DEF PcTypes
<1>3. Sync!ThreadsKept' /\ Queued'
  BY <1>1, <1>2, ThreadsUntouched
<1>4. reply[c] = <<>> /\ {request[c], up[c], down[c], buffer[c]} \subseteq Seq(Bytes)
      /\ Len(request[c]) \in Nat /\ Len(down[c]) \in Nat /\ Len(request[c]) < MAX_LENGTH
  BY <1>1, LenProperties DEF ClientState
<1>5. CASE UNCHANGED <<reply, down>>
  <2>1. FirstAnswer(c)'
    BY <1>1, <1>2, <1>5, ClientsKept DEF ClientState, FirstAnswer, Answers
  <2>2. ClientState(c)'
    BY <2>1, <1>1, <1>2, <1>5 DEF ClientState
  <2>3. \A d \in Clients \ {c} : ClientState(d)'
    BY <1>1, <1>2, <1>5, ClientsKept
  <2> QED
    BY <2>2, <2>3, <1>1, <1>2, <1>3, <1>5 DEF SyncFunctions
<1>6. ASSUME NEW n \in 1..Sync!Min2(Len(request[c]), Len(down[c])),
             reply' = [reply EXCEPT ![c] = Sync!Take(down[c], n)],
             down' = [down EXCEPT ![c] = Sync!Drop(@, n)]
      PROVE  SyncInv'
  <2>1. n \in Nat /\ n >= 1 /\ n <= Len(request[c]) /\ n <= Len(down[c])
    BY <1>4, <1>6 DEF Sync!Min2
  <2>2. /\ reply'[c] = Sync!Take(down[c], n) /\ down'[c] = Sync!Drop(down[c], n)
        /\ \A d \in Clients \ {c} : reply'[d] = reply[d] /\ down'[d] = down[d]
        /\ SyncFunctions'
    BY <1>1, <1>6 DEF SyncFunctions
  <2>3. /\ reply'[c] \in Seq(Bytes) /\ Len(reply'[c]) = n
        /\ \A i \in 1..n : reply'[c][i] = down[c][i]
        /\ down'[c] \in Seq(Bytes)
    <3>1. down[c] \in Seq(Bytes) /\ n \in 0..Len(down[c])
      BY <1>4, <2>1
    <3> QED
      BY <3>1, <2>2, TakeDrop
  <2>4. PICK m \in 1..Len(request[c]) : Answers(c, m, down[c])
    <3>1. down[c] # <<>>
      BY <2>1, EmptySeq
    <3> QED
      BY <3>1, <1>1 DEF ClientState, FirstAnswer
  <2>5. Answers(c, m, reply[c])'
    <3>1. n < MAX_LENGTH
      BY <1>4, <2>1, SyncConstantsOK DEF Sync!ConstantsOK
    <3>2. \A i \in 1..n : i \in 1..Len(down[c]) /\ i <= MAX_LENGTH
      BY <1>4, <2>1, <3>1, SyncConstantsOK DEF Sync!ConstantsOK
    <3> QED
      BY <3>2, <2>3, <2>4, <1>1 DEF Answers
  <2>6. FirstAnswer(c)'
    BY <2>1, <2>3, <2>5, <1>1, <1>2 DEF FirstAnswer
  <2>7. ClientState(c)'
    BY <2>3, <2>6, <1>1, <1>2 DEF ClientState
  <2>8. \A d \in Clients \ {c} : ClientState(d)'
    BY <1>1, <1>2, <2>2, ClientsKept
  <2> QED
    BY <2>2, <2>7, <2>8, <1>2, <1>3
<1> QED
  BY <1>5, <1>6 DEF Sync!Receive, Sync!ReplyRoom

(* A client gives up: nothing is known any more of what it would print. *)
LEMMA ClientFailsKeeps == ASSUME SyncInv, NEW c \in Clients, Sync!ClientFails(c) PROVE SyncInv'
<1> USE DEF SyncInv
<1>1. /\ clientPc[c] \in {"idle", "asking", "receiving"}
      /\ clientPc' = [clientPc EXCEPT ![c] = "exited"]
      /\ UNCHANGED <<mainPc, backlog, thread_set, threadPc, buffer, request, reply, up, down>>
  BY DEF Sync!ClientFails, Sync!Goto, Sync!server, Sync!threads
<1>2. /\ PcTypes' /\ clientPc'[c] = "exited"
      /\ \A d \in Clients \ {c} : clientPc'[d] = clientPc[d]
  BY <1>1 DEF PcTypes
<1>3. Sync!ThreadsKept' /\ Queued'
  BY <1>1, <1>2, ThreadsUntouched
<1>4. ClientState(c)'
  BY <1>1, <1>2 DEF ClientState, FirstAnswer, Answers
<1>5. \A d \in Clients \ {c} : ClientState(d)'
  BY <1>1, <1>2, ClientsKept
<1> QED
  BY <1>1, <1>2, <1>3, <1>4, <1>5 DEF SyncFunctions

(* main accepts the first connection of the backlog, which has no thread   *)
(* and is there once, and keeps its thread.                                *)
LEMMA AcceptKeeps == ASSUME SyncInv, Sync!Accept PROVE SyncInv'
<1> USE DEF SyncInv
<1>1. /\ backlog # <<>> /\ backlog \in Seq(Clients) /\ Len(backlog) \in Nat
      /\ DOMAIN backlog = 1..Len(backlog)
  BY LenProperties DEF Queued, Sync!Accept
<1>2. PICK h \in Clients : h = Head(backlog) /\ h = backlog[1]
  BY <1>1, HeadTailProperties
<1>3. /\ mainPc = "accepting" /\ backlog # <<>>
      /\ threadPc' = [threadPc EXCEPT ![h] = "reading"]
      /\ thread_set' = thread_set \cup {h} /\ backlog' = Tail(backlog)
      /\ UNCHANGED <<mainPc, buffer, clientPc, request, reply, up, down>>
  BY <1>2 DEF Sync!Accept, Sync!Insert, Sync!clients
<1>4. /\ h \in Clients /\ Len(backlog) \in Nat /\ h = backlog[1] /\ 1 \in 1..Len(backlog)
      /\ backlog' \in Seq(Clients) /\ Len(backlog') = Len(backlog) - 1
      /\ \A i \in 1..(Len(backlog) - 1) : backlog'[i] = backlog[i + 1]
      /\ DOMAIN backlog = 1..Len(backlog) /\ DOMAIN backlog' = 1..(Len(backlog) - 1)
  <2>1. /\ Tail(backlog) \in Seq(Clients) /\ Len(Tail(backlog)) = Len(backlog) - 1
        /\ \A i \in 1..Len(Tail(backlog)) : Tail(backlog)[i] = backlog[i + 1]
    BY <1>1, HeadTailProperties
  <2>2. Len(backlog) # 0
    BY <1>1, EmptySeq
  <2>3. DOMAIN Tail(backlog) = 1..(Len(backlog) - 1)
    BY <2>1, LenProperties
  <2> QED
    BY <1>1, <1>2, <1>3, <2>1, <2>2, <2>3
<1>5. /\ h \in Sync!Waiting /\ h \notin thread_set /\ threadPc[h] = "none"
      /\ clientPc[h] # "idle"
  <2>1. h \in Sync!Waiting
    BY <1>4 DEF Sync!Waiting
  <2> QED
    BY <2>1, <1>4 DEF Sync!ThreadsKept, Queued
<1>6. \A i, j \in 1..Len(backlog) : backlog[i] = backlog[j] => i = j
  BY DEF Queued
<1>7. Sync!Waiting' = Sync!Waiting \ {h}
  <2>1. Sync!Waiting = {backlog[i] : i \in 1..Len(backlog)}
        /\ Sync!Waiting' = {backlog'[i] : i \in 1..(Len(backlog) - 1)}
    BY <1>4 DEF Sync!Waiting
  <2>2. \A i \in 1..(Len(backlog) - 1) : i + 1 \in 1..Len(backlog) /\ i + 1 # 1
    BY <1>4
  <2>3. ASSUME NEW x \in Sync!Waiting' PROVE x \in Sync!Waiting \ {h}
    <3>1. PICK i \in 1..(Len(backlog) - 1) : x = backlog'[i]
      BY <2>1, <2>3
    <3>2. x = backlog[i + 1] /\ x # backlog[1]
      BY <3>1, <2>2, <1>4, <1>6
    <3> QED
      BY <3>2, <2>1, <2>2, <1>4
  <2>4. ASSUME NEW x \in Sync!Waiting \ {h} PROVE x \in Sync!Waiting'
    <3>1. PICK i \in 1..Len(backlog) : x = backlog[i]
      BY <2>1, <2>4
    <3>2. i - 1 \in 1..(Len(backlog) - 1) /\ (i - 1) + 1 = i
      BY <3>1, <2>4, <1>4
    <3>3. backlog'[i - 1] = backlog[i]
      BY <3>2, <1>4
    <3> QED
      BY <3>1, <3>2, <3>3, <2>1
  <2> QED
    BY <2>3, <2>4
<1>8. /\ PcTypes' /\ threadPc'[h] = "reading"
      /\ \A d \in Clients \ {h} : threadPc'[d] = threadPc[d]
  BY <1>3, <1>4 DEF PcTypes
<1>9. Sync!ThreadsKept'
  BY <1>3, <1>4, <1>5, <1>7, <1>8 DEF Sync!ThreadsKept
<1>10. Queued'
  <2>1. ASSUME NEW i \in 1..(Len(backlog) - 1), NEW j \in 1..(Len(backlog) - 1),
               backlog'[i] = backlog'[j]
        PROVE  i = j
    <3>1. i + 1 \in 1..Len(backlog) /\ j + 1 \in 1..Len(backlog)
      BY <1>4
    <3>2. i + 1 = j + 1
      BY <3>1, <2>1, <1>4, <1>6
    <3> QED
      BY <3>2, <1>4
  <2>2. \A d \in Clients : clientPc'[d] = "idle" => d \notin Sync!Waiting' \cup thread_set'
    BY <1>3, <1>5, <1>7 DEF Queued
  <2> QED
    BY <2>1, <2>2, <1>4 DEF Queued
<1>11. ASSUME NEW d \in Clients PROVE ClientState(d)'
  <2>1. CASE d # h
    BY <2>1, <1>3, <1>8, ClientsKept
  <2>2. CASE d = h
    <3>1. \A n, q : Answers(h, n, q) => Answers(h, n, q)'
      BY <1>3 DEF Answers
    <3>2. FirstAnswer(h)'
      BY <3>1, <1>3, <1>5, <1>8 DEF ClientState, FirstAnswer
    <3> QED
      BY <2>2, <3>2, <1>3 DEF ClientState
  <2> QED
    BY <2>1, <2>2
<1> QED
  BY <1>3, <1>8, <1>9, <1>10, <1>11 DEF SyncFunctions

(* main fails or leaves: the threads and the clients are as they were. *)
LEMMA MainKeeps == ASSUME SyncInv, Sync!AcceptFails \/ Sync!Leave PROVE SyncInv'
<1> USE DEF SyncInv
<1>1. UNCHANGED <<backlog, thread_set, threadPc, buffer, clientPc, request, reply, up, down>>
  BY DEF Sync!AcceptFails, Sync!Leave, Sync!threads, Sync!clients
<1>2. mainPc' \in {"leaving", "exited", "aborted"} /\ (mainPc' = "exited" => thread_set = {})
  BY DEF Sync!AcceptFails, Sync!Leave
<1>3. PcTypes'
  BY <1>1, <1>2 DEF PcTypes
<1>4. Sync!ThreadsKept' /\ Queued'
  BY <1>1, <1>2, <1>3, ThreadsUntouched
<1>5. \A d \in Clients : ClientState(d)'
  BY <1>1, ClientsKept
<1> QED
  BY <1>1, <1>3, <1>4, <1>5 DEF SyncFunctions

-----------------------------------------------------------------------------
(* A thread reads some of the line into an array of zeros: the first time, *)
(* that is the answer to as many bytes.                                    *)
LEMMA ReadKeeps == ASSUME SyncInv, NEW c \in Clients, Sync!ReadSome(c) PROVE SyncInv'
<1> USE DEF SyncInv
<1>1. PICK n \in 1..Sync!Min2(Len(up[c]), MAX_LENGTH) :
        /\ buffer' = [buffer EXCEPT ![c] =
                        Sync!Take(up[c], n) \o Sync!Drop(Sync!Array(Sync!Zero), n)]
        /\ up' = [up EXCEPT ![c] = Sync!Drop(@, n)]
  BY DEF Sync!ReadSome, Sync!Memset
<1>2. /\ threadPc[c] = "reading" /\ threadPc' = [threadPc EXCEPT ![c] = "sending"]
      /\ UNCHANGED <<mainPc, backlog, thread_set, clientPc, request, reply, down>>
  BY DEF Sync!ReadSome, Sync!ThreadAt, Sync!ThreadGo, Sync!server, Sync!clients
<1>3. /\ PcTypes' /\ threadPc'[c] = "sending"
      /\ \A d \in Clients \ {c} : threadPc'[d] = threadPc[d]
  BY <1>2 DEF PcTypes
<1>4. Sync!ThreadsKept' /\ Queued'
  BY <1>2, <1>3, ThreadsUntouched
<1>5. /\ up'[c] = Sync!Drop(up[c], n)
      /\ buffer'[c] = Sync!Take(up[c], n) \o Sync!Drop(Sync!Array(Sync!Zero), n)
      /\ \A d \in Clients \ {c} : up'[d] = up[d] /\ buffer'[d] = buffer[d]
      /\ SyncFunctions'
  BY <1>1, <1>2 DEF SyncFunctions
<1>6. up[c] \in Seq(Bytes) /\ Len(up[c]) \in Nat /\ MAX_LENGTH \in Nat
  BY LenProperties, SyncConstantsOK DEF ClientState, Sync!ConstantsOK
<1>7. n \in Nat /\ n >= 1 /\ n <= Len(up[c]) /\ n <= MAX_LENGTH
  BY <1>1, <1>6 DEF Sync!Min2
<1>8. /\ up'[c] \in Seq(Bytes) /\ buffer'[c] \in Seq(Bytes) /\ Len(buffer'[c]) = MAX_LENGTH
      /\ \A i \in 1..MAX_LENGTH : buffer'[c][i] = IF i <= n THEN up[c][i] ELSE Sync!Zero
  <2> DEFINE z == Sync!Array(Sync!Zero)
             p == Sync!Take(up[c], n)
             r == Sync!Drop(z, n)
  <2>1. z \in [1..MAX_LENGTH -> Bytes] /\ \A i \in 1..MAX_LENGTH : z[i] = Sync!Zero
    BY DEF Sync!Array, Bytes
  <2>2. z \in Seq(Bytes) /\ Len(z) = MAX_LENGTH
    BY <2>1, <1>6, SeqOf
  <2> HIDE DEF z
  <2>3. /\ p \in Seq(Bytes) /\ Len(p) = n /\ \A i \in 1..n : p[i] = up[c][i]
        /\ Sync!Drop(up[c], n) \in Seq(Bytes)
    <3>1. n \in 0..Len(up[c])
      BY <1>6, <1>7
    <3> QED
      BY <3>1, <1>6, TakeDrop, ZenonT(60)
  <2>4. /\ r \in Seq(Bytes) /\ Len(r) = MAX_LENGTH - n
        /\ \A i \in 1..(MAX_LENGTH - n) : r[i] = z[n + i]
    <3>1. n \in 0..Len(z)
      BY <2>2, <1>7
    <3> QED
      BY <3>1, <2>2, TakeDrop
  <2> HIDE DEF p, r
  <2>5. /\ p \o r \in Seq(Bytes) /\ Len(p \o r) = MAX_LENGTH
        /\ \A i \in 1..MAX_LENGTH : (p \o r)[i] = IF i <= n THEN p[i] ELSE r[i - n]
    <3>1. /\ p \o r \in Seq(Bytes) /\ Len(p \o r) = Len(p) + Len(r)
          /\ \A i \in 1..(Len(p) + Len(r)) :
               (p \o r)[i] = IF i <= Len(p) THEN p[i] ELSE r[i - Len(p)]
      BY <2>3, <2>4, ConcatProperties, ZenonT(60)
    <3>2. Len(p) + Len(r) = MAX_LENGTH
      BY <2>3, <2>4, <1>6, <1>7
    <3> QED
      BY <3>1, <3>2, <2>3
  <2>6. \A i \in 1..MAX_LENGTH : ~(i <= n) => r[i - n] = Sync!Zero
    <3> SUFFICES ASSUME NEW i \in 1..MAX_LENGTH, ~(i <= n) PROVE r[i - n] = Sync!Zero
      OBVIOUS
    <3>1. i - n \in 1..(MAX_LENGTH - n) /\ n + (i - n) = i
      BY <1>6, <1>7
    <3> QED
      BY <3>1, <2>1, <2>4
  <2>7. \A i \in 1..MAX_LENGTH : (p \o r)[i] = IF i <= n THEN up[c][i] ELSE Sync!Zero
    <3> SUFFICES ASSUME NEW i \in 1..MAX_LENGTH
                 PROVE  (p \o r)[i] = IF i <= n THEN up[c][i] ELSE Sync!Zero
      OBVIOUS
    <3>1. i <= n => i \in 1..n
      BY <1>6, <1>7
    <3>2. (p \o r)[i] = IF i <= n THEN p[i] ELSE r[i - n]
      BY <2>5
    <3> QED
      BY <3>1, <3>2, <2>3, <2>6
  <2>8. buffer'[c] = p \o r
    BY <1>5 DEF p, r, z
  <2> QED
    BY <1>5, <2>3, <2>5, <2>7, <2>8
<1>9. FirstAnswer(c)'
  <2>1. CASE up[c] = request[c] /\ down[c] = <<>> /\ reply[c] = <<>>
    <3>1. n \in 1..Len(request[c])
      BY <1>6, <1>7, <2>1
    <3>2. Answers(c, n, buffer[c])'
      BY <1>2, <1>8, <2>1 DEF Answers
    <3>3. Answers(c, n, reply[c])' /\ Len(reply'[c]) <= Len(request'[c])
      <4>1. reply'[c] = <<>> /\ Len(reply'[c]) = 0 /\ request'[c] = request[c]
        BY <1>2, <2>1, EmptySeq
      <4> QED
        BY <4>1, <1>6, <2>1 DEF Answers
    <3> QED
      BY <3>1, <3>2, <3>3, <1>2, <1>3, <2>1 DEF FirstAnswer
  <2>2. CASE ~(up[c] = request[c] /\ down[c] = <<>> /\ reply[c] = <<>>)
    <3>1. \E m \in 1..Len(request[c]) :
            /\ Answers(c, m, reply[c]) /\ Len(reply[c]) <= Len(request[c])
            /\ \/ Len(down[c]) >= MAX_LENGTH /\ Answers(c, m, down[c])
               \/ clientPc[c] = "exited"
      BY <2>2, <1>2 DEF ClientState, FirstAnswer
    <3> QED
      BY <3>1, <1>2 DEF FirstAnswer, Answers
  <2> QED
    BY <2>1, <2>2
<1>10. ClientState(c)'
  BY <1>2, <1>8, <1>9 DEF ClientState
<1>11. \A d \in Clients \ {c} : ClientState(d)'
  BY <1>2, <1>3, <1>5, ClientsKept
<1> QED
  BY <1>3, <1>4, <1>5, <1>10, <1>11

(* A thread sends its array: the first one, or one after the first. *)
LEMMA SendKeeps == ASSUME SyncInv, NEW c \in Clients, Sync!SendBuffer(c) PROVE SyncInv'
<1> USE DEF SyncInv
<1>1. /\ threadPc[c] = "sending" /\ threadPc' = [threadPc EXCEPT ![c] = "reading"]
      /\ down' = [down EXCEPT ![c] = @ \o buffer[c]]
      /\ UNCHANGED <<mainPc, backlog, thread_set, clientPc, request, reply, buffer, up>>
  BY DEF Sync!SendBuffer, Sync!ThreadAt, Sync!ThreadGo, Sync!server, Sync!clients
<1>2. /\ PcTypes' /\ threadPc'[c] = "reading"
      /\ \A d \in Clients \ {c} : threadPc'[d] = threadPc[d]
  BY <1>1 DEF PcTypes
<1>3. Sync!ThreadsKept' /\ Queued'
  BY <1>1, <1>2, ThreadsUntouched
<1>4. /\ down'[c] = down[c] \o buffer[c]
      /\ \A d \in Clients \ {c} : down'[d] = down[d]
      /\ SyncFunctions'
  BY <1>1 DEF SyncFunctions
<1>5. /\ down[c] \in Seq(Bytes) /\ buffer[c] \in Seq(Bytes) /\ Len(buffer[c]) = MAX_LENGTH
      /\ Len(down[c]) \in Nat /\ MAX_LENGTH \in Nat
  BY LenProperties, SyncConstantsOK DEF ClientState, Sync!ConstantsOK
<1>6. /\ down'[c] \in Seq(Bytes) /\ Len(down'[c]) = Len(down[c]) + MAX_LENGTH
      /\ \A i \in 1..(Len(down[c]) + MAX_LENGTH) :
           down'[c][i] = IF i <= Len(down[c]) THEN down[c][i] ELSE buffer[c][i - Len(down[c])]
  <2>1. /\ down[c] \o buffer[c] \in Seq(Bytes)
        /\ Len(down[c] \o buffer[c]) = Len(down[c]) + Len(buffer[c])
        /\ \A i \in 1..(Len(down[c]) + Len(buffer[c])) :
             (down[c] \o buffer[c])[i] =
               IF i <= Len(down[c]) THEN down[c][i] ELSE buffer[c][i - Len(down[c])]
    BY <1>5, ConcatProperties
  <2> QED
    BY <2>1, <1>4, <1>5
<1>7. FirstAnswer(c)'
  <2>1. PICK m \in 1..Len(request[c]) :
          /\ Answers(c, m, reply[c]) /\ Len(reply[c]) <= Len(request[c])
          /\ \/ down[c] = <<>> /\ Answers(c, m, buffer[c])
             \/ Len(down[c]) >= MAX_LENGTH /\ Answers(c, m, down[c])
             \/ clientPc[c] = "exited"
    BY <1>1 DEF ClientState, FirstAnswer
  <2>2. Answers(c, m, reply[c])' /\ Len(reply'[c]) <= Len(request'[c])
    BY <2>1, <1>1 DEF Answers
  <2>3. CASE down[c] = <<>> /\ Answers(c, m, buffer[c])
    <3>1. Len(down[c]) = 0
      BY <2>3, EmptySeq
    <3>2. Len(down'[c]) = MAX_LENGTH /\ \A i \in 1..MAX_LENGTH : down'[c][i] = buffer[c][i]
      BY <3>1, <1>5, <1>6
    <3>3. Answers(c, m, down[c])'
      BY <3>2, <2>3, <1>1, <1>5 DEF Answers
    <3> QED
      BY <3>2, <3>3, <2>2, <1>1, <1>5 DEF FirstAnswer
  <2>4. CASE Len(down[c]) >= MAX_LENGTH /\ Answers(c, m, down[c])
    <3>1. Len(down'[c]) >= MAX_LENGTH
          /\ \A i \in 1..Len(down'[c]) :
               i <= MAX_LENGTH => i \in 1..Len(down[c]) /\ down'[c][i] = down[c][i]
      BY <2>4, <1>5, <1>6
    <3>2. Answers(c, m, down[c])'
      BY <3>1, <2>4, <1>1 DEF Answers
    <3> QED
      BY <3>1, <3>2, <2>2, <1>1 DEF FirstAnswer
  <2>5. CASE clientPc[c] = "exited"
    BY <2>2, <2>5, <1>1 DEF FirstAnswer
  <2> QED
    BY <2>1, <2>3, <2>4, <2>5
<1>8. ClientState(c)'
  BY <1>1, <1>6, <1>7 DEF ClientState
<1>9. \A d \in Clients \ {c} : ClientState(d)'
  BY <1>1, <1>2, <1>4, ClientsKept
<1> QED
  BY <1>2, <1>3, <1>4, <1>8, <1>9

(* A thread comes to its end after its client. *)
LEMMA EndKeeps == ASSUME SyncInv, NEW c \in Clients, Sync!EndSession(c) PROVE SyncInv'
<1> USE DEF SyncInv
<1>1. /\ threadPc[c] \in {"reading", "sending"} /\ clientPc[c] = "exited"
      /\ threadPc' = [threadPc EXCEPT ![c] = "ended"]
      /\ mainPc' = mainPc \/ mainPc' \in {"leaving", "aborted"}
      /\ UNCHANGED <<backlog, thread_set, clientPc, request, reply, buffer, up, down>>
  BY DEF Sync!EndSession, Sync!Gone, Sync!ThreadGo, Sync!clients
<1>2. /\ PcTypes' /\ threadPc'[c] = "ended"
      /\ \A d \in Clients \ {c} : threadPc'[d] = threadPc[d]
  BY <1>1 DEF PcTypes
<1>3. Sync!ThreadsKept' /\ Queued'
  BY <1>1, <1>2, ThreadsUntouched
<1>4. ClientState(c)'
  BY <1>1, <1>2 DEF ClientState, FirstAnswer, Answers
<1>5. \A d \in Clients \ {c} : ClientState(d)'
  BY <1>1, <1>2, ClientsKept
<1> QED
  BY <1>1, <1>2, <1>3, <1>4, <1>5 DEF SyncFunctions

(* Every step of SyncServer keeps the inductive invariant. *)
LEMMA SyncStep == SyncInv /\ [Sync!Next]_(Sync!vars) => SyncInv'
<1> SUFFICES ASSUME SyncInv, [Sync!Next]_(Sync!vars) PROVE SyncInv'
  OBVIOUS
<1>1. ASSUME NEW c \in Clients, Sync!Connect(c) \/ Sync!Client(c) PROVE SyncInv'
  BY <1>1, ConnectKeeps, SendLineKeeps, ReceiveKeeps, ClientFailsKeeps DEF Sync!Client
<1>2. ASSUME NEW c \in Clients, Sync!session(c) PROVE SyncInv'
  BY <1>2, ReadKeeps, SendKeeps, EndKeeps DEF Sync!session
<1>3. CASE Sync!Accept
  BY <1>3, AcceptKeeps
<1>4. CASE Sync!AcceptFails \/ Sync!Leave
  BY <1>4, MainKeeps
<1>5. CASE UNCHANGED Sync!vars
  <2>1. UNCHANGED <<mainPc, backlog, thread_set, threadPc, buffer, clientPc, request, reply,
                    up, down>>
    BY <1>5 DEF Sync!vars, Sync!server, Sync!threads, Sync!clients
  <2>2. PcTypes' /\ SyncFunctions'
    BY <2>1 DEF SyncInv, PcTypes, SyncFunctions
  <2>3. Sync!ThreadsKept' /\ Queued'
    BY <2>1, <2>2, ThreadsUntouched
  <2>4. \A d \in Clients : ClientState(d)'
    BY <2>1, ClientsKept DEF SyncInv
  <2> QED
    BY <2>2, <2>3, <2>4 DEF SyncInv
<1> QED
  BY <1>1, <1>2, <1>3, <1>4, <1>5 DEF Sync!Next

-----------------------------------------------------------------------------
(* The invariant says what Consistent does. *)
LEMMA SyncConsistentHolds == SyncInv => Sync!Consistent
<1> SUFFICES ASSUME SyncInv PROVE Sync!TypeOK
  BY DEF SyncInv, Sync!Consistent
<1>1. ASSUME NEW c \in Clients
      PROVE  DOMAIN buffer[c] = 1..MAX_LENGTH /\ Len(request[c]) < MAX_LENGTH
  <2>1. buffer[c] \in Seq(Bytes) /\ Len(buffer[c]) = MAX_LENGTH /\ Len(request[c]) < MAX_LENGTH
    BY DEF SyncInv, ClientState
  <2> QED
    BY <2>1, LenProperties
<1> QED
  BY <1>1 DEF SyncInv, PcTypes, Sync!TypeOK

(* A reply that agrees with the answer is a piece of it from its start. *)
LEMMA OwnEchoHolds == SyncInv => Sync!OwnEcho
<1> SUFFICES ASSUME SyncInv, NEW c \in Clients, reply[c] # <<>>
             PROVE  \E n \in 1..Len(request[c]) :
                      /\ reply[c] =
                           Sync!Take(Sync!Take(request[c], n) \o Sync!Array(Sync!Zero),
                                     Len(reply[c]))
                      /\ Len(reply[c]) <= Len(request[c])
  BY DEF Sync!OwnEcho
<1> DEFINE l == Len(reply[c])
           k == Len(request[c])
           z == Sync!Array(Sync!Zero)
<1>1. PICK n \in 1..k : Answers(c, n, reply[c]) /\ l <= k
  BY DEF SyncInv, ClientState, FirstAnswer
<1>2. /\ reply[c] \in Seq(Bytes) /\ request[c] \in Seq(Bytes)
      /\ l \in Nat /\ k \in Nat /\ k < MAX_LENGTH /\ MAX_LENGTH \in Nat
  BY LenProperties, SyncConstantsOK DEF SyncInv, ClientState, Sync!ConstantsOK
<1>3. z \in Seq(Bytes) /\ Len(z) = MAX_LENGTH /\ \A i \in 1..MAX_LENGTH : z[i] = Sync!Zero
  <2>1. z \in [1..MAX_LENGTH -> Bytes] /\ \A i \in 1..MAX_LENGTH : z[i] = Sync!Zero
    BY DEF Sync!Array, Bytes
  <2> QED
    BY <2>1, <1>2, SeqOf
<1> DEFINE p == Sync!Take(request[c], n)
           a == p \o z
<1>4. p \in Seq(Bytes) /\ Len(p) = n /\ \A i \in 1..n : p[i] = request[c][i]
  <2>1. n \in 0..Len(request[c])
    BY <1>1, <1>2
  <2> QED
    BY <2>1, <1>2, TakeDrop
<1> HIDE DEF p, z
<1>5. /\ a \in Seq(Bytes) /\ Len(a) = n + MAX_LENGTH
      /\ \A i \in 1..(n + MAX_LENGTH) : a[i] = IF i <= n THEN p[i] ELSE z[i - n]
  <2>1. PICK x \in Seq(Bytes), y \in Seq(Bytes) : x = p /\ y = z /\ Len(x) = n /\ Len(y) = MAX_LENGTH
    BY <1>3, <1>4
  <2>2. /\ x \o y \in Seq(Bytes) /\ Len(x \o y) = Len(x) + Len(y)
        /\ \A i \in 1..(Len(x) + Len(y)) :
             (x \o y)[i] = IF i <= Len(x) THEN x[i] ELSE y[i - Len(x)]
    BY ConcatProperties
  <2> QED
    BY <2>1, <2>2
<1> HIDE DEF a
<1>6. /\ Sync!Take(a, l) \in Seq(Bytes) /\ Len(Sync!Take(a, l)) = l
      /\ \A i \in 1..l : Sync!Take(a, l)[i] = a[i]
  <2>1. l \in 0..Len(a)
    BY <1>1, <1>2, <1>5
  <2> QED
    BY <2>1, <1>5, TakeDrop, ZenonT(60)
<1>7. ASSUME NEW i \in 1..l PROVE reply[c][i] = a[i]
  <2>1. i <= MAX_LENGTH /\ i \in 1..(n + MAX_LENGTH)
    BY <1>1, <1>2
  <2>2. reply[c][i] = IF i <= n THEN request[c][i] ELSE Sync!Zero
    BY <1>1, <2>1 DEF Answers
  <2>3. CASE i <= n
    BY <2>1, <2>2, <2>3, <1>4, <1>5
  <2>4. CASE ~(i <= n)
    <3>1. i - n \in 1..MAX_LENGTH
      BY <2>1, <2>4, <1>1, <1>2
    <3> QED
      BY <3>1, <2>1, <2>2, <2>4, <1>3, <1>5
  <2> QED
    BY <2>3, <2>4
<1>8. reply[c] = Sync!Take(a, l)
  BY <1>2, <1>6, <1>7, SeqEqual
<1> QED
  BY <1>1, <1>8 DEF a, p, z

-----------------------------------------------------------------------------
(* JsonServer.  Its reads alternate and take exactly a head or a body, so  *)
(* the place of the reader in the stream is known from pc alone: T is all  *)
(* that the client sent, b[i] is where its first i frames end.             *)

Q == INSTANCE SendQueue_proofs
  WITH Msgs <- 1..MaxFrames, MAX_SENDQUE_SIZE <- MAX_QUESIZE, wire <- out

Bodies == Seq(Json!Byte)

FrameAt(T, k, f) ==
  /\ Json!DecodeLen(<<T[k + 1], T[k + 2]>>) = f.len
  /\ \A j \in 1..Len(f.body) : T[k + 2 + j] = f.body[j]

Stream(T, b) ==
  /\ T \in Bodies /\ b \in [0..Len(frames) -> Nat]
  /\ b[0] = 0 /\ b[Len(frames)] = Len(T)
  /\ \A i \in 0..Len(frames) : b[i] <= Len(T)
  /\ \A i \in 1..Len(frames) :
       b[i] = b[i - 1] + 2 + Len(frames[i].body) /\ FrameAt(T, b[i - 1], frames[i])

Placed(T, k) ==  \* the first k bytes have been read
  Len(T) = k + Len(wire) /\ \A i \in 1..Len(wire) : wire[i] = T[k + i]

Awaited == frames[Len(posted) + 1]

Aligned(k, end) ==
  /\ pc = "head" => k = end
  /\ pc \in {"headRead", "body", "bodyRead"} => Len(posted) < Len(frames)
  /\ pc = "headRead" => k = end + 2 /\ Json!BodyLength = Awaited.len
  /\ pc = "body" => k = end + 2 /\ data_len = Len(Awaited.body)
  /\ pc = "bodyRead" => k = end + 2 + Len(Awaited.body) /\ _recv_msg_node = Awaited.body

Follows(T, b, k) == Stream(T, b) /\ Placed(T, k) /\ Aligned(k, b[Len(posted)])

ReaderTypes ==
  /\ wire \in Bodies /\ frames \in Seq(Frames) /\ Len(frames) <= MaxFrames
  /\ pc \in {"head", "headRead", "body", "bodyRead", "stopped", "crashed"}
  /\ _recv_head_node = <<>> \/ Len(_recv_head_node) = 2
  /\ data_len \in Nat /\ data_len <= MAX_LENGTH
  /\ posted \in Seq(Bodies) /\ Len(posted) <= Len(frames)
  /\ \A i \in 1..Len(posted) : posted[i] = frames[i].body

JsonReader == ReaderTypes /\ \E T, b : \E k \in Nat : Follows(T, b, k)

JsonAnswers ==  \* what Send was given are frames that were posted, in order
  /\ \A i \in 1..Len(accepted) : accepted[i] \in 1..Len(posted)
  /\ \A i, j \in 1..Len(accepted) : i < j => accepted[i] < accepted[j]

JsonInv ==
  JsonReader /\ Q!IInv /\ JsonAnswers /\ Json!MapExact /\ listed \in BOOLEAN

-----------------------------------------------------------------------------
(* The lemmas of the send queue are about the one of a JsonSession. *)
LEMMA JsonSender ==
  /\ Json!Sender!Init <=> Q!Init
  /\ \A k : Json!Sender!SendAccepted(k) <=> Q!SendAccepted(k)
  /\ \A k : Json!Sender!SendRefused(k) <=> Q!SendRefused(k)
  /\ Json!Sender!Write <=> Q!Write
  /\ Json!Sender!HandleWriteOk <=> Q!HandleWriteOk
  /\ Json!Sender!HandleWriteError <=> Q!HandleWriteError
  /\ Json!Sender!Close <=> Q!Close
  /\ Json!Sender!TypeOK <=> Q!TypeOK
  BY DEF Json!Sender!Init, Q!Init, Json!Sender!SendAccepted, Q!SendAccepted,
         Json!Sender!SendRefused, Q!SendRefused, Json!Sender!Write, Q!Write,
         Json!Sender!WriteDone, Q!WriteDone, Json!Sender!WritePartly, Q!WritePartly,
         Json!Sender!WriteFails, Q!WriteFails, Json!Sender!Complete, Q!Complete,
         Json!Sender!HandleWriteOk, Q!HandleWriteOk, Json!Sender!HandleWriteError,
         Q!HandleWriteError, Json!Sender!Close, Q!Close, Json!Sender!TypeOK, Q!TypeOK,
         Json!Sender!Full, Q!Full, Json!Sender!MustStart, Q!MustStart, Json!Sender!AsyncSend,
         Q!AsyncSend, Json!Sender!Fresh, Q!Fresh, Json!Sender!InSeq, Q!InSeq,
         Json!Sender!Continue, Q!Continue, Json!Sender!queueVars, Q!queueVars,
         Json!Sender!kernelVars, Q!kernelVars, Json!Sender!Completions, Q!Completions

(* The limit of its queue is as SendQueue assumes. *)
LEMMA JsonSenderOK == Q!ConstantsOK
  BY JsonConstantsOK DEF Json!ConstantsOK, Q!ConstantsOK

(* A frame of the client: whatever its length says, its body is bytes.  A  *)
(* length within the limit is the length of the body.                      *)
LEMMA JsonFrame ==
  ASSUME NEW f \in Frames
  PROVE  /\ f.len \in Json!Short
         /\ f.body \in Bodies /\ Len(f.body) \in Nat
         /\ f.len \in 0..MAX_LENGTH => Len(f.body) = f.len
<1>1. /\ f \in [len : Json!Short, body : Bodies]
      /\ f.len \in 0..MAX_LENGTH => Len(f.body) = f.len
  BY JsonConstantsOK DEF Json!ConstantsOK, Bodies
<1>2. f.len \in Json!Short /\ f.body \in Bodies
  BY <1>1
<1> QED
  BY <1>1, <1>2, LenProperties DEF Bodies

(* A signed length is split into two bytes, and comes back from them. *)
LEMMA JsonLength ==
  ASSUME NEW n \in Json!Short
  PROVE  \E q, r \in Json!Byte : Json!EncodeLen(n) = <<q, r>> /\ Json!DecodeLen(<<q, r>>) = n
<1>1. Json!SHRT_MIN \in Int /\ Json!SHRT_MAX \in Int
  BY SMT DEF Json!SHRT_MIN, Json!SHRT_MAX
<1>2. n \in Int /\ Json!SHRT_MIN <= n /\ n <= Json!SHRT_MAX
  BY <1>1, SMT DEF Json!Short
<1>3. PICK u \in Nat : u = IF n >= 0 THEN n ELSE n + 65536
  BY <1>2, SMT DEF Json!SHRT_MIN
<1>4. u < 65536 /\ n = IF u <= Json!SHRT_MAX THEN u ELSE u - 65536
  BY <1>2, <1>3, SMT DEF Json!SHRT_MIN, Json!SHRT_MAX
<1>5. n % 65536 = u
  BY <1>2, <1>3, <1>4, SMT
<1>6. n % 256 = u % 256
  BY <1>2, <1>3, SMT
<1>7. PICK q, r : q = u \div 256 /\ r = u % 256
  OBVIOUS
<1>8. q \in Nat /\ q < 256 /\ r \in Nat /\ r < 256 /\ 256 * q + r = u
  BY <1>4, <1>7, SMT
<1>9. q \in Json!Byte /\ r \in Json!Byte
  BY <1>8, SMT DEF Json!Byte
<1>10. Json!EncodeLen(n) = <<q, r>>
  BY <1>5, <1>6, <1>7, SMT DEF Json!EncodeLen
<1>11. Json!DecodeLen(<<q, r>>) = n
  BY <1>4, <1>8, SMT DEF Json!DecodeLen
<1> QED
  BY <1>9, <1>10, <1>11

(* Two sequences of bytes, one after the other. *)
LEMMA JsonJoined ==
  ASSUME NEW p \in Bodies, NEW q \in Bodies
  PROVE  /\ p \o q \in Bodies /\ Len(p) \in Nat /\ Len(q) \in Nat
         /\ Len(p \o q) = Len(p) + Len(q)
         /\ \A i \in 1..Len(p) : (p \o q)[i] = p[i]
         /\ \A i \in 1..Len(q) : (p \o q)[Len(p) + i] = q[i]
<1> USE DEF Bodies
<1> DEFINE r == p \o q
           l == Len(p)
           m == Len(q)
<1>1. l \in Nat /\ m \in Nat
  BY LenProperties
<1>2. r \in Bodies /\ Len(r) = l + m
      /\ \A i \in 1..(l + m) : r[i] = IF i <= l THEN p[i] ELSE q[i - l]
  BY ConcatProperties
<1> HIDE DEF r, l, m
<1>3. \A i \in 1..l : r[i] = p[i]
  BY <1>1, <1>2
<1>4. ASSUME NEW i \in 1..m PROVE r[l + i] = q[i]
  <2>1. l + i \in 1..(l + m) /\ ~(l + i <= l) /\ (l + i) - l = i
    BY <1>1
  <2> QED
    BY <2>1, <1>2
<1> QED
  BY <1>1, <1>2, <1>3, <1>4 DEF r, l, m

(* What an async_read of n bytes takes, and what it leaves. *)
LEMMA JsonTakeDrop ==
  ASSUME NEW q \in Bodies, NEW n \in 0..Len(q)
  PROVE  /\ Json!Take(q, n) \in Bodies /\ Len(Json!Take(q, n)) = n
         /\ \A i \in 1..n : Json!Take(q, n)[i] = q[i]
         /\ Json!Drop(q, n) \in Bodies /\ Len(Json!Drop(q, n)) = Len(q) - n
         /\ \A i \in 1..(Len(q) - n) : Json!Drop(q, n)[i] = q[n + i]
<1>1. Json!Take(q, n) = Sync!Take(q, n) /\ Json!Drop(q, n) = Sync!Drop(q, n)
  BY DEF Json!Take, Json!Drop, Sync!Take, Sync!Drop
<1>2. PICK x, y : x = Sync!Take(q, n) /\ y = Sync!Drop(q, n)
  OBVIOUS
<1>3. /\ x \in Bodies /\ Len(x) = n /\ \A i \in 1..n : x[i] = q[i]
      /\ y \in Bodies /\ Len(y) = Len(q) - n /\ \A i \in 1..(Len(q) - n) : y[i] = q[n + i]
  BY <1>2, TakeDrop DEF Bodies
<1> QED
  BY <1>1, <1>2, <1>3

(* The bytes of a frame are its length, as it is decoded, and its body. *)
LEMMA JsonEncoded ==
  ASSUME NEW f \in Frames
  PROVE  /\ Json!Encode(f) \in Bodies /\ Len(Json!Encode(f)) = 2 + Len(f.body)
         /\ FrameAt(Json!Encode(f), 0, f)
<1>1. f.len \in Json!Short /\ f.body \in Bodies /\ Len(f.body) \in Nat
  BY JsonFrame
<1>2. PICK q \in Json!Byte, r \in Json!Byte :
        Json!EncodeLen(f.len) = <<q, r>> /\ Json!DecodeLen(<<q, r>>) = f.len
  BY <1>1, JsonLength
<1>3. PICK g \in Bodies, n \in Nat : g = f.body /\ n = Len(g)
  BY <1>1
<1> DEFINE e == <<q, r>> \o g
<1>5. <<q, r>> \in Bodies /\ Len(<<q, r>>) = 2 /\ <<q, r>>[1] = q /\ <<q, r>>[2] = r
  BY DEF Bodies
<1>6. PICK h \in Bodies : h = <<q, r>>
  BY <1>5
<1>7. /\ e \in Bodies /\ Len(e) = 2 + n
      /\ e[1] = q /\ e[2] = r /\ \A j \in 1..n : e[2 + j] = g[j]
  <2>1. /\ h \o g \in Bodies /\ Len(h \o g) = Len(h) + Len(g)
        /\ \A i \in 1..Len(h) : (h \o g)[i] = h[i]
        /\ \A i \in 1..Len(g) : (h \o g)[Len(h) + i] = g[i]
    BY JsonJoined
  <2>2. Len(h) = 2 /\ h[1] = q /\ h[2] = r
    BY <1>5, <1>6
  <2> QED
    BY <1>3, <1>6, <2>1, <2>2
<1>8. Json!Encode(f) = e
  BY <1>2, <1>3 DEF Json!Encode
<1> HIDE DEF e
<1>9. Json!DecodeLen(<<e[0 + 1], e[0 + 2]>>) = f.len
  <2>1. e[0 + 1] = q /\ e[0 + 2] = r
    BY <1>7
  <2> QED
    BY <2>1, <1>2
<1>10. FrameAt(e, 0, f)
  BY <1>3, <1>7, <1>9 DEF FrameAt
<1> QED
  BY <1>3, <1>7, <1>8, <1>10

(* The lengths the other lemmas calculate with. *)
LEMMA JsonLengths ==
  ASSUME ReaderTypes
  PROVE  /\ Len(wire) \in Nat /\ Len(frames) \in Nat /\ Len(posted) \in Nat
         /\ MAX_LENGTH \in Nat /\ MaxFrames \in Nat
         /\ \A i \in 1..Len(frames) :
              /\ frames[i] \in Frames
              /\ frames[i].body \in Bodies /\ Len(frames[i].body) \in Nat
<1>1. MAX_LENGTH \in Nat /\ MaxFrames \in Nat
  BY JsonConstantsOK DEF Json!ConstantsOK
<1>2. Len(wire) \in Nat /\ Len(frames) \in Nat /\ Len(posted) \in Nat
  BY LenProperties DEF ReaderTypes, Bodies
<1>3. \A i \in 1..Len(frames) : frames[i] \in Frames
  BY ElementOfSeq DEF ReaderTypes
<1> QED
  BY <1>1, <1>2, <1>3, JsonFrame

(* The frames of the stream lie in it one after the other. *)
LEMMA JsonInStream ==
  ASSUME ReaderTypes, NEW T, NEW b, Stream(T, b)
  PROVE  /\ Len(T) \in Nat /\ b[Len(posted)] \in Nat
         /\ \A i \in 0..Len(frames) : b[i] \in Nat /\ b[i] <= Len(T)
         /\ Len(posted) < Len(frames) =>
              /\ Awaited \in Frames /\ Awaited.body \in Bodies /\ Len(Awaited.body) \in Nat
              /\ FrameAt(T, b[Len(posted)], Awaited)
              /\ b[Len(posted) + 1] = b[Len(posted)] + 2 + Len(Awaited.body)
              /\ b[Len(posted) + 1] <= Len(T)
         /\ b[Len(posted)] < Len(T) => Len(posted) < Len(frames)
<1> DEFINE n == Len(frames)
           p == Len(posted)
<1>1. n \in Nat /\ p \in Nat /\ p <= n
  BY JsonLengths DEF ReaderTypes
<1>2. Len(T) \in Nat
  BY LenProperties DEF Stream, Bodies
<1>3. b[n] = Len(T) /\ \A i \in 0..n : b[i] \in Nat /\ b[i] <= Len(T)
  BY <1>1 DEF Stream
<1>4. \A i \in 1..n :
        /\ frames[i] \in Frames
        /\ frames[i].body \in Bodies /\ Len(frames[i].body) \in Nat
        /\ b[i] = b[i - 1] + 2 + Len(frames[i].body) /\ FrameAt(T, b[i - 1], frames[i])
  BY JsonLengths DEF Stream
<1>5. Awaited = frames[p + 1]
  BY DEF Awaited
<1> HIDE DEF n, p
<1>6. b[p] \in Nat /\ (b[p] < Len(T) => p < n)
  BY <1>1, <1>2, <1>3
<1>7. p < n => p + 1 \in 1..n /\ p + 1 \in 0..n /\ (p + 1) - 1 = p
  BY <1>1
<1> QED
  BY <1>2, <1>3, <1>4, <1>5, <1>6, <1>7 DEF n, p

-----------------------------------------------------------------------------
(* At first nothing was sent. *)
LEMMA JsonInitHolds == Json!Init => JsonInv
<1> SUFFICES ASSUME Json!Init PROVE JsonInv
  OBVIOUS
<1>1. Q!IInv
  BY JsonSender, JsonSenderOK, Q!InitHolds DEF Json!Init
<1>2. /\ wire = <<>> /\ frames = <<>> /\ posted = <<>> /\ pc = "head" /\ listed = TRUE
      /\ _recv_head_node = <<>> /\ data_len = 0 /\ accepted = <<>> /\ cleared = FALSE
  BY JsonSender DEF Json!Init, Q!Init
<1>3. Len(<<>>) = 0
  OBVIOUS
<1>4. ReaderTypes
  BY <1>2, <1>3, EmptySeq, JsonConstantsOK DEF ReaderTypes, Bodies, Json!ConstantsOK
<1>5. JsonReader
  <2>1. PICK T : T = <<>>
    OBVIOUS
  <2>2. PICK b : b = [i \in 0..0 |-> 0]
    OBVIOUS
  <2>3. T \in Bodies /\ Len(T) = 0 /\ b[0] = 0 /\ b \in [0..0 -> Nat]
    BY <2>1, <2>2, EmptySeq DEF Bodies
  <2>4. Stream(T, b)
    BY <1>2, <1>3, <2>3 DEF Stream
  <2>5. Placed(T, 0) /\ Aligned(0, b[Len(posted)])
    BY <1>2, <1>3, <2>3 DEF Placed, Aligned
  <2> QED
    BY <1>4, <2>4, <2>5 DEF JsonReader, Follows
<1> QED
  BY <1>1, <1>2, <1>3, <1>5 DEF JsonInv, JsonAnswers, Json!MapExact, Json!Alive

(* The reader stays where it is in a step of the sending half. *)
LEMMA JsonReaderStays ==
  ASSUME JsonReader, UNCHANGED Json!readerVars
  PROVE  JsonReader'
<1>1. UNCHANGED <<wire, frames, pc, _recv_head_node, _recv_msg_node, data_len, posted>>
  BY DEF Json!readerVars
<1>2. ReaderTypes'
  BY <1>1 DEF JsonReader, ReaderTypes
<1>3. PICK T, b : \E k \in Nat : Follows(T, b, k)
  BY DEF JsonReader
<1>4. PICK k \in Nat : Follows(T, b, k)
  BY <1>3
<1>5. Follows(T, b, k)'
  BY <1>1, <1>4 DEF Follows, Stream, Placed, Aligned, Awaited, Json!BodyLength
<1> QED
  BY <1>2, <1>5 DEF JsonReader

(* The queue stays in its invariant, and the answers what they are, in a   *)
(* step of the reader.                                                     *)
LEMMA JsonSenderStays ==
  ASSUME Q!IInv, JsonAnswers, Json!MapExact, listed \in BOOLEAN,
         UNCHANGED <<Json!senderVars, listed, posted>>,
         pc' # "crashed" => pc # "crashed" /\ (pc' = "stopped" <=> pc = "stopped")
  PROVE  Q!IInv' /\ JsonAnswers' /\ Json!MapExact' /\ listed' \in BOOLEAN
<1>1. UNCHANGED <<_send_queue, writes, completed, open, cleared, out, cut, accepted, refused>>
  BY DEF Json!senderVars
<1>2. Q!IInv'
  <2>1. UNCHANGED Q!vars
    BY <1>1 DEF Q!vars
  <2> QED
    BY <2>1, JsonSenderOK, Q!CloseKeeps
<1>3. JsonAnswers' /\ Json!MapExact'
  BY <1>1 DEF JsonAnswers, Json!MapExact, Json!Alive
<1> QED
  BY <1>2, <1>3

(* EndSession: nothing is read any more, and the session leaves the map. *)
LEMMA JsonEndKeeps ==
  ASSUME JsonInv, Json!EndSession
  PROVE  JsonInv'
<1>1. /\ pc' = "stopped" /\ listed' = FALSE /\ Q!Close
      /\ UNCHANGED <<wire, frames, _recv_head_node, _recv_msg_node, data_len, posted>>
  BY JsonSender DEF Json!EndSession, Json!ClearSession
<1>2. Q!IInv' /\ UNCHANGED <<accepted, cleared>>
  BY <1>1, JsonSenderOK, Q!CloseKeeps DEF JsonInv, Q!Close, Q!queueVars
<1>3. ReaderTypes'
  BY <1>1 DEF JsonInv, JsonReader, ReaderTypes
<1>4. PICK T, b : \E k \in Nat : Follows(T, b, k)
  BY DEF JsonInv, JsonReader
<1>5. PICK k \in Nat : Follows(T, b, k)
  BY <1>4
<1>6. Follows(T, b, k)'
  BY <1>1, <1>5 DEF Follows, Stream, Placed, Aligned
<1>7. JsonAnswers' /\ Json!MapExact'
  BY <1>1, <1>2 DEF JsonInv, JsonAnswers, Json!MapExact, Json!Alive
<1> QED
  BY <1>1, <1>2, <1>3, <1>6, <1>7 DEF JsonInv, JsonReader

-----------------------------------------------------------------------------
(* A frame of the client makes the stream longer and moves nothing in it. *)
LEMMA JsonPeerKeeps ==
  ASSUME JsonReader, NEW f \in Frames, Json!PeerSend(f)
  PROVE  JsonReader'
<1> DEFINE n == Len(frames)
           p == Len(posted)
           w == Json!Encode(f)
<1>1. PICK T, b : \E k \in Nat : Follows(T, b, k)
  BY DEF JsonReader
<1>2. PICK k \in Nat : Follows(T, b, k)
  BY <1>1
<1>3. ReaderTypes /\ Stream(T, b) /\ Placed(T, k) /\ Aligned(k, b[p])
  BY <1>2 DEF JsonReader, Follows
<1>4. /\ n \in Nat /\ p \in Nat /\ p <= n /\ n < MaxFrames /\ MaxFrames \in Nat
      /\ Len(wire) \in Nat
      /\ \A i \in 1..n : frames[i] \in Frames /\ Len(frames[i].body) \in Nat
  BY <1>3, JsonLengths DEF ReaderTypes, Json!PeerSend
<1>5. /\ UNCHANGED <<pc, _recv_head_node, _recv_msg_node, data_len, posted>>
      /\ frames' = Append(frames, f) /\ wire' = wire \o w
  BY DEF Json!PeerSend
<1>6. /\ frames' \in Seq(Frames) /\ Len(frames') = n + 1
      /\ \A i \in 1..n : frames'[i] = frames[i]
      /\ frames'[n + 1] = f
  BY <1>3, <1>5, AppendProperties DEF ReaderTypes
<1>7. w \in Bodies /\ Len(w) = 2 + Len(f.body) /\ FrameAt(w, 0, f) /\ Len(f.body) \in Nat
  BY JsonEncoded, JsonFrame
<1> HIDE DEF w
<1>8. /\ wire' \in Bodies /\ Len(wire') = Len(wire) + Len(w)
      /\ \A i \in 1..Len(wire) : wire'[i] = wire[i]
      /\ \A i \in 1..Len(w) : wire'[Len(wire) + i] = w[i]
  BY <1>3, <1>5, <1>7, JsonJoined DEF ReaderTypes
<1>9. PICK T2 : T2 = T \o w
  OBVIOUS
<1>10. /\ T2 \in Bodies /\ Len(T2) = Len(T) + Len(w)
       /\ \A i \in 1..Len(T) : T2[i] = T[i]
       /\ \A i \in 1..Len(w) : T2[Len(T) + i] = w[i]
  BY <1>3, <1>7, <1>9, JsonJoined DEF Stream
<1>11. /\ Len(T) \in Nat /\ b[n] = Len(T) /\ b[0] = 0
       /\ \A i \in 0..n : b[i] \in Nat /\ b[i] <= Len(T)
       /\ \A i \in 1..n :
            b[i] = b[i - 1] + 2 + Len(frames[i].body) /\ FrameAt(T, b[i - 1], frames[i])
  BY <1>3, <1>4, LenProperties DEF Stream, Bodies
<1>12. PICK b2 : b2 = [i \in 0..(n + 1) |-> IF i <= n THEN b[i] ELSE Len(T2)]
  OBVIOUS
<1> HIDE DEF n, p
<1>13. /\ b2 \in [0..(n + 1) -> Nat] /\ b2[0] = 0 /\ b2[n + 1] = Len(T2)
       /\ \A i \in 0..n : b2[i] = b[i]
  BY <1>4, <1>7, <1>10, <1>11, <1>12
<1>14. ReaderTypes'
  <2>1. Len(posted') <= Len(frames') /\ \A i \in 1..Len(posted') : posted'[i] = frames'[i].body
    <3>1. /\ posted' = posted /\ p = Len(posted)
          /\ \A i \in 1..p : i \in 1..n /\ posted[i] = frames[i].body
      BY <1>3, <1>4, <1>5 DEF ReaderTypes, p
    <3> QED
      BY <3>1, <1>4, <1>6
  <2> QED
    BY <2>1, <1>3, <1>4, <1>5, <1>6, <1>8 DEF ReaderTypes
<1>15. ASSUME NEW i \in 1..(n + 1)
       PROVE  b2[i] = b2[i - 1] + 2 + Len(frames'[i].body) /\ FrameAt(T2, b2[i - 1], frames'[i])
  <2>1. CASE i = n + 1
    <3>1. /\ b2[i] = Len(T) + (2 + Len(f.body)) /\ i - 1 = n /\ b2[i - 1] = Len(T) /\ frames'[i] = f
      BY <2>1, <1>4, <1>6, <1>7, <1>10, <1>11, <1>13
    <3>2. FrameAt(T2, Len(T), f)
      <4>1. /\ 1 \in 1..Len(w) /\ 2 \in 1..Len(w)
            /\ \A j \in 1..Len(f.body) : 2 + j \in 1..Len(w) /\ Len(T) + 2 + j = Len(T) + (2 + j)
        BY <1>7, <1>11
      <4>2. T2[Len(T) + 1] = w[0 + 1] /\ T2[Len(T) + 2] = w[0 + 2]
        BY <4>1, <1>10
      <4>3. \A j \in 1..Len(f.body) : T2[Len(T) + 2 + j] = w[0 + 2 + j]
        BY <4>1, <1>10
      <4>4. FrameAt(w, 0, f)
        BY <1>7
      <4> QED
        BY <4>2, <4>3, <4>4 DEF FrameAt
    <3>3. PICK x \in Nat, y \in Nat : x = Len(T) /\ y = Len(f.body)
      BY <1>7, <1>11
    <3>4. b2[i] = x + (2 + y) /\ b2[i - 1] = x
      BY <3>1, <3>3
    <3>5. b2[i] = b2[i - 1] + 2 + y
      BY <3>4
    <3> QED
      BY <3>1, <3>2, <3>3, <3>5
  <2>2. CASE i # n + 1
    <3>1. i \in 1..n /\ i \in 0..n /\ i - 1 \in 0..n
      BY <2>2, <1>4
    <3>2. PICK g : g = frames[i]
      OBVIOUS
    <3>3. PICK s \in Nat : s = b[i - 1]
      BY <3>1, <1>11
    <3>4. /\ b2[i] = b[i] /\ b2[i - 1] = s /\ frames'[i] = g /\ Len(g.body) \in Nat
          /\ b[i] = s + 2 + Len(g.body) /\ s + 2 + Len(g.body) <= Len(T) /\ FrameAt(T, s, g)
      BY <3>1, <3>2, <3>3, <1>4, <1>6, <1>11, <1>13
    <3>5. /\ s + 1 \in 1..Len(T) /\ s + 2 \in 1..Len(T)
          /\ \A j \in 1..Len(g.body) : s + 2 + j \in 1..Len(T)
      <4>1. PICK x \in Nat, y \in Nat : x = Len(T) /\ y = Len(g.body)
        BY <3>4, <1>11
      <4>2. s + 2 + y <= x
        BY <3>4, <4>1
      <4>3. s + 1 \in 1..x /\ s + 2 \in 1..x /\ \A j \in 1..y : s + 2 + j \in 1..x
        BY <4>2
      <4> QED
        BY <4>1, <4>3
    <3>6. FrameAt(T2, s, g)
      <4>1. T2[s + 1] = T[s + 1] /\ T2[s + 2] = T[s + 2]
        BY <3>5, <1>10
      <4>2. \A j \in 1..Len(g.body) : T2[s + 2 + j] = T[s + 2 + j]
        BY <3>5, <1>10
      <4> QED
        BY <4>1, <4>2, <3>4 DEF FrameAt
    <3> QED
      BY <3>4, <3>6
  <2> QED
    BY <2>1, <2>2
<1>16. Stream(T2, b2)'
  <2>1. \A i \in 0..(n + 1) : b2[i] <= Len(T2)
    <3> SUFFICES ASSUME NEW i \in 0..(n + 1) PROVE b2[i] <= Len(T2)
      OBVIOUS
    <3>1. CASE i = n + 1
      BY <3>1, <1>7, <1>10, <1>11, <1>13
    <3>2. CASE i # n + 1
      <4>1. i \in 0..n
        BY <3>2, <1>4
      <4>2. b2[i] = b[i] /\ b[i] \in Nat /\ b[i] <= Len(T)
        BY <4>1, <1>11, <1>13
      <4> QED
        BY <4>2, <1>7, <1>10, <1>11
    <3> QED
      BY <3>1, <3>2
  <2>2. Len(frames') = n + 1 /\ T2 \in Bodies
    BY <1>6, <1>10
  <2>3. b2 \in [0..(n + 1) -> Nat] /\ b2[0] = 0 /\ b2[n + 1] = Len(T2)
    BY <1>13
  <2> QED
    BY <2>1, <2>2, <2>3, <1>15 DEF Stream
<1>17. Placed(T2, k)'
  <2>1. Len(T) = k + Len(wire) /\ \A i \in 1..Len(wire) : wire[i] = T[k + i]
    BY <1>3 DEF Placed
  <2>2. Len(T2) = k + Len(wire')
    <3>1. PICK x \in Nat, y \in Nat : x = Len(wire) /\ y = Len(w)
      BY <1>4, <1>7
    <3>2. Len(T) = k + x
      BY <2>1, <3>1
    <3>3. Len(wire') = x + y /\ Len(T2) = Len(T) + y
      BY <1>8, <1>10, <3>1
    <3>4. Len(T2) = (k + x) + y
      BY <3>2, <3>3
    <3> QED
      BY <3>3, <3>4
  <2>3. ASSUME NEW i \in 1..Len(wire') PROVE wire'[i] = T2[k + i]
    <3>1. CASE i <= Len(wire)
      <4>1. i \in 1..Len(wire) /\ k + i \in 1..Len(T)
        BY <3>1, <2>1, <1>4
      <4> QED
        BY <4>1, <2>1, <1>8, <1>10
    <3>2. CASE ~(i <= Len(wire))
      <4>1. PICK j \in 1..Len(w) : i = Len(wire) + j
        <5>1. i - Len(wire) \in 1..Len(w) /\ i = Len(wire) + (i - Len(wire))
          BY <3>2, <1>4, <1>7, <1>8
        <5> QED
          BY <5>1
      <4>2. k + i = Len(T) + j
        BY <4>1, <2>1, <1>4
      <4> QED
        BY <4>1, <4>2, <1>8, <1>10
    <3> QED
      BY <3>1, <3>2
  <2> QED
    BY <2>2, <2>3 DEF Placed
<1>18. Aligned(k, b2[p])'
  <2>1. p \in 0..n /\ b2[p] = b[p]
    BY <1>4, <1>13
  <2>2. p < n => p + 1 \in 1..n /\ p < n + 1
    BY <1>4
  <2>3. Len(posted) = p /\ Len(frames) = n
    BY DEF p, n
  <2>4. p < n => Awaited' = Awaited
    BY <2>2, <2>3, <1>5, <1>6 DEF Awaited
  <2>5. p' = p /\ Json!BodyLength' = Json!BodyLength
    BY <1>5 DEF p, Json!BodyLength
  <2> QED
    BY <2>1, <2>2, <2>3, <2>4, <2>5, <1>3, <1>5, <1>6 DEF Aligned
<1>19. b2[p]' = b2[Len(posted')]
  BY <1>5 DEF p
<1>20. Follows(T2, b2, k)'
  BY <1>16, <1>17, <1>18, <1>19 DEF Follows
<1> QED
  BY <1>14, <1>20 DEF JsonReader

(* What an async_read of n bytes does to the wire: the stream stays, its   *)
(* next n bytes have been read.                                            *)
LEMMA JsonRead ==
  ASSUME ReaderTypes, NEW T, NEW b, Stream(T, b), NEW k \in Nat, Placed(T, k),
         NEW n \in Nat, Len(wire) >= n,
         wire' = Json!Drop(wire, n), UNCHANGED <<frames, posted>>
  PROVE  /\ wire' \in Bodies /\ Stream(T, b)' /\ Placed(T, k + n)'
         /\ Json!Take(wire, n) \in Bodies /\ Len(Json!Take(wire, n)) = n
         /\ \A i \in 1..n : Json!Take(wire, n)[i] = T[k + i]
<1>1. wire \in Bodies /\ Len(wire) \in Nat /\ n \in 0..Len(wire) /\ Len(T) \in Nat
  BY JsonLengths, JsonInStream DEF ReaderTypes
<1>2. PICK q \in Bodies : q = wire
  BY <1>1
<1>3. n \in 0..Len(q)
  BY <1>1, <1>2
<1>4. /\ Json!Take(q, n) \in Bodies /\ Len(Json!Take(q, n)) = n
      /\ \A i \in 1..n : Json!Take(q, n)[i] = q[i]
      /\ Json!Drop(q, n) \in Bodies /\ Len(Json!Drop(q, n)) = Len(q) - n
      /\ \A i \in 1..(Len(q) - n) : Json!Drop(q, n)[i] = q[n + i]
  BY <1>3, JsonTakeDrop
<1>5. Len(T) = k + Len(q) /\ \A i \in 1..Len(q) : q[i] = T[k + i]
  BY <1>2 DEF Placed
<1>6. \A i \in 1..n : i \in 1..Len(q)
  BY <1>3
<1>7. Placed(T, k + n)'
  <2>1. wire' = Json!Drop(q, n) /\ Len(q) \in Nat
    BY <1>1, <1>2
  <2>2. Len(T) = k + n + Len(wire')
    BY <2>1, <1>4, <1>5
  <2>3. ASSUME NEW i \in 1..Len(wire') PROVE wire'[i] = T[k + n + i]
    <3>1. n + i \in 1..Len(q) /\ k + (n + i) = k + n + i /\ i \in 1..(Len(q) - n)
      BY <2>1, <1>3, <1>4
    <3> QED
      BY <3>1, <2>1, <1>4, <1>5
  <2> QED
    BY <2>2, <2>3 DEF Placed
<1>8. Stream(T, b)'
  BY DEF Stream
<1> QED
  BY <1>2, <1>4, <1>5, <1>6, <1>7, <1>8

(* The head that is read is that of the next frame. *)
LEMMA JsonReadHeadKeeps ==
  ASSUME JsonReader, Json!ReadHead
  PROVE  JsonReader'
<1>1. PICK T, b : \E k \in Nat : Follows(T, b, k)
  BY DEF JsonReader
<1>2. PICK k \in Nat : Follows(T, b, k)
  BY <1>1
<1>3. ReaderTypes /\ Stream(T, b) /\ Placed(T, k) /\ Aligned(k, b[Len(posted)])
  BY <1>2 DEF JsonReader, Follows
<1>4. /\ pc = "head" /\ Len(wire) >= 2 /\ pc' = "headRead"
      /\ _recv_head_node' = Json!Take(wire, 2) /\ wire' = Json!Drop(wire, 2)
      /\ UNCHANGED <<frames, _recv_msg_node, data_len, posted>>
  BY DEF Json!ReadHead, Json!HEAD_LENGTH
<1>5. k = b[Len(posted)] /\ Len(wire) \in Nat
  BY <1>3, <1>4, JsonLengths DEF Aligned
<1>6. /\ wire' \in Bodies /\ Stream(T, b)' /\ Placed(T, k + 2)'
      /\ Len(_recv_head_node') = 2
      /\ \A i \in 1..2 : _recv_head_node'[i] = T[k + i]
  <2>1. PICK n \in Nat : n = 2 /\ Len(wire) >= n
    BY <1>4
  <2>2. wire' = Json!Drop(wire, n) /\ UNCHANGED <<frames, posted>>
    BY <1>4, <2>1
  <2>3. ReaderTypes /\ Stream(T, b) /\ Placed(T, k) /\ Len(wire) >= n
    BY <1>3, <2>1
  <2>4. /\ wire' \in Bodies /\ Stream(T, b)' /\ Placed(T, k + n)'
        /\ Len(Json!Take(wire, n)) = n
        /\ \A i \in 1..n : Json!Take(wire, n)[i] = T[k + i]
    BY <2>2, <2>3, JsonRead
  <2> QED
    BY <2>1, <2>4, <1>4
<1>7. /\ Len(posted) < Len(frames) /\ FrameAt(T, k, Awaited)
  <2>1. k < Len(T)
    BY <1>3, <1>4, <1>5 DEF Placed
  <2> QED
    BY <2>1, <1>3, <1>5, JsonInStream
<1>8. Json!BodyLength' = Awaited.len
  <2>1. _recv_head_node'[1] = T[k + 1] /\ _recv_head_node'[2] = T[k + 2]
    BY <1>6
  <2> QED
    BY <2>1, <1>7 DEF Json!BodyLength, Json!DecodeLen, FrameAt
<1>9. Awaited' = Awaited
  BY <1>4 DEF Awaited
<1>10. ReaderTypes'
  BY <1>3, <1>4, <1>6 DEF ReaderTypes
<1>11. Aligned(k + 2, b[Len(posted)])'
  BY <1>4, <1>5, <1>7, <1>8, <1>9 DEF Aligned
<1>12. k + 2 \in Nat /\ Follows(T, b, k + 2)'
  BY <1>4, <1>6, <1>11 DEF Follows
<1> QED
  BY <1>10, <1>12 DEF JsonReader

(* The body that is read is that of the next frame. *)
LEMMA JsonReadBodyKeeps ==
  ASSUME JsonReader, Json!ReadBody
  PROVE  JsonReader'
<1>1. PICK T, b : \E k \in Nat : Follows(T, b, k)
  BY DEF JsonReader
<1>2. PICK k \in Nat : Follows(T, b, k)
  BY <1>1
<1>3. ReaderTypes /\ Stream(T, b) /\ Placed(T, k) /\ Aligned(k, b[Len(posted)])
  BY <1>2 DEF JsonReader, Follows
<1>4. /\ pc = "body" /\ Len(wire) >= data_len /\ pc' = "bodyRead"
      /\ _recv_msg_node' = Json!Take(wire, data_len) /\ wire' = Json!Drop(wire, data_len)
      /\ UNCHANGED <<frames, _recv_head_node, data_len, posted>>
  BY DEF Json!ReadBody
<1>5. /\ k = b[Len(posted)] + 2 /\ data_len = Len(Awaited.body) /\ data_len \in Nat
      /\ Len(posted) < Len(frames) /\ b[Len(posted)] \in Nat
  BY <1>3, <1>4, JsonInStream DEF Aligned, ReaderTypes
<1>6. PICK m \in Nat : m = k + data_len
  BY <1>5
<1>7. /\ wire' \in Bodies /\ Stream(T, b)' /\ Placed(T, m)'
      /\ _recv_msg_node' \in Bodies /\ Len(_recv_msg_node') = data_len
      /\ \A i \in 1..data_len : _recv_msg_node'[i] = T[k + i]
  <2>1. PICK n \in Nat : n = data_len
    BY <1>5
  <2>2. /\ wire' \in Bodies /\ Stream(T, b)' /\ Placed(T, k + n)'
        /\ Json!Take(wire, n) \in Bodies /\ Len(Json!Take(wire, n)) = n
        /\ \A i \in 1..n : Json!Take(wire, n)[i] = T[k + i]
    BY <2>1, <1>3, <1>4, JsonRead
  <2> QED
    BY <2>1, <2>2, <1>4, <1>6
<1>8. Awaited.body \in Bodies /\ FrameAt(T, b[Len(posted)], Awaited)
  BY <1>3, <1>5, JsonInStream
<1>9. _recv_msg_node' = Awaited.body
  <2>1. \A i \in 1..data_len : _recv_msg_node'[i] = Awaited.body[i]
    BY <1>5, <1>7, <1>8 DEF FrameAt
  <2> QED
    BY <2>1, <1>5, <1>7, <1>8, SeqEqual DEF Bodies
<1>10. Awaited' = Awaited
  BY <1>4 DEF Awaited
<1>11. ReaderTypes'
  BY <1>3, <1>4, <1>7 DEF ReaderTypes
<1>12. Aligned(m, b[Len(posted)])'
  BY <1>4, <1>5, <1>6, <1>9, <1>10 DEF Aligned
<1>13. Follows(T, b, m)'
  BY <1>4, <1>7, <1>12 DEF Follows
<1> QED
  BY <1>11, <1>13 DEF JsonReader

(* A head with a length from 0 to the limit: its body is read next. *)
LEMMA JsonHeadValidKeeps ==
  ASSUME JsonReader, Json!HeadValid
  PROVE  JsonReader'
<1>1. PICK T, b : \E k \in Nat : Follows(T, b, k)
  BY DEF JsonReader
<1>2. PICK k \in Nat : Follows(T, b, k)
  BY <1>1
<1>3. ReaderTypes /\ Stream(T, b) /\ Placed(T, k) /\ Aligned(k, b[Len(posted)])
  BY <1>2 DEF JsonReader, Follows
<1>4. /\ pc = "headRead" /\ Json!BodyLength \in 0..MAX_LENGTH
      /\ pc' = "body" /\ data_len' = Json!BodyLength
      /\ UNCHANGED <<wire, frames, _recv_head_node, _recv_msg_node, posted>>
  BY DEF Json!HeadValid
<1>5. /\ k = b[Len(posted)] + 2 /\ Json!BodyLength = Len(Awaited.body)
      /\ Len(posted) < Len(frames) /\ Len(Awaited.body) \in Nat /\ MAX_LENGTH \in Nat
      /\ Len(Awaited.body) <= MAX_LENGTH
  <2>1. /\ k = b[Len(posted)] + 2 /\ Json!BodyLength = Awaited.len
        /\ Len(posted) < Len(frames) /\ Awaited \in Frames
    BY <1>3, <1>4, JsonInStream DEF Aligned
  <2>2. MAX_LENGTH \in Nat
    BY <1>3, JsonLengths
  <2> QED
    BY <2>1, <2>2, <1>4, JsonFrame
<1>6. Awaited' = Awaited
  BY <1>4 DEF Awaited
<1>7. ReaderTypes'
  BY <1>3, <1>4, <1>5 DEF ReaderTypes
<1>8. Follows(T, b, k)'
  BY <1>3, <1>4, <1>5, <1>6 DEF Follows, Stream, Placed, Aligned
<1> QED
  BY <1>7, <1>8 DEF JsonReader

(* A negative length: nothing is read any more. *)
LEMMA JsonHeadNegativeKeeps ==
  ASSUME JsonReader, Json!HeadNegative
  PROVE  JsonReader'
<1>1. PICK T, b : \E k \in Nat : Follows(T, b, k)
  BY DEF JsonReader
<1>2. PICK k \in Nat : Follows(T, b, k)
  BY <1>1
<1>3. /\ pc' = "crashed"
      /\ UNCHANGED <<wire, frames, _recv_head_node, _recv_msg_node, data_len, posted>>
  BY DEF Json!HeadNegative
<1>4. ReaderTypes'
  BY <1>3 DEF JsonReader, ReaderTypes
<1>5. Follows(T, b, k)'
  BY <1>2, <1>3 DEF Follows, Stream, Placed, Aligned
<1> QED
  BY <1>4, <1>5 DEF JsonReader

-----------------------------------------------------------------------------
(* HandleReadMsg hands the next frame to Send, accepted or refused, and    *)
(* its number is greater than those before.                                *)
LEMMA JsonMsgKeeps ==
  ASSUME JsonInv, Json!HandleReadMsg
  PROVE  JsonInv'
<1> DEFINE p == Len(posted)
           m == p + 1
<1>1. PICK T, b : \E k \in Nat : Follows(T, b, k)
  BY DEF JsonInv, JsonReader
<1>2. PICK k \in Nat : Follows(T, b, k)
  BY <1>1
<1>3. ReaderTypes /\ Stream(T, b) /\ Placed(T, k) /\ Aligned(k, b[p])
  BY <1>2 DEF JsonInv, JsonReader, Follows
<1>4. /\ pc = "bodyRead" /\ posted' = Append(posted, _recv_msg_node)
      /\ pc' = "head" /\ _recv_head_node' = <<>>
      /\ UNCHANGED <<wire, frames, _recv_msg_node, data_len, listed>>
      /\ Q!SendAccepted(Len(posted')) \/ Q!SendRefused(Len(posted'))
  BY JsonSender DEF Json!HandleReadMsg, Json!Send, Json!NextRead
<1>5. /\ k = b[p] + 2 + Len(Awaited.body) /\ _recv_msg_node = Awaited.body
      /\ Awaited.body \in Bodies /\ b[p + 1] = b[p] + 2 + Len(Awaited.body)
      /\ p \in Nat /\ p < Len(frames) /\ Len(frames) \in Nat /\ Len(frames) <= MaxFrames
      /\ MaxFrames \in Nat
  BY <1>3, <1>4, JsonInStream, JsonLengths DEF Aligned, ReaderTypes
<1>6. /\ posted' \in Seq(Bodies) /\ Len(posted') = m
      /\ \A i \in 1..p : posted'[i] = posted[i]
      /\ posted'[m] = frames[m].body
  BY <1>3, <1>4, <1>5, AppendProperties DEF ReaderTypes, Awaited
<1>7. m \in 1..MaxFrames /\ m <= Len(frames)
  BY <1>5
<1>8. ReaderTypes'
  <2>1. \A i \in 1..m : posted'[i] = frames[i].body
    <3> SUFFICES ASSUME NEW i \in 1..m PROVE posted'[i] = frames[i].body
      OBVIOUS
    <3>1. i = m \/ i \in 1..p
      BY <1>5
    <3>2. CASE i \in 1..p
      BY <3>2, <1>3, <1>6 DEF ReaderTypes
    <3> QED
      BY <3>1, <3>2, <1>6
  <2>2. posted' \in Seq(Bodies) /\ Len(posted') <= Len(frames')
        /\ \A i \in 1..Len(posted') : posted'[i] = frames'[i].body
    BY <2>1, <1>4, <1>6, <1>7
  <2> QED
    BY <2>2, <1>3, <1>4 DEF ReaderTypes
<1>9. JsonReader'
  <2>1. b[Len(posted')] = k
    BY <1>5, <1>6
  <2>2. Stream(T, b)' /\ Placed(T, k)'
    BY <1>3, <1>4 DEF Stream, Placed
  <2>3. Aligned(k, b[Len(posted)])'
    BY <1>4, <2>1 DEF Aligned
  <2> QED
    BY <2>2, <2>3, <1>8 DEF JsonReader, Follows
<1>10. Q!IInv' /\ cleared' = cleared
  <2>1. PICK n \in 1..MaxFrames : n = Len(posted')
    BY <1>6, <1>7
  <2>2. Q!SendAccepted(n) \/ Q!SendRefused(n)
    BY <2>1, <1>4
  <2>3. Q!IInv'
    BY <2>2, JsonSenderOK, Q!SendKeeps, Q!RefusalKeeps DEF JsonInv
  <2> QED
    BY <2>2, <2>3 DEF Q!SendAccepted, Q!SendRefused
<1>11. accepted' = accepted \/ accepted' = Append(accepted, m)
  BY <1>4, <1>6 DEF Q!SendAccepted, Q!SendRefused
<1>12. JsonAnswers'
  <2>1. /\ \A i \in 1..Len(accepted) : accepted[i] \in 1..p
        /\ \A i, j \in 1..Len(accepted) : i < j => accepted[i] < accepted[j]
    BY DEF JsonInv, JsonAnswers
  <2>2. \A x \in 1..p : x \in 1..m /\ x < m
    BY <1>5
  <2>3. CASE accepted' = accepted
    BY <2>1, <2>2, <2>3, <1>6 DEF JsonAnswers
  <2>4. CASE accepted' = Append(accepted, m)
    <3> DEFINE l == Len(accepted)
    <3>1. accepted \in Seq(1..MaxFrames)
      BY DEF JsonInv, Q!IInv, Q!TypeOK
    <3>2. /\ Len(accepted') = l + 1 /\ l \in Nat
          /\ \A i \in 1..l : accepted'[i] = accepted[i]
          /\ accepted'[l + 1] = m
      <4>1. PICK S : S = 1..MaxFrames
        OBVIOUS
      <4>2. accepted \in Seq(S) /\ m \in S
        BY <3>1, <4>1, <1>7
      <4> QED
        BY <4>2, <2>4, AppendProperties, LenProperties
    <3> HIDE DEF l, m
    <3>3. \A i \in 1..(l + 1) : i = l + 1 \/ i \in 1..l
      BY <3>2
    <3>4. m \in 1..m
      BY <1>7
    <3>5. ASSUME NEW i \in 1..(l + 1) PROVE accepted'[i] \in 1..m
      <4>1. i \in 1..l => accepted'[i] \in 1..p
        BY <2>1, <3>2 DEF l
      <4> QED
        BY <3>3, <3>4, <4>1, <2>2, <3>2
    <3>6. ASSUME NEW i \in 1..(l + 1), NEW j \in 1..(l + 1), i < j
          PROVE  accepted'[i] < accepted'[j]
      <4>1. i \in 1..l
        BY <3>2, <3>6
      <4>2. accepted'[i] = accepted[i] /\ accepted[i] \in 1..p
        BY <4>1, <2>1, <3>2 DEF l
      <4>3. CASE j = l + 1
        BY <4>2, <4>3, <2>2, <3>2
      <4>4. CASE j \in 1..l
        BY <4>1, <4>2, <4>4, <2>1, <3>2, <3>6 DEF l
      <4> QED
        BY <4>3, <4>4, <3>3
    <3>7. Len(accepted') = l + 1 /\ Len(posted') = m
      BY <3>2, <1>6
    <3> QED
      BY <3>5, <3>6, <3>7 DEF JsonAnswers
  <2> QED
    BY <2>3, <2>4, <1>11
<1> QED
  BY <1>4, <1>9, <1>10, <1>12 DEF JsonInv, Json!MapExact, Json!Alive

(* A completion touches nothing the invariant says of the reader. *)
LEMMA JsonWriteKeeps ==
  ASSUME JsonInv, Json!Write
  PROVE  JsonInv'
<1>1. Q!Write /\ UNCHANGED Json!readerVars /\ UNCHANGED listed
  BY JsonSender DEF Json!Write
<1>2. Q!IInv'
  BY <1>1, JsonSenderOK, Q!CompletionKeeps DEF JsonInv
<1>3. UNCHANGED <<accepted, cleared>>
  BY <1>1 DEF Q!Write, Q!WriteDone, Q!WritePartly, Q!WriteFails, Q!queueVars
<1>4. UNCHANGED <<pc, posted>>
  BY <1>1 DEF Json!readerVars
<1> QED
  BY <1>1, <1>2, <1>3, <1>4, JsonReaderStays DEF JsonInv, JsonAnswers, Json!MapExact, Json!Alive

(* HandleWrite pops the answer, or takes the session out of the map. *)
LEMMA JsonHandleWriteKeeps ==
  ASSUME JsonInv, Json!HandleWrite
  PROVE  JsonInv'
<1>1. /\ UNCHANGED Json!readerVars
      /\ \/ Q!HandleWriteOk /\ UNCHANGED listed
         \/ Q!HandleWriteError /\ listed' = FALSE
  BY JsonSender DEF Json!HandleWrite, Json!ClearSession
<1>2. Q!HandleWrite
  BY <1>1 DEF Q!HandleWrite
<1>3. Q!IInv'
  BY <1>2, JsonSenderOK, Q!HandlerKeeps DEF JsonInv
<1>4. accepted' = accepted
  BY <1>1 DEF Q!HandleWriteOk, Q!HandleWriteError, Q!queueVars
<1>5. UNCHANGED <<pc, posted>>
  BY <1>1 DEF Json!readerVars
<1>6. Json!MapExact' /\ listed' \in BOOLEAN
  <2>1. CASE Q!HandleWriteOk /\ UNCHANGED listed
    BY <2>1, <1>5 DEF JsonInv, Json!MapExact, Json!Alive, Q!HandleWriteOk
  <2>2. CASE Q!HandleWriteError /\ listed' = FALSE
    BY <2>2 DEF Json!MapExact, Json!Alive, Q!HandleWriteError
  <2> QED
    BY <2>1, <2>2, <1>1
<1> QED
  BY <1>1, <1>3, <1>4, <1>5, <1>6, JsonReaderStays DEF JsonInv, JsonAnswers

(* Every step of JsonServer keeps the invariant. *)
LEMMA JsonStep == JsonInv /\ [Json!Next]_(Json!vars) => JsonInv'
<1> SUFFICES ASSUME JsonInv, [Json!Next]_(Json!vars) PROVE JsonInv'
  OBVIOUS
<1>1. ASSUME JsonReader', UNCHANGED <<Json!senderVars, listed, posted>>,
             pc' # "crashed" => pc # "crashed" /\ (pc' = "stopped" <=> pc = "stopped")
      PROVE  JsonInv'
  BY <1>1, JsonSenderStays DEF JsonInv
<1>2. ASSUME NEW f \in Frames, Json!PeerSend(f) PROVE JsonInv'
  BY <1>1, <1>2, JsonPeerKeeps DEF JsonInv, Json!PeerSend
<1>3. CASE Json!Read
  <2>1. CASE Json!ReadHead
    BY <2>1, <1>1, JsonReadHeadKeeps DEF JsonInv, Json!ReadHead
  <2>2. CASE Json!ReadBody
    BY <2>2, <1>1, JsonReadBodyKeeps DEF JsonInv, Json!ReadBody
  <2> QED
    BY <2>1, <2>2, <1>3 DEF Json!Read
<1>4. CASE Json!HeadValid \/ Json!HeadNegative
  <2>1. CASE Json!HeadValid
    BY <2>1, <1>1, JsonHeadValidKeeps DEF JsonInv, Json!HeadValid
  <2>2. CASE Json!HeadNegative
    BY <2>2, <1>1, JsonHeadNegativeKeeps DEF JsonInv, Json!HeadNegative
  <2> QED
    BY <2>1, <2>2, <1>4
<1>5. CASE Json!HeadInvalid \/ Json!ReadFails
  BY <1>5, JsonEndKeeps DEF Json!HeadInvalid, Json!ReadFails
<1>6. CASE Json!HandleReadMsg
  BY <1>6, JsonMsgKeeps
<1>7. CASE Json!Write
  BY <1>7, JsonWriteKeeps
<1>8. CASE Json!HandleWrite
  BY <1>8, JsonHandleWriteKeeps
<1>9. CASE UNCHANGED Json!vars
  <2>1. UNCHANGED <<Json!readerVars, Json!senderVars, listed>>
    BY <1>9 DEF Json!vars
  <2>2. UNCHANGED <<pc, posted>>
    BY <2>1 DEF Json!readerVars
  <2> QED
    BY <2>1, <2>2, <1>1, JsonReaderStays DEF JsonInv
<1> QED
  BY <1>2, <1>3, <1>4, <1>5, <1>6, <1>7, <1>8, <1>9
     DEF Json!Next, Json!HandleRead, Json!HandleReadHead

(* The invariant says what Consistent does. *)
LEMMA JsonConsistentHolds == JsonInv => Json!Consistent
<1> SUFFICES ASSUME JsonInv PROVE Json!TypeOK
  BY DEF JsonInv, Json!Consistent
<1>1. Json!Sender!TypeOK
  BY JsonSender DEF JsonInv, Q!IInv
<1>2. ReaderTypes /\ MAX_LENGTH \in Nat
  BY JsonLengths DEF JsonInv, JsonReader
<1>3. data_len \in 0..MAX_LENGTH
  BY <1>2 DEF ReaderTypes
<1> QED
  BY <1>1, <1>2, <1>3 DEF ReaderTypes, Bodies, JsonInv, Json!TypeOK, Json!HEAD_LENGTH

-----------------------------------------------------------------------------
(* What is about to be written answers a frame of which it has the body,   *)
(* and no later one was answered before.                                   *)
LEMMA JsonNextAnswer ==
  ASSUME JsonInv, writes # <<>>
  PROVE  /\ ~cleared /\ Head(writes) \in DOMAIN frames
         /\ posted[Head(writes)] = frames[Head(writes)].body
         /\ \A i \in DOMAIN out : out[i] < Head(writes)
<1> DEFINE k == Head(writes)
           m == Len(out)
<1>1. ~cleared /\ m < Len(accepted) /\ k = accepted[m + 1]
  BY JsonSenderOK, Q!InProgress DEF JsonInv
<1>2. m \in Nat /\ Len(accepted) \in Nat /\ DOMAIN out = 1..m
      /\ \A i \in 1..m : out[i] = accepted[i]
  <2>1. /\ out \in Seq(1..MaxFrames) /\ accepted \in Seq(1..MaxFrames)
        /\ \A i \in DOMAIN out : out[i] = accepted[i]
    BY DEF JsonInv, Q!IInv, Q!TypeOK, Q!InOrder
  <2>2. PICK S : S = 1..MaxFrames
    OBVIOUS
  <2>3. out \in Seq(S) /\ accepted \in Seq(S)
    BY <2>1, <2>2
  <2> QED
    BY <2>1, <2>3, LenProperties
<1> HIDE DEF k, m
<1>3. m + 1 \in 1..Len(accepted) /\ \A i \in 1..m : i \in 1..Len(accepted) /\ i < m + 1
  BY <1>1, <1>2
<1>4. k \in 1..Len(posted) /\ \A i \in 1..m : out[i] < k
  BY <1>1, <1>2, <1>3 DEF JsonInv, JsonAnswers
<1>5. ReaderTypes
  BY DEF JsonInv, JsonReader
<1>6. k \in DOMAIN frames /\ posted[k] = frames[k].body
  <2>1. DOMAIN frames = 1..Len(frames) /\ Len(frames) \in Nat /\ Len(posted) \in Nat
    BY <1>5, JsonLengths, LenProperties DEF ReaderTypes
  <2>2. k \in 1..Len(frames)
    BY <1>4, <1>5, <2>1 DEF ReaderTypes
  <2> QED
    BY <1>4, <1>5, <2>1, <2>2 DEF ReaderTypes
<1> QED
  BY <1>1, <1>2, <1>4, <1>6 DEF k

Written == [i \in DOMAIN out |-> [nr |-> out[i], frame |-> posted[out[i]]]]

(* What has been written stays the answer it was when more is posted. *)
LEMMA JsonWrittenStays ==
  ASSUME JsonInv, out' = out, \A i \in 1..Len(posted) : posted'[i] = posted[i]
  PROVE  Written' = Written
<1>1. ASSUME NEW i \in DOMAIN out PROVE out[i] \in 1..Len(posted)
  <2>1. PICK S : S = 1..MaxFrames
    OBVIOUS
  <2>2. /\ out \in Seq(S) /\ accepted \in Seq(S) /\ _send_queue \in Seq(S)
        /\ out[i] = accepted[i]
    BY <2>1 DEF JsonInv, Q!IInv, Q!TypeOK, Q!InOrder
  <2>3. i \in 1..Len(accepted)
    <3>1. i \in 1..Len(out) /\ Len(out) \in Nat /\ Len(accepted) \in Nat
      BY <2>2, LenProperties
    <3>2. Len(out) <= Len(accepted)
      <4>1. Len(accepted) = Len(out) + Len(_send_queue) - Q!Unpopped
        BY DEF JsonInv, Q!IInv, Q!InOrder
      <4>2. Len(_send_queue) \in Nat /\ (Len(_send_queue) = 0 => _send_queue = <<>>)
        BY <2>2, EmptySeq, LenProperties
      <4>3. \/ Q!Unpopped = 0
            \/ Q!Unpopped = 1 /\ _send_queue # <<>>
        BY DEF JsonInv, Q!IInv, Q!OneWriteInFlight, Q!Unpopped
      <4> QED
        BY <3>1, <4>1, <4>2, <4>3
    <3> QED
      BY <3>1, <3>2
  <2> QED
    BY <2>2, <2>3 DEF JsonInv, JsonAnswers
<1> QED
  BY <1>1 DEF Written

(* A frame that reaches the kernel is one more answer. *)
LEMMA JsonWrittenGrows ==
  ASSUME JsonInv, writes # <<>>, out' = Append(out, Head(writes)), posted' = posted
  PROVE  Written' = Append(Written, [nr |-> Head(writes), frame |-> frames[Head(writes)].body])
<1> DEFINE m == Len(out)
           A(o, i) == [nr |-> o[i], frame |-> posted[o[i]]]
           e == [nr |-> Head(writes), frame |-> frames[Head(writes)].body]
<1>1. /\ m \in Nat /\ DOMAIN out = 1..m /\ DOMAIN out' = 1..(m + 1)
      /\ \A i \in 1..m : out'[i] = out[i]
      /\ out'[m + 1] = Head(writes)
  <2>1. PICK S : S = 1..MaxFrames
    OBVIOUS
  <2>2. out \in Seq(S) /\ Head(writes) \in S
    BY <2>1, JsonSenderOK, Q!InProgress DEF JsonInv, Q!IInv, Q!TypeOK
  <2> QED
    BY <2>2, Q!Pushed
<1>2. posted[Head(writes)] = frames[Head(writes)].body
  BY JsonNextAnswer
<1> HIDE DEF m
<1>3. PICK S : S = {A(out, i) : i \in 1..m} \cup {e}
  OBVIOUS
<1>4. Written \in [1..m -> S] /\ \A i \in 1..m : Written[i] = A(out, i)
  BY <1>1, <1>3 DEF Written
<1>5. Written \in Seq(S) /\ Len(Written) = m
  BY <1>1, <1>4
<1>6. /\ Append(Written, e) \in Seq(S) /\ Len(Append(Written, e)) = m + 1
      /\ \A i \in 1..m : Append(Written, e)[i] = Written[i]
      /\ Append(Written, e)[m + 1] = e
  BY <1>3, <1>5, AppendProperties
<1>7. /\ DOMAIN Written' = 1..(m + 1)
      /\ \A i \in 1..(m + 1) : Written'[i] = A(out', i)
  BY <1>1 DEF Written
<1>8. \A i \in 1..(m + 1) : Written'[i] = Append(Written, e)[i]
  <2> SUFFICES ASSUME NEW i \in 1..(m + 1) PROVE Written'[i] = Append(Written, e)[i]
    OBVIOUS
  <2>1. CASE i = m + 1
    BY <2>1, <1>1, <1>2, <1>6, <1>7
  <2>2. CASE i \in 1..m
    BY <2>2, <1>1, <1>4, <1>6, <1>7
  <2>3. i = m + 1 \/ i \in 1..m
    BY <1>1
  <2> QED
    BY <2>1, <2>2, <2>3
<1>9. Written' \in Seq(S) /\ Len(Written') = m + 1
  <2>1. Written' = [i \in 1..(m + 1) |-> A(out', i)]
    BY <1>1 DEF Written
  <2>2. \A i \in 1..(m + 1) : A(out', i) \in S
    <3>1. \A i \in 1..m : A(out', i) = A(out, i)
      BY <1>1
    <3>2. A(out', m + 1) = e
      BY <1>1, <1>2
    <3> QED
      BY <3>1, <3>2, <1>1, <1>3
  <2>3. Written' \in [1..(m + 1) -> S]
    BY <2>1, <2>2
  <2> QED
    BY <2>3, <1>1
<1> QED
  BY <1>6, <1>8, <1>9, SeqEqual

Asked == [i \in DOMAIN frames |-> frames[i].body]

(* A frame that is sent is one more question. *)
LEMMA JsonAskedGrows ==
  ASSUME JsonInv, NEW f \in Frames, frames' = Append(frames, f)
  PROVE  Asked' = Append(Asked, f.body)
<1>1. PICK n \in Nat : /\ n = Len(frames) /\ DOMAIN frames = 1..n
                       /\ \A i \in 1..n : frames[i].body \in Bodies
  <2>1. ReaderTypes /\ frames \in Seq(Frames)
    BY DEF JsonInv, JsonReader, ReaderTypes
  <2> QED
    BY <2>1, JsonLengths, LenProperties
<1>2. /\ Len(frames') = n + 1 /\ DOMAIN frames' = 1..(n + 1) /\ frames'[n + 1] = f
      /\ \A i \in 1..n : frames'[i] = frames[i]
  <2>1. frames \in Seq(Frames)
    BY DEF JsonInv, JsonReader, ReaderTypes
  <2>2. /\ frames' \in Seq(Frames) /\ Len(frames') = n + 1 /\ frames'[n + 1] = f
        /\ \A i \in 1..n : frames'[i] = frames[i]
    BY <1>1, <2>1, AppendProperties
  <2> QED
    BY <2>2, LenProperties
<1>3. PICK a, g : a = Asked /\ g = f.body /\ g \in Bodies
  BY JsonFrame
<1>4. a \in [1..n -> Bodies] /\ \A i \in 1..n : a[i] = frames[i].body
  BY <1>1, <1>3 DEF Asked
<1>5. a \in Seq(Bodies) /\ Len(a) = n
  BY <1>1, <1>4
<1>6. /\ Append(a, g) \in Seq(Bodies) /\ Len(Append(a, g)) = n + 1
      /\ \A i \in 1..n : Append(a, g)[i] = a[i]
      /\ Append(a, g)[n + 1] = g
  BY <1>3, <1>5, AppendProperties
<1>7. DOMAIN Asked' = 1..(n + 1) /\ \A i \in 1..(n + 1) : Asked'[i] = frames'[i].body
  BY <1>2 DEF Asked
<1>8. \A i \in 1..(n + 1) : i \in 1..n \/ i = n + 1
  OBVIOUS
<1>9. \A i \in 1..(n + 1) : Asked'[i] = Append(a, g)[i] /\ Asked'[i] \in Bodies
  BY <1>1, <1>2, <1>3, <1>4, <1>6, <1>7, <1>8
<1>10. Asked' \in Seq(Bodies) /\ Len(Asked') = n + 1
  <2>1. Asked' = [i \in 1..(n + 1) |-> frames'[i].body]
    BY <1>2 DEF Asked
  <2>2. Asked' \in [1..(n + 1) -> Bodies]
    BY <2>1, <1>7, <1>9
  <2> QED
    BY <2>2
<1>11. Asked' = Append(a, g)
  BY <1>6, <1>9, <1>10, SeqEqual
<1> QED
  BY <1>3, <1>11

(* Every step of JsonServer is one of the echo service, or none. *)
LEMMA JsonMaps ==
  ASSUME JsonInv, [Json!Next]_(Json!vars)
  PROVE  [Json!Service!Next]_(Json!Service!vars)
<1> DEFINE over == cleared \/ ~open \/ pc = "crashed"
<1> USE DEF Json!Alive
<1>1. SUFFICES Json!Service!Next \/ UNCHANGED Json!Service!vars
  OBVIOUS
<1>2. ASSUME UNCHANGED <<frames, Written>>, over' = over \/ over'
      PROVE  Json!Service!Next \/ UNCHANGED Json!Service!vars
  <2>1. CASE over' = over
    BY <2>1, <1>2 DEF Json!Service!vars, Written
  <2>2. CASE over'
    BY <2>2, <1>2 DEF Json!Service!Next, Json!Service!End, Written
  <2> QED
    BY <2>1, <2>2, <1>2
<1>3. ASSUME UNCHANGED <<frames, out, posted>>, over' = over \/ over'
      PROVE  Json!Service!Next \/ UNCHANGED Json!Service!vars
  BY <1>2, <1>3, JsonWrittenStays
<1>4. ASSUME NEW f \in Frames, Json!PeerSend(f) PROVE Json!Service!Next
  <2>1. UNCHANGED <<out, posted, cleared, open, pc>> /\ frames' = Append(frames, f)
    BY <1>4 DEF Json!PeerSend, Json!senderVars
  <2>2. Written' = Written /\ Asked' = Append(Asked, f.body)
    BY <2>1, JsonWrittenStays, JsonAskedGrows
  <2>3. Json!Service!Ask(f.body)
    BY <2>1, <2>2 DEF Json!Service!Ask, Written, Asked
  <2> QED
    BY <2>3 DEF Json!Service!Next
<1>5. CASE Json!Read \/ Json!HeadValid
  BY <1>3, <1>5 DEF Json!Read, Json!ReadHead, Json!ReadBody, Json!HeadValid, Json!senderVars
<1>11. CASE Json!HeadNegative
  BY <1>3, <1>11 DEF Json!HeadNegative, Json!senderVars
<1>6. CASE Json!HeadInvalid \/ Json!ReadFails
  BY <1>3, <1>6 DEF Json!HeadInvalid, Json!ReadFails, Json!EndSession, Json!Sender!Close,
       Json!Sender!kernelVars
<1>7. CASE Json!HandleReadMsg
  <2>1. /\ UNCHANGED <<frames, out, cleared, open>> /\ posted' = Append(posted, _recv_msg_node)
        /\ pc # "crashed" /\ pc' # "crashed"
    BY <1>7 DEF Json!HandleReadMsg, Json!NextRead, Json!Send, Json!Sender!SendAccepted,
         Json!Sender!SendRefused, Json!Sender!kernelVars
  <2>2. \A i \in 1..Len(posted) : posted'[i] = posted[i]
    <3>1. posted \in Seq(Bodies)
      BY DEF JsonInv, JsonReader, ReaderTypes
    <3> QED
      BY <2>1, <3>1
  <2> QED
    BY <2>1, <2>2, <1>2, JsonWrittenStays
<1>8. CASE Json!Write
  <2>1. UNCHANGED <<frames, posted, pc>> /\ pc # "crashed"
    BY <1>8 DEF Json!Write, Json!readerVars
  <2>2. CASE Json!Sender!WriteFails
    BY <2>1, <2>2, <1>3 DEF Json!Sender!WriteFails, Json!Sender!kernelVars
  <2>3. CASE Json!Sender!WriteDone \/ Json!Sender!WritePartly
    <3>0. PICK k : k = Head(writes)
      OBVIOUS
    <3>1. writes # <<>> /\ open /\ out' = Append(out, k) /\ UNCHANGED <<open, cleared>>
      BY <2>3, <3>0 DEF Json!Sender!WriteDone, Json!Sender!WritePartly, Json!Sender!Complete
    <3>2. /\ ~over /\ k \in DOMAIN frames
          /\ \A i \in DOMAIN out : out[i] < k
      BY <3>0, <3>1, <2>1, JsonNextAnswer
    <3>3. Written' = Append(Written, [nr |-> k, frame |-> Asked[k]]) /\ Asked' = Asked
          /\ k \in DOMAIN Asked
      BY <3>0, <3>1, <3>2, <2>1, JsonWrittenGrows DEF Asked
    <3>4. \A i \in DOMAIN Written : Written[i].nr < k
      BY <3>2 DEF Written
    <3>5. Json!Service!Answer(k)
      <4>1. PICK a, c : a = Asked /\ c = Written
        OBVIOUS
      <4>2. /\ ~over /\ over' = over /\ k \in DOMAIN a /\ \A i \in DOMAIN c : c[i].nr < k
            /\ Asked' = a /\ Written' = Append(c, [nr |-> k, frame |-> a[k]])
        BY <2>1, <3>1, <3>2, <3>3, <3>4, <4>1
      <4> HIDE DEF over
      <4>3. Json!Service!Answer(k) <=>
              /\ ~over /\ k \in DOMAIN Asked /\ \A i \in DOMAIN Written : Written[i].nr < k
              /\ Written' = Append(Written, [nr |-> k, frame |-> Asked[k]])
              /\ Asked' = Asked /\ over' = over
        BY DEF Json!Service!Answer, Written, Asked, over
      <4> QED
        BY <4>1, <4>2, <4>3
    <3>6. \E i \in DOMAIN Asked : Json!Service!Answer(i)
      BY <3>3, <3>5
    <3> QED
      BY <3>6, ZenonT(60) DEF Json!Service!Next, Asked
  <2> QED
    BY <2>2, <2>3, <1>8 DEF Json!Write, Json!Sender!Write
<1>9. CASE Json!HandleWrite
  BY <1>3, <1>9 DEF Json!HandleWrite, Json!Sender!HandleWriteOk, Json!Sender!HandleWriteError,
       Json!readerVars, Json!Sender!kernelVars
<1>10. CASE UNCHANGED Json!vars
  BY <1>3, <1>10 DEF Json!vars, Json!readerVars, Json!senderVars
<1> QED
  BY <1>4, <1>5, <1>6, <1>7, <1>8, <1>9, <1>10, <1>11
     DEF Json!Next, Json!HandleRead, Json!HandleReadHead

-----------------------------------------------------------------------------
(* GrpcServer. *)
GrpcInv ==
  /\ Grpc!TypeOK
  /\ name = [c \in Callers |-> name[c]] /\ result = [c \in Callers |-> result[c]]

(* At first no call has returned. *)
LEMMA GrpcInitHolds == Grpc!Init => GrpcInv
  BY DEF Grpc!Init, GrpcInv, Grpc!TypeOK

(* Nothing is returned before its time, whatever the calls of the others. *)
LEMMA GrpcStep == GrpcInv /\ [Grpc!Next]_(Grpc!vars) => GrpcInv'
<1> SUFFICES ASSUME GrpcInv, [Grpc!Next]_(Grpc!vars) PROVE GrpcInv'
  OBVIOUS
<1> USE DEF GrpcInv, Grpc!TypeOK, Grpc!At
<1>1. ASSUME NEW c \in Callers, Grpc!SayHello(c) PROVE GrpcInv'
  BY <1>1 DEF Grpc!SayHello, Grpc!Goto
<1>2. ASSUME NEW c \in Callers, Grpc!Call(c) PROVE GrpcInv'
  <2>1. CASE Grpc!Deserialize(c)
    BY <2>1 DEF Grpc!Deserialize, Grpc!Goto
  <2>2. CASE Grpc!Handle(c) \/ Grpc!Fail(c)
    BY <2>2 DEF Grpc!Handle, Grpc!Fail, Grpc!Goto
  <2>3. CASE Grpc!Return(c)
    BY <2>3 DEF Grpc!Return, Grpc!Goto
  <2> QED
    BY <2>1, <2>2, <2>3, <1>2 DEF Grpc!Call
<1>3. CASE Grpc!ServerEnds
  BY <1>3 DEF Grpc!ServerEnds
<1>4. CASE UNCHANGED Grpc!vars
  BY <1>4 DEF Grpc!vars
<1> QED
  BY <1>1, <1>2, <1>3, <1>4 DEF Grpc!Next

-----------------------------------------------------------------------------
(* In a run of MCSmallServers one server runs and the others stay as they  *)
(* were, so what steps of a server keep is kept.                           *)
LEMMA RunsStep ==
  ASSUME [MCNext]_<<running, vars, syncVars, jsonVars, grpcVars>>
  PROVE  [Next]_vars /\ [Sync!Next]_(Sync!vars) /\ [Json!Next]_(Json!vars)
         /\ [Grpc!Next]_(Grpc!vars)
<1>1. [Next]_vars
  BY DEF MCNext
<1>2. [Sync!Next]_(Sync!vars)
  <2>1. CASE Sync!Next
    BY <2>1
  <2>2. CASE UNCHANGED syncVars
    BY <2>2 DEF syncVars, Sync!vars, Sync!server, Sync!threads, Sync!clients
  <2> QED
    BY <2>1, <2>2 DEF MCNext
<1>3. [Json!Next]_(Json!vars)
  <2>1. CASE Json!Next
    BY <2>1
  <2>2. CASE UNCHANGED jsonVars
    BY <2>2 DEF jsonVars, Json!vars, Json!readerVars, Json!senderVars
  <2> QED
    BY <2>1, <2>2 DEF MCNext
<1>4. [Grpc!Next]_(Grpc!vars)
  <2>1. CASE Grpc!Next
    BY <2>1
  <2>2. CASE UNCHANGED grpcVars
    BY <2>2 DEF grpcVars, Grpc!vars
  <2> QED
    BY <2>1, <2>2 DEF MCNext
<1> QED
  BY <1>1, <1>2, <1>3, <1>4

RunsInv == EchoInv /\ SyncInv /\ JsonInv /\ GrpcInv

(* The invariants of the four servers hold in every state of every run. *)
THEOREM SmallServersInductive == MCSpec => []RunsInv
<1>1. MCInit => RunsInv
  BY EchoInitHolds, SyncInitHolds, JsonInitHolds, GrpcInitHolds DEF MCInit, RunsInv
<1>2. RunsInv /\ [MCNext]_<<running, vars, syncVars, jsonVars, grpcVars>> => RunsInv'
  BY RunsStep, EchoStep, SyncStep, JsonStep, GrpcStep DEF RunsInv
<1> QED
  BY <1>1, <1>2, PTL DEF MCSpec

(* A live session of AsyncEchoServer has one operation or handler, a       *)
(* deleted one none; the session of JsonServer is in the map while it      *)
(* reads, unless a write failed; no call of GrpcServer returns before it   *)
(* has been answered or has failed.                                        *)
THEOREM AllConsistentAlways == MCSpec => []AllConsistent
<1>1. RunsInv => AllConsistent
  BY EchoConsistentHolds, JsonConsistentHolds
     DEF RunsInv, AllConsistent, GrpcInv
<1> QED
  BY SmallServersInductive, <1>1, PTL

(* SyncServer: a connection waits in the backlog or has its thread, every  *)
(* thread is kept in thread_set to the end of main, and a main that has    *)
(* started one does not leave without std::terminate.                      *)
THEOREM SyncConsistentAlways == MCSpec => []SyncConsistent
<1>1. RunsInv => SyncConsistent
  BY SyncConsistentHolds DEF RunsInv, SyncConsistent
<1> QED
  BY SmallServersInductive, <1>1, PTL

(* SyncServer: what a client prints is its own line from the start, and    *)
(* zeros after what the first read of its thread took.                     *)
THEOREM SyncOwnEchoAlways == MCSpec => []SyncOwnEcho
<1>1. RunsInv => SyncOwnEcho
  BY OwnEchoHolds DEF RunsInv, SyncOwnEcho
<1> QED
  BY SmallServersInductive, <1>1, PTL

(* JsonServer implements the echo service: its client gets the answers in  *)
(* the order of its frames, each at most once and with the content of the  *)
(* frame, and none once the session has closed or a write has failed.      *)
THEOREM JsonImplementation == MCSpec => JsonImplementsEcho
<1>1. Json!Init => Json!Service!Init
  <2> SUFFICES ASSUME Json!Init PROVE Json!Service!Init
    OBVIOUS
  <2>1. frames = <<>> /\ out = <<>> /\ cleared = FALSE /\ open = TRUE /\ pc = "head"
    BY JsonSender DEF Json!Init, Q!Init
  <2> QED
    BY <2>1 DEF Json!Service!Init, Json!Alive
<1>2. MCInit => Json!Service!Init
  BY <1>1 DEF MCInit
<1>3. RunsInv /\ [MCNext]_<<running, vars, syncVars, jsonVars, grpcVars>>
        => [Json!Service!Next]_(Json!Service!vars)
  BY RunsStep, JsonMaps DEF RunsInv
<1> QED
  BY SmallServersInductive, <1>2, <1>3, PTL
     DEF MCSpec, JsonImplementsEcho, Json!ImplementsEcho, Json!Service!Spec
=============================================================================
