--------------------------- MODULE TlvServer_proofs ---------------------------
(***************************************************************************)
(* What holds of a connection of the TLV servers for any frames, any       *)
(* number of them, any registered ids, limits and kernel: its parts agree, *)
(* what is posted is what was sent, and it implements the echo service.    *)
(*                                                                         *)
(* Each part keeps the invariant of its own module, whose lemmas are cited *)
(* here (R, L and Q).  What connects them is Routed: the worker is done    *)
(* with the first Taken nodes and the queue holds the others in order, and *)
(* what Send was given are the registered ones among the first.  The frame *)
(* with the number k is the k-th one sent, so the order of the answers and *)
(* what they contain follow.                                               *)
(*                                                                         *)
(* The last part is about EchoSession, a session of AsyncEchoServer2,      *)
(* which is made of the same reader and the same send queue.               *)
(***************************************************************************)
EXTENDS MCEchoSession, TLAPS, SequenceTheorems

R == INSTANCE TlvReader_proofs WITH HEAD_ID_LEN <- 2, InitHeadParse <- {FALSE}
L == INSTANCE LogicSystem_proofs WITH Posters <- {Main}, posted <- pushed
Q == INSTANCE SendQueue_proofs WITH Msgs <- Nodes, wire <- out

\* A node has the number of its frame.
Numbered ==
  Len(pushed) = Len(posted) /\ \A i \in 1..Len(posted) : pushed[i] = LogicNode(i, posted[i])

Taken == Len(pushed) - Len(_msg_que)  \* nodes the worker is done with

\* What it is not done with is in the queue, in order.
Queued == Taken >= 0 /\ \A i \in 1..Len(_msg_que) : _msg_que[i] = pushed[Taken + i]

\* A node with a registered id was handed to Send when the worker took it.
Handed ==
  \A n : (\E i \in 1..Len(accepted) : accepted[i] = n) \/ n \in refused <=>
           n \in Registered /\ n.nr \in 1..Taken /\ pushed[n.nr] = n

Ordered == \A i, j \in 1..Len(accepted) : i < j => accepted[i].nr < accepted[j].nr

\* The map has the session until it stops reading or a write fails.
Held ==
  /\ pc \in {"reading", "parsing"} => (listed <=> ~cleared)
  /\ pc = "stopped" => ~listed
  /\ listed \in BOOLEAN

Routed == Numbered /\ Queued /\ Handed /\ Ordered

IInv == R!IInv /\ L!IInv /\ Q!IInv /\ Routed /\ Held /\ Len(sent) <= MaxFrames

-----------------------------------------------------------------------------
(* The lemmas of the reader are about the reader of this module. *)
LEMMA SameReader ==
  /\ Reader!ConstantsOK <=> R!ConstantsOK
  /\ Reader!Init <=> R!Init
  /\ \A f \in Frames : Reader!PeerSend(f) <=> R!PeerSend(f)
  /\ Reader!Read <=> \E n \in 1..MAX_LENGTH : R!ReadSome(n)
  /\ Reader!ReadFails <=> R!ReadFails
  /\ Reader!HandleRead <=> R!HandleRead
  /\ Reader!WellFormed <=> R!WellFormed
  /\ Reader!Reassembled <=> R!Reassembled
<1>0. /\ Reader!SHRT_MIN = R!SHRT_MIN /\ Reader!SHRT_MAX = R!SHRT_MAX
      /\ Reader!Byte = R!Byte /\ Reader!HEAD_TOTAL_LEN = R!HEAD_TOTAL_LEN
  BY DEF Reader!SHRT_MIN, R!SHRT_MIN, Reader!SHRT_MAX, R!SHRT_MAX, Reader!Byte, R!Byte,
         Reader!HEAD_TOTAL_LEN, R!HEAD_TOTAL_LEN, Reader!HEAD_DATA_LEN, R!HEAD_DATA_LEN
<1>1. Reader!ConstantsOK <=> R!ConstantsOK
  BY <1>0 DEF Reader!ConstantsOK, R!ConstantsOK, Reader!Short, R!Short
<1>2. Reader!Init <=> R!Init
  BY <1>0 DEF Reader!Init, R!Init, Reader!NoMsg, R!NoMsg
<1>3. ASSUME NEW f \in Frames PROVE Reader!PeerSend(f) <=> R!PeerSend(f)
  BY DEF Reader!PeerSend, R!PeerSend, Reader!Encode, R!Encode, Reader!EncodeId, R!EncodeId,
         Reader!Encode16, R!Encode16
<1>4. Reader!Read <=> \E n \in 1..MAX_LENGTH : R!ReadSome(n)
  BY DEF Reader!Read, Reader!ReadSome, R!ReadSome, Reader!Take, R!Take, Reader!Drop, R!Drop,
         Reader!Min2, R!Min2
<1>5. Reader!ReadFails <=> R!ReadFails
  BY DEF Reader!ReadFails, R!ReadFails, Reader!peerVars, R!peerVars
<1>6. Reader!WellFormed <=> R!WellFormed
  BY <1>0 DEF Reader!WellFormed, R!WellFormed, Reader!TypeOK, R!TypeOK, Reader!WithinBuffers,
         R!WithinBuffers, Reader!NoMsg, R!NoMsg, Reader!BodyNode, R!BodyNode
<1>7. Reader!Reassembled <=> R!Reassembled
  BY DEF Reader!Reassembled, R!Reassembled
<1>8. Reader!HandleRead <=> R!HandleRead
  <2>1. /\ Reader!Parsing <=> R!Parsing
        /\ Reader!ReadOn <=> R!ReadOn
        /\ Reader!NoMsg = R!NoMsg
        /\ Reader!msg_remain = R!msg_remain
        /\ \A q, n : Reader!Take(q, n) = R!Take(q, n) /\ Reader!Drop(q, n) = R!Drop(q, n)
        /\ \A x, y : Reader!Decode16(x, y) = R!Decode16(x, y)
    BY <1>0 DEF Reader!Parsing, R!Parsing, Reader!ReadOn, R!ReadOn, Reader!NoMsg, R!NoMsg,
           Reader!msg_remain, R!msg_remain, Reader!Take, R!Take, Reader!Drop, R!Drop,
           Reader!Decode16, R!Decode16
  <2>2. /\ Reader!head_remain = R!head_remain /\ Reader!WholeHead = R!WholeHead
        /\ Reader!AfterHead = R!AfterHead
    BY <1>0, <2>1 DEF Reader!head_remain, R!head_remain, Reader!WholeHead, R!WholeHead,
           Reader!AfterHead, R!AfterHead
  <2>3. /\ Reader!msg_id = R!msg_id /\ Reader!msg_len = R!msg_len
        /\ Reader!HeadIncomplete <=> R!HeadIncomplete
    BY <1>0, <2>1, <2>2 DEF Reader!msg_id, R!msg_id, Reader!msg_len, R!msg_len,
           Reader!HeadIncomplete, R!HeadIncomplete
  <2>4. /\ Reader!HeadComplete <=> R!HeadComplete
        /\ Reader!ValidHead <=> R!ValidHead
    BY <2>1, <2>3 DEF Reader!HeadComplete, R!HeadComplete, Reader!ValidHead, R!ValidHead
  <2>5. \A node, rest : Reader!FinishBody(node, rest) <=> R!FinishBody(node, rest)
    BY <2>1 DEF Reader!FinishBody, R!FinishBody, Reader!StartOver, R!StartOver,
           Reader!Keep, R!Keep, Reader!peerVars, R!peerVars
  <2>6. Reader!HeadShort <=> R!HeadShort
    BY <2>1, <2>3 DEF Reader!HeadShort, R!HeadShort, Reader!peerVars, R!peerVars
  <2>7. Reader!HeadInvalid <=> R!HeadInvalid
    BY <2>2, <2>4 DEF Reader!HeadInvalid, R!HeadInvalid, Reader!peerVars, R!peerVars
  <2>8. Reader!NewBodyShort <=> R!NewBodyShort
    BY <2>1, <2>2, <2>3, <2>4 DEF Reader!NewBodyShort, R!NewBodyShort,
           Reader!peerVars, R!peerVars
  <2>9. Reader!NewBodyWhole <=> R!NewBodyWhole
    BY <2>1, <2>2, <2>3, <2>4, <2>5 DEF Reader!NewBodyWhole, R!NewBodyWhole
  <2>10. Reader!BodyShort <=> R!BodyShort
    BY <2>1 DEF Reader!BodyShort, R!BodyShort, Reader!peerVars, R!peerVars
  <2>11. Reader!BodyWhole <=> R!BodyWhole
    BY <2>1, <2>5 DEF Reader!BodyWhole, R!BodyWhole
  <2>12. Reader!NullBody <=> R!NullBody
    BY <2>1 DEF Reader!NullBody, R!NullBody, Reader!peerVars, R!peerVars
  <2>13. Reader!NewBodyNegative <=> R!NewBodyNegative
    BY <2>3, <2>4 DEF Reader!NewBodyNegative, R!NewBodyNegative,
           Reader!peerVars, R!peerVars
  <2> QED
    BY <2>6, <2>7, <2>8, <2>9, <2>10, <2>11, <2>12, <2>13 DEF Reader!HandleRead, R!HandleRead
<1> QED
  BY <1>1, <1>2, <1>3, <1>4, <1>5, <1>6, <1>7, <1>8

(* The same for the logic queue. *)
LEMMA SameLogic ==
  /\ Logic!Init <=> L!Init
  /\ \A n : Logic!PostMsg2Que(Main, n) <=> L!PostMsg2Que(Main, n)
  /\ Logic!Notify(Main) <=> L!Notify(Main)
  /\ Logic!Dispatch <=> L!Dispatch
  /\ Logic!Lock <=> L!Lock
  /\ Logic!TestPredicate <=> L!TestPredicate
  /\ Logic!Wait <=> L!Wait
  /\ Logic!StartDispatch <=> L!StartDispatch
  /\ Logic!CallbackThrows <=> L!CallbackThrows
  /\ Logic!SpuriousWakeup <=> L!SpuriousWakeup
  /\ (Logic!TypeOK <=> L!TypeOK) /\ (Logic!Alive <=> L!Alive)
  BY DEF Logic!Init, L!Init, Logic!PostMsg2Que, L!PostMsg2Que, Logic!Notify, L!Notify,
         Logic!Dispatch, L!Dispatch, Logic!Lock, L!Lock, Logic!TestPredicate,
         L!TestPredicate, Logic!Wait, L!Wait, Logic!StartDispatch, L!StartDispatch,
         Logic!CallbackThrows, L!CallbackThrows, Logic!SpuriousWakeup, L!SpuriousWakeup,
         Logic!TypeOK, L!TypeOK, Logic!Alive, L!Alive, Logic!MutexFree, L!MutexFree,
         Logic!HoldsMutex, L!HoldsMutex, Logic!InSeq, L!InSeq, Logic!Push, L!Push,
         Logic!MustNotify, L!MustNotify, Logic!WakeWorker, L!WakeWorker, Logic!WorkerAt,
         L!WorkerAt, Logic!WorkerGo, L!WorkerGo, Logic!WorkerOnly, L!WorkerOnly,
         Logic!MustWait, L!MustWait, Logic!TakeFront, L!TakeFront, Logic!RunCallback,
         L!RunCallback, Logic!PopFront, L!PopFront, Logic!WorkerPcs, L!WorkerPcs,
         Logic!MainPcs, L!MainPcs

(* The same for the send queue. *)
LEMMA SameSender ==
  /\ Sender!Init <=> Q!Init
  /\ \A m : Sender!SendAccepted(m) <=> Q!SendAccepted(m)
  /\ \A m : Sender!SendRefused(m) <=> Q!SendRefused(m)
  /\ Sender!Write <=> Q!Write
  /\ Sender!HandleWriteOk <=> Q!HandleWriteOk
  /\ Sender!HandleWriteError <=> Q!HandleWriteError
  /\ Sender!Close <=> Q!Close
  /\ Sender!TypeOK <=> Q!TypeOK
  BY DEF Sender!Init, Q!Init, Sender!SendAccepted, Q!SendAccepted, Sender!SendRefused,
         Q!SendRefused, Sender!Write, Q!Write, Sender!WriteDone, Q!WriteDone,
         Sender!WritePartly, Q!WritePartly, Sender!WriteFails, Q!WriteFails,
         Sender!Complete, Q!Complete, Sender!HandleWriteOk, Q!HandleWriteOk,
         Sender!HandleWriteError, Q!HandleWriteError, Sender!Close, Q!Close,
         Sender!TypeOK, Q!TypeOK, Sender!Full, Q!Full, Sender!MustStart, Q!MustStart,
         Sender!AsyncSend, Q!AsyncSend, Sender!Fresh, Q!Fresh, Sender!InSeq, Q!InSeq,
         Sender!Continue, Q!Continue, Sender!queueVars, Q!queueVars, Sender!kernelVars,
         Q!kernelVars, Sender!Completions, Q!Completions

-----------------------------------------------------------------------------
(* What the parts assume of their constants follows from FramesOK. *)
LEMMA PartsOK == R!ConstantsOK /\ L!ConstantsOK /\ Q!ConstantsOK
<1>1. R!ConstantsOK
  BY FramesOK, SameReader
<1>2. L!ConstantsOK
  BY DEF L!ConstantsOK, Registered, Throwing
<1>3. Q!ConstantsOK
  BY FramesOK DEF Q!ConstantsOK
<1> QED
  BY <1>1, <1>2, <1>3

(* The types of what the parts share. *)
LEMMA Types ==
  ASSUME IInv
  PROVE  /\ pushed \in Seq(Nodes) /\ _msg_que \in Seq(Nodes)
         /\ accepted \in Seq(Nodes) /\ refused \subseteq Nodes /\ sent \in Seq(Frames)
         /\ posted \in Seq(R!BodyNode)
         /\ Len(pushed) \in Nat /\ Len(_msg_que) \in Nat /\ Len(accepted) \in Nat
         /\ Len(posted) \in Nat /\ Len(sent) \in Nat /\ Taken \in Nat
         /\ Len(posted) <= Len(sent) /\ \A i \in 1..Len(posted) : posted[i] = sent[i]
         /\ DOMAIN pushed = 1..Len(pushed) /\ DOMAIN _msg_que = 1..Len(_msg_que)
         /\ DOMAIN accepted = 1..Len(accepted) /\ DOMAIN posted = 1..Len(posted)
<1>1. /\ pushed \in Seq(Nodes) /\ _msg_que \in Seq(Nodes)
  BY DEF IInv, L!IInv, L!TypeOK
<1>2. accepted \in Seq(Nodes) /\ refused \subseteq Nodes
  BY DEF IInv, Q!IInv, Q!TypeOK
<1>3. /\ sent \in Seq(Frames)
      /\ posted \in Seq(R!BodyNode)
      /\ Len(posted) <= Len(sent) /\ \A i \in 1..Len(posted) : posted[i] = sent[i]
  BY DEF IInv, R!IInv, R!Sane, R!WellFormed, R!TypeOK, R!Delivered
<1>4. /\ Len(pushed) \in Nat /\ Len(_msg_que) \in Nat
      /\ DOMAIN pushed = 1..Len(pushed) /\ DOMAIN _msg_que = 1..Len(_msg_que)
  BY <1>1, LenProperties
<1>5. Len(accepted) \in Nat /\ DOMAIN accepted = 1..Len(accepted)
  BY <1>2, LenProperties
<1>6. Len(posted) \in Nat /\ Len(sent) \in Nat /\ DOMAIN posted = 1..Len(posted)
  BY <1>3, LenProperties
<1>7. Taken \in Nat
  BY <1>4 DEF IInv, Routed, Queued, Taken
<1> QED
  BY <1>1, <1>2, <1>3, <1>4, <1>5, <1>6, <1>7

(* A step that moves no frame keeps Routed. *)
LEMMA RoutedStays ==
  ASSUME Routed, UNCHANGED <<posted, pushed, _msg_que, accepted, refused>>
  PROVE  Routed'
<1>1. Numbered' /\ Queued' /\ Ordered' /\ Taken' = Taken
  BY DEF Routed, Numbered, Queued, Ordered, Taken
<1>2. Handed'
  BY <1>1 DEF Routed, Handed
<1> QED
  BY <1>1, <1>2 DEF Routed

(* A step that leaves the reading and the map as they are keeps Held. *)
LEMMA HeldStays ==
  ASSUME Held, UNCHANGED <<pc, listed, cleared>>
  PROVE  Held'
  BY DEF Held

(* A part a step does not touch keeps its invariant. *)
LEMMA ReaderStays ==
  ASSUME IInv, UNCHANGED readerVars
  PROVE  R!IInv' /\ UNCHANGED <<wire, sent, data, head, _b_head_parse, msg, posted, pc>>
<1>1. UNCHANGED <<wire, sent, data, head, _b_head_parse, msg, posted, pc>>
  BY DEF readerVars
<1>2. R!IInv /\ UNCHANGED R!vars
  BY <1>1 DEF IInv, R!vars
<1> QED
  BY <1>1, <1>2, R!StutterKeeps

(* The same for the logic queue. *)
LEMMA LogicStays ==
  ASSUME IInv, UNCHANGED logicVars
  PROVE  L!IInv' /\ UNCHANGED <<_msg_que, notifying, workerPc, pushed, handled, _b_stop, mainPc>>
<1>1. UNCHANGED <<_msg_que, notifying, workerPc, pushed, handled, _b_stop, mainPc>>
  BY DEF logicVars
<1>2. L!IInv /\ UNCHANGED L!vars
  BY <1>1 DEF IInv, L!vars
<1> QED
  BY <1>1, <1>2, PartsOK, L!OthersKeep

(* The same for the send queue. *)
LEMMA SenderStays ==
  ASSUME IInv, UNCHANGED senderVars
  PROVE  /\ Q!IInv'
         /\ UNCHANGED <<_send_queue, writes, completed, open, cleared, out, cut,
                        accepted, refused>>
<1>1. UNCHANGED <<_send_queue, writes, completed, open, cleared, out, cut, accepted, refused>>
  BY DEF senderVars
<1>2. Q!IInv /\ UNCHANGED Q!vars
  BY <1>1 DEF IInv, Q!vars
<1> QED
  BY <1>1, <1>2, PartsOK, Q!CloseKeeps

-----------------------------------------------------------------------------
(* The steps that route no frame, one by one: a frame of the peer. *)
LEMMA PeerSendKeeps ==
  ASSUME IInv, NEW f \in Frames, PeerSend(f)
  PROVE  IInv'
<1>1. R!PeerSend(f) /\ UNCHANGED <<logicVars, senderVars, listed>>
  BY SameReader DEF PeerSend
<1>2. R!IInv'
  BY <1>1, PartsOK, R!PeerKeeps DEF IInv
<1>3. UNCHANGED <<posted, pc>> /\ sent' = Append(sent, f) /\ Len(sent) < MaxFrames
  BY <1>1 DEF R!PeerSend
<1>4. Len(sent') <= MaxFrames
  <2>1. Len(sent') = Len(sent) + 1 /\ Len(sent) \in Nat
    BY <1>3, Types, AppendProperties
  <2> QED
    BY <2>1, <1>3, FramesOK
<1>5. L!IInv' /\ Q!IInv' /\ Routed' /\ Held'
  BY <1>1, <1>3, LogicStays, SenderStays, RoutedStays, HeldStays DEF IInv
<1> QED
  BY <1>2, <1>4, <1>5 DEF IInv

(* A read completes: the handler is to run. *)
LEMMA ReadSomeKeeps ==
  ASSUME IInv, ReadSome
  PROVE  IInv'
<1>1. PICK n \in 1..MAX_LENGTH : R!ReadSome(n)
  BY SameReader DEF ReadSome
<1>2. R!IInv'
  BY <1>1, PartsOK, R!ReaderKeeps DEF IInv
<1>3. UNCHANGED <<posted, sent>> /\ pc = "reading" /\ pc' = "parsing"
  BY <1>1 DEF R!ReadSome
<1>4. UNCHANGED <<logicVars, senderVars, listed>>
  BY DEF ReadSome
<1>5. L!IInv' /\ Q!IInv' /\ Routed'
  BY <1>3, <1>4, LogicStays, SenderStays, RoutedStays DEF IInv
<1>6. Held'
  BY <1>3, <1>4, SenderStays DEF IInv, Held
<1> QED
  BY <1>2, <1>3, <1>5, <1>6 DEF IInv

(* A failed read closes the socket and takes the session out of the map. *)
LEMMA ReadFailsKeeps ==
  ASSUME IInv, ReadFails
  PROVE  IInv'
<1>1. R!ReadFails /\ Q!Close /\ UNCHANGED logicVars /\ listed' = FALSE
  BY SameReader, SameSender DEF ReadFails, ClearSession
<1>2. R!IInv' /\ Q!IInv' /\ L!IInv'
  BY <1>1, PartsOK, R!ReaderKeeps, Q!CloseKeeps, LogicStays DEF IInv
<1>3. UNCHANGED <<posted, sent>> /\ pc' = "stopped"
  BY <1>1 DEF R!ReadFails, R!peerVars
<1>4. UNCHANGED <<accepted, refused, cleared, pushed, _msg_que>>
  BY <1>1, LogicStays DEF Q!Close, Q!queueVars
<1>5. Routed' /\ Held'
  BY <1>1, <1>3, <1>4, RoutedStays DEF IInv, Held
<1> QED
  BY <1>2, <1>3, <1>5 DEF IInv

(* The notification a push owes the worker. *)
LEMMA NotifyKeeps ==
  ASSUME IInv, Notify
  PROVE  IInv'
<1>1. L!Notify(Main) /\ UNCHANGED <<readerVars, senderVars, listed>>
  BY SameLogic DEF Notify
<1>2. L!IInv'
  BY <1>1, PartsOK, L!OthersKeep DEF IInv
<1>3. UNCHANGED <<pushed, _msg_que>>
  BY <1>1 DEF L!Notify
<1>4. R!IInv' /\ Q!IInv' /\ Routed' /\ Held' /\ sent' = sent
  BY <1>1, <1>3, ReaderStays, SenderStays, RoutedStays, HeldStays DEF IInv
<1> QED
  BY <1>2, <1>4 DEF IInv

(* The worker on its way to a node and back, or ended by an exception. *)
LEMMA WorkerStepKeeps ==
  ASSUME IInv, WorkerStep \/ SpuriousWakeup
  PROVE  IInv'
<1>1. /\ \/ L!Lock \/ L!TestPredicate \/ L!Wait \/ L!StartDispatch \/ L!CallbackThrows
         \/ L!SpuriousWakeup
      /\ UNCHANGED <<readerVars, senderVars, listed>>
  BY SameLogic DEF WorkerStep, SpuriousWakeup
<1>2. L!IInv'
  BY <1>1, PartsOK, L!WorkerKeeps DEF IInv, L!Worker
<1>3. UNCHANGED <<pushed, _msg_que>>
  BY <1>1 DEF L!Lock, L!TestPredicate, L!Wait, L!StartDispatch, L!CallbackThrows,
              L!SpuriousWakeup, L!WorkerOnly
<1>4. R!IInv' /\ Q!IInv' /\ Routed' /\ Held' /\ sent' = sent
  BY <1>1, <1>3, ReaderStays, SenderStays, RoutedStays, HeldStays DEF IInv
<1> QED
  BY <1>2, <1>4 DEF IInv

(* The kernel completes the write of the front answer. *)
LEMMA WriteKeeps ==
  ASSUME IInv, Write
  PROVE  IInv'
<1>1. Q!Write /\ UNCHANGED <<readerVars, logicVars, listed>>
  BY SameSender DEF Write
<1>2. Q!IInv'
  BY <1>1, PartsOK, Q!CompletionKeeps DEF IInv
<1>3. UNCHANGED <<accepted, refused, cleared>>
  BY <1>1 DEF Q!Write, Q!WriteDone, Q!WritePartly, Q!WriteFails, Q!queueVars
<1>4. R!IInv' /\ L!IInv' /\ Routed' /\ Held' /\ sent' = sent
  BY <1>1, <1>3, ReaderStays, LogicStays, RoutedStays, HeldStays DEF IInv
<1> QED
  BY <1>2, <1>4 DEF IInv

(* HandleWrite pops the answer, or takes the session out of the map. *)
LEMMA HandleWriteKeeps ==
  ASSUME IInv, HandleWrite
  PROVE  IInv'
<1>1. /\ Q!HandleWrite /\ UNCHANGED <<readerVars, logicVars>>
      /\ \/ Q!HandleWriteOk /\ UNCHANGED listed
         \/ Q!HandleWriteError /\ listed' = FALSE
  BY SameSender DEF HandleWrite, ClearSession, Q!HandleWrite
<1>2. Q!IInv'
  BY <1>1, PartsOK, Q!HandlerKeeps DEF IInv
<1>3. UNCHANGED <<accepted, refused>>
  BY <1>1 DEF Q!HandleWriteOk, Q!HandleWriteError, Q!queueVars
<1>4. R!IInv' /\ L!IInv' /\ Routed' /\ sent' = sent /\ pc' = pc
  BY <1>1, <1>3, ReaderStays, LogicStays, RoutedStays DEF IInv
<1>5. Held'
  <2>1. CASE Q!HandleWriteOk /\ UNCHANGED listed
    BY <2>1, <1>4, HeldStays DEF Q!HandleWriteOk, IInv
  <2>2. CASE Q!HandleWriteError /\ listed' = FALSE
    BY <2>2 DEF Q!HandleWriteError, Held
  <2> QED
    BY <1>1, <2>1, <2>2
<1> QED
  BY <1>2, <1>4, <1>5 DEF IInv

(* A step of something else. *)
LEMMA StutterKeeps ==
  ASSUME IInv, UNCHANGED vars
  PROVE  IInv'
<1>1. UNCHANGED <<readerVars, logicVars, senderVars, listed>>
  BY DEF vars
<1> QED
  BY <1>1, ReaderStays, LogicStays, SenderStays, RoutedStays, HeldStays DEF IInv

-----------------------------------------------------------------------------
(* A pass of the reader that completes a frame puts it into the queue with *)
(* the next number; any other pass leaves the queue alone.                 *)
LEMMA HandleReadKeeps ==
  ASSUME IInv, HandleRead
  PROVE  IInv'
<1>1. /\ R!HandleRead /\ Post /\ UNCHANGED senderVars
      /\ IF pc' = "stopped" THEN listed' = FALSE ELSE UNCHANGED listed
  BY SameReader DEF HandleRead, ClearSession
<1>2. R!IInv'
  BY <1>1, PartsOK, R!ReaderKeeps DEF IInv
<1>3. /\ sent' = sent /\ pc = "parsing" /\ pc' \in {"reading", "parsing", "stopped", "crashed"}
      /\ posted' = posted \/ \E f : posted' = Append(posted, f)
  BY <1>1, R!OnePass
<1>4. Q!IInv' /\ UNCHANGED <<cleared, accepted, refused>>
  BY <1>1, SenderStays
<1>5. Held'
  BY <1>1, <1>3, <1>4 DEF IInv, Held
<1>6. CASE posted' = posted
  <2>1. ~Finished
    BY <1>6, Types DEF Finished
  <2>2. L!IInv' /\ Routed'
    BY <1>1, <1>4, <1>6, <2>1, LogicStays, RoutedStays DEF Post, IInv
  <2> QED
    BY <1>2, <1>3, <1>4, <1>5, <2>2 DEF IInv
<1>7. CASE \E f : posted' = Append(posted, f)
  <2> DEFINE k == Len(posted)
             node == NewNode
  <2>1. PICK f : posted' = Append(posted, f)
    BY <1>7
  <2>2. /\ k \in Nat /\ Len(posted') = k + 1 /\ posted'[k + 1] = f
        /\ \A i \in 1..k : posted'[i] = posted[i]
    BY <2>1, Types, AppendProperties
  <2>3. Len(posted') <= Len(sent') /\ \A i \in 1..Len(posted') : posted'[i] = sent'[i]
    BY <1>2 DEF R!IInv, R!Sane, R!Delivered
  <2>4. node = LogicNode(k + 1, f) /\ f \in Frames /\ k + 1 \in 1..MaxFrames
    <3>1. node = LogicNode(k + 1, f)
      BY <2>2 DEF NewNode
    <3>2. k + 1 <= Len(sent) /\ Len(sent) \in Nat /\ Len(sent) <= MaxFrames
      BY <1>3, <2>2, <2>3, Types DEF IInv
    <3>3. f = sent[k + 1] /\ sent \in Seq(Frames)
      BY <1>3, <2>2, <2>3, Types
    <3>4. k + 1 \in 1..Len(sent)
      BY <2>2, <3>2
    <3>5. f \in Frames
      BY <3>3, <3>4
    <3>6. k + 1 \in 1..MaxFrames
      BY <2>2, <3>2, FramesOK
    <3> QED
      BY <3>1, <3>5, <3>6
  <2>5. node \in Nodes
    BY <2>4 DEF LogicNode, Nodes
  <2>6. Finished
    BY <2>2 DEF Finished
  <2>7. L!PostMsg2Que(Main, node)
    BY <1>1, <2>6, SameLogic DEF Post
  <2>8. L!IInv'
    BY <2>5, <2>7, PartsOK, L!PostKeeps DEF IInv
  <2>9. _msg_que' = Append(_msg_que, node) /\ pushed' = Append(pushed, node)
    BY <2>7 DEF L!PostMsg2Que, L!Push
  <2> HIDE DEF k, node
  <2>10. /\ Len(pushed) = k /\ Len(pushed') = k + 1 /\ pushed'[k + 1] = node
         /\ \A i \in 1..k : pushed'[i] = pushed[i] /\ pushed[i] = LogicNode(i, posted[i])
    BY <2>5, <2>9, Types, AppendProperties DEF IInv, Routed, Numbered, k
  <2>11. /\ Len(_msg_que) \in Nat /\ Len(_msg_que') = Len(_msg_que) + 1
         /\ _msg_que'[Len(_msg_que) + 1] = node
         /\ \A i \in 1..Len(_msg_que) : _msg_que'[i] = _msg_que[i]
    BY <2>5, <2>9, Types, AppendProperties
  <2>12. Taken \in Nat /\ Taken = k - Len(_msg_que) /\ Taken' = Taken
    BY <2>2, <2>10, <2>11, Types DEF Taken
  <2>13. Numbered'
    <3>1. Len(pushed') = Len(posted')
      BY <2>2, <2>10
    <3>2. \A i \in 1..(k + 1) : pushed'[i] = LogicNode(i, posted'[i])
      <4>1. \A i \in 1..(k + 1) : i \in 1..k \/ i = k + 1
        BY <2>2
      <4> QED
        BY <2>2, <2>4, <2>10, <4>1
    <3> QED
      BY <2>2, <3>1, <3>2 DEF Numbered
  <2>14. Queued'
    <3>1. ASSUME NEW i \in 1..(Len(_msg_que) + 1)
          PROVE  _msg_que'[i] = pushed'[Taken + i]
      <4>1. CASE i = Len(_msg_que) + 1
        <5>1. Taken + i = k + 1
          BY <2>2, <2>11, <2>12, <4>1
        <5> QED
          BY <2>10, <2>11, <4>1, <5>1
      <4>2. CASE i \in 1..Len(_msg_que)
        <5>1. Taken + i \in 1..k
          BY <2>2, <2>11, <2>12, <4>2
        <5>2. _msg_que[i] = pushed[Taken + i]
          BY <4>2 DEF IInv, Routed, Queued
        <5> QED
          BY <2>10, <2>11, <4>2, <5>1, <5>2
      <4> QED
        BY <2>11, <4>1, <4>2
    <3> QED
      BY <2>11, <2>12, <3>1 DEF Queued
  <2>15. Handed' /\ Ordered'
    <3>1. \A i \in 1..Taken : pushed'[i] = pushed[i]
      BY <2>2, <2>10, <2>11, <2>12
    <3> QED
      BY <1>4, <2>12, <3>1 DEF IInv, Routed, Handed, Ordered
  <2> QED
    BY <1>2, <1>3, <1>4, <1>5, <2>8, <2>13, <2>14, <2>15 DEF IInv, Routed
<1> QED
  BY <1>3, <1>6, <1>7

(* The worker takes the oldest node it is not done with, and hands it to   *)
(* Send if its id is registered.                                           *)
LEMMA DispatchKeeps ==
  ASSUME IInv, Dispatch
  PROVE  IInv'
<1> DEFINE node == Head(_msg_que)
<1>1. /\ L!Dispatch /\ UNCHANGED <<readerVars, listed>>
      /\ IF node \in Registered THEN Q!SendAccepted(node) \/ Q!SendRefused(node)
                                ELSE UNCHANGED senderVars
  BY SameLogic, SameSender DEF Dispatch, Answer, Send
<1>2. L!IInv'
  BY <1>1, PartsOK, L!WorkerKeeps DEF IInv, L!Worker
<1>3. R!IInv' /\ UNCHANGED <<sent, posted, pc>>
  BY <1>1, ReaderStays
<1>4. _msg_que # <<>>
  BY <1>1 DEF L!Dispatch, L!WorkerAt, IInv, L!IInv, L!FrontExists
<1>5. _msg_que' = Tail(_msg_que) /\ pushed' = pushed
  BY <1>1 DEF L!Dispatch, L!TakeFront, L!PopFront, L!WorkerOnly
<1>6. /\ node \in Nodes /\ node = _msg_que[1]
      /\ Len(_msg_que) \in Nat \ {0} /\ Len(_msg_que') = Len(_msg_que) - 1
      /\ \A i \in 1..(Len(_msg_que) - 1) : _msg_que'[i] = _msg_que[i + 1]
  BY <1>4, <1>5, Types, PartsOK, Q!Popped
<1> HIDE DEF node
<1>7. Taken \in Nat /\ Taken' = Taken + 1 /\ Taken + 1 \in 1..Len(pushed)
  BY <1>5, <1>6, Types DEF Taken
<1>8. node = pushed[Taken + 1] /\ node.nr = Taken + 1
  <2>1. Len(_msg_que) \in Nat /\ 1 \in 1..Len(_msg_que)
    BY <1>6
  <2>2. node = pushed[Taken + 1]
    BY <1>6, <2>1 DEF IInv, Routed, Queued
  <2>3. Len(pushed) = Len(posted) /\ pushed[Taken + 1] = LogicNode(Taken + 1, posted[Taken + 1])
    BY <1>7 DEF IInv, Routed, Numbered
  <2> QED
    BY <2>2, <2>3 DEF LogicNode
<1>9. /\ Q!IInv' /\ cleared' = cleared
      /\ \/ accepted' = accepted /\ refused' = IF node \in Registered THEN refused \cup {node}
                                                                      ELSE refused
         \/ accepted' = Append(accepted, node) /\ refused' = refused /\ node \in Registered
  <2>1. CASE node \notin Registered
    BY <1>1, <2>1, SenderStays
  <2>2. CASE node \in Registered /\ Q!SendAccepted(node)
    BY <1>6, <2>2, PartsOK, Q!SendKeeps DEF IInv, Q!SendAccepted
  <2>3. CASE node \in Registered /\ Q!SendRefused(node)
    BY <1>6, <2>3, PartsOK, Q!RefusalKeeps DEF IInv, Q!SendRefused
  <2> QED
    BY <1>1, <2>1, <2>2, <2>3
<1>10. Numbered'
  BY <1>3, <1>5 DEF IInv, Routed, Numbered
<1>11. Queued'
  <2>1. ASSUME NEW i \in 1..(Len(_msg_que) - 1)
        PROVE  _msg_que'[i] = pushed[Taken' + i]
    <3>1. i + 1 \in 1..Len(_msg_que) /\ Taken' + i = Taken + (i + 1)
      BY <1>6, <1>7
    <3>2. _msg_que[i + 1] = pushed[Taken + (i + 1)]
      BY <3>1 DEF IInv, Routed, Queued
    <3> QED
      BY <1>6, <3>1, <3>2
  <2> QED
    BY <1>5, <1>6, <1>7, <2>1 DEF Queued
<1>12. ASSUME NEW n
       PROVE  (\E i \in 1..Len(accepted') : accepted'[i] = n) \/ n \in refused'
                <=> \/ (\E i \in 1..Len(accepted) : accepted[i] = n) \/ n \in refused
                    \/ n = node /\ node \in Registered
  <2>1. CASE /\ accepted' = accepted
             /\ refused' = IF node \in Registered THEN refused \cup {node} ELSE refused
    BY <2>1
  <2>2. CASE accepted' = Append(accepted, node) /\ refused' = refused /\ node \in Registered
    <3>1. /\ Len(accepted) \in Nat /\ Len(accepted') = Len(accepted) + 1
          /\ accepted'[Len(accepted) + 1] = node
          /\ \A i \in 1..Len(accepted) : accepted'[i] = accepted[i]
      BY <1>6, <2>2, Types, AppendProperties
    <3>2. \A i : i \in 1..(Len(accepted) + 1) <=> i \in 1..Len(accepted) \/ i = Len(accepted) + 1
      BY <3>1
    <3> QED
      BY <2>2, <3>1, <3>2
  <2> QED
    BY <1>9, <2>1, <2>2
<1>13. ASSUME NEW n
       PROVE  n \in Registered /\ n.nr \in 1..Taken' /\ pushed'[n.nr] = n
                <=> \/ n \in Registered /\ n.nr \in 1..Taken /\ pushed[n.nr] = n
                    \/ n = node /\ node \in Registered
  <2>1. \A i : i \in 1..(Taken + 1) <=> i \in 1..Taken \/ i = Taken + 1
    BY <1>7
  <2> QED
    BY <1>5, <1>7, <1>8, <2>1
<1>14. Handed'
  BY <1>12, <1>13 DEF IInv, Routed, Handed
<1>15. Ordered'
  <2>1. CASE accepted' = accepted
    BY <2>1 DEF IInv, Routed, Ordered
  <2>2. CASE accepted' = Append(accepted, node)
    <3>1. /\ Len(accepted) \in Nat /\ Len(accepted') = Len(accepted) + 1
          /\ accepted'[Len(accepted) + 1] = node
          /\ \A i \in 1..Len(accepted) : accepted'[i] = accepted[i]
      BY <1>6, <2>2, Types, AppendProperties
    <3>2. \A i \in 1..Len(accepted) : accepted[i].nr \in 1..Taken
      BY DEF IInv, Routed, Handed
    <3>3. ASSUME NEW i \in 1..(Len(accepted) + 1), NEW j \in 1..(Len(accepted) + 1), i < j
          PROVE  accepted'[i].nr < accepted'[j].nr
      <4>1. i \in 1..Len(accepted)
        BY <3>1, <3>3
      <4>2. CASE j \in 1..Len(accepted)
        BY <3>1, <3>3, <4>1, <4>2 DEF IInv, Routed, Ordered
      <4>3. CASE j = Len(accepted) + 1
        <5>1. accepted'[i].nr \in 1..Taken /\ accepted'[j].nr = Taken + 1
          BY <1>8, <3>1, <3>2, <4>1, <4>3
        <5> QED
          BY <1>7, <5>1
      <4> QED
        BY <3>1, <4>2, <4>3
    <3> QED
      BY <3>1, <3>3 DEF Ordered
  <2> QED
    BY <1>9, <2>1, <2>2
<1>16. Held' /\ Routed'
  BY <1>1, <1>3, <1>9, <1>10, <1>11, <1>14, <1>15, HeldStays DEF IInv, Routed
<1> QED
  BY <1>2, <1>3, <1>9, <1>16 DEF IInv

-----------------------------------------------------------------------------
(* The initial state satisfies the inductive invariant. *)
LEMMA InitHolds == Init => IInv
<1> SUFFICES ASSUME Init PROVE IInv
  OBVIOUS
<1>1. R!Init /\ L!Init /\ Q!Init /\ listed = TRUE
  BY SameReader, SameLogic, SameSender DEF Init
<1>2. R!IInv /\ L!IInv /\ Q!IInv
  BY <1>1, PartsOK, R!Start, L!InitHolds, Q!InitHolds
<1>3. /\ posted = <<>> /\ sent = <<>> /\ pc = "reading" /\ pushed = <<>> /\ _msg_que = <<>>
      /\ accepted = <<>> /\ refused = {} /\ cleared = FALSE
  BY <1>1 DEF R!Init, L!Init, Q!Init
<1>4. Len(<<>>) = 0
  OBVIOUS
<1>5. Numbered /\ Queued /\ Taken = 0 /\ Ordered
  BY <1>3, <1>4 DEF Numbered, Queued, Taken, Ordered
<1>6. Handed
  BY <1>3, <1>4, <1>5 DEF Handed
<1>7. Held /\ Len(sent) <= MaxFrames
  BY <1>1, <1>3, <1>4, FramesOK DEF Held
<1> QED
  BY <1>2, <1>5, <1>6, <1>7 DEF IInv, Routed

(* The inductive invariant holds of every behaviour. *)
LEMMA Inductive == Spec => []IInv
<1>1. IInv /\ [Next]_vars => IInv'
  BY PeerSendKeeps, ReadSomeKeeps, HandleReadKeeps, NotifyKeeps, ReadFailsKeeps, DispatchKeeps,
     WorkerStepKeeps, WriteKeeps, HandleWriteKeeps, StutterKeeps DEF Next
<1> QED
  BY InitHolds, <1>1, PTL DEF Spec

-----------------------------------------------------------------------------
(* A frame that was read is in one place on its way: IInv says which, by   *)
(* its number.                                                             *)
LEMMA PlaceByNumber ==
  ASSUME IInv
  PROVE  OnePlace
<1> DEFINE k == Len(posted)
           answered == {accepted[i] : i \in DOMAIN accepted} \cup refused
           queued == {_msg_que[i] : i \in DOMAIN _msg_que}
           read == {pushed[i] : i \in DOMAIN pushed}
<1>1. /\ k \in Nat /\ Len(pushed) = k /\ DOMAIN pushed = 1..k /\ DOMAIN posted = 1..k
      /\ \A i \in 1..k : pushed[i] = LogicNode(i, posted[i])
  BY Types DEF IInv, Routed, Numbered
<1>2. /\ Taken \in Nat /\ Len(_msg_que) \in Nat /\ k = Taken + Len(_msg_que)
      /\ DOMAIN _msg_que = 1..Len(_msg_que) /\ DOMAIN accepted = 1..Len(accepted)
      /\ \A i \in 1..Len(_msg_que) : _msg_que[i] = pushed[Taken + i]
  BY <1>1, Types DEF IInv, Routed, Queued, Taken
<1> HIDE DEF k
<1>3. pushed = [i \in DOMAIN posted |-> LogicNode(i, posted[i])]
  <2>1. pushed \in [1..Len(pushed) -> Nodes]
    BY Types
  <2> QED
    BY <1>1, <2>1
<1>4. \A n : n \in queued <=> \E i \in 1..Len(_msg_que) : n = pushed[Taken + i]
  BY <1>2
<1>5. \A n : n \in queued <=> \E j \in 1..k : Taken < j /\ n = pushed[j]
  <2>1. ASSUME NEW i \in 1..Len(_msg_que)
        PROVE  Taken + i \in 1..k /\ Taken < Taken + i
    BY <1>1, <1>2
  <2>2. ASSUME NEW j \in 1..k, Taken < j
        PROVE  j - Taken \in 1..Len(_msg_que) /\ Taken + (j - Taken) = j
    BY <1>1, <1>2, <2>2
  <2> QED
    BY <1>4, <2>1, <2>2
<1>6. \A n : n \in answered <=> n \in Registered /\ n.nr \in 1..Taken /\ pushed[n.nr] = n
  <2>1. \A n : n \in answered <=> (\E i \in 1..Len(accepted) : accepted[i] = n) \/ n \in refused
    BY <1>2
  <2> QED
    BY <2>1 DEF IInv, Routed, Handed
<1>7. \A n : n \in read <=> \E j \in 1..k : n = pushed[j]
  BY <1>1
<1>8. \A j \in 1..k : pushed[j].nr = j
  BY <1>1 DEF LogicNode
<1>9. \A j \in 1..Taken : j \in 1..k /\ ~(Taken < j)
  BY <1>1, <1>2
<1>10. \A j \in 1..k : Taken < j \/ j \in 1..Taken
  BY <1>1, <1>2
<1>11. answered \cap queued = {}
  BY <1>5, <1>6, <1>8, <1>9
<1>12. answered = (read \cap Registered) \ queued
  <2>1. ASSUME NEW n \in answered PROVE n \in (read \cap Registered) \ queued
    BY <1>6, <1>7, <1>9, <1>11
  <2>2. ASSUME NEW n \in (read \cap Registered) \ queued PROVE n \in answered
    <3>1. PICK j \in 1..k : n = pushed[j]
      BY <1>7, <2>2
    <3>2. j \in 1..Taken
      BY <1>5, <1>10, <2>2, <3>1
    <3> QED
      BY <1>6, <1>8, <2>2, <3>1, <3>2
  <2> QED
    BY <2>1, <2>2
<1>13. \A i, j \in DOMAIN accepted : i < j => accepted[i].nr < accepted[j].nr
  BY <1>2 DEF IInv, Routed, Ordered
<1> QED
  BY <1>3, <1>11, <1>12, <1>13 DEF OnePlace

(* The reader, the two queues and the server's map agree, for frames with  *)
(* any signed 16-bit id and length, any number of them, any limits and any *)
(* cut of the stream: what is copied stays inside its buffer, a frame that *)
(* was read is in exactly one place, in order, and the map has the session *)
(* exactly as long as it reads and no write has failed.  A frame with a    *)
(* negative length, which the limit lets through, ends HandleRead and the  *)
(* process where its body node would be made.                              *)
THEOREM PartsFitAlways == Spec => []PartsFit
<1>1. ASSUME IInv PROVE PartsFit
  <2>1. TypeOK
    BY <1>1, PartsOK, R!Correct, SameReader, SameLogic, SameSender
       DEF TypeOK, IInv, L!IInv, Q!IInv, Held
  <2>2. MapExact
    BY <1>1 DEF MapExact, Idle, Listening, IInv, Held
  <2> QED
    BY <1>1, <2>1, <2>2, PlaceByNumber DEF PartsFit
<1> QED
  BY Inductive, <1>1, PTL

(* Beside the worker, the queues and the failures of a connection, the     *)
(* reader still posts what was sent: in order, none lost, repeated, merged *)
(* or split; and it crashes only at a head with a negative length, or at a *)
(* body without a node.                                                    *)
THEOREM ReassembledAlways == Spec => []Reassembled
<1>1. ASSUME IInv PROVE Reassembled
  BY <1>1, PartsOK, R!Correct, SameReader DEF Reassembled, IInv
<1> QED
  BY Inductive, <1>1, PTL

-----------------------------------------------------------------------------
(* What is about to be written answers a request that no later one was     *)
(* answered before.                                                        *)
LEMMA NextAnswer ==
  ASSUME IInv, writes # <<>>
  PROVE  /\ ~cleared /\ Head(writes).nr \in DOMAIN sent
         /\ Head(writes) = [nr |-> Head(writes).nr, frame |-> sent[Head(writes).nr]]
         /\ \A i \in DOMAIN out : out[i].nr < Head(writes).nr
<1> DEFINE node == Head(writes)
           m == Len(out)
<1>1. ~cleared /\ m < Len(accepted) /\ node = accepted[m + 1]
  BY PartsOK, Q!InProgress DEF IInv
<1>2. m \in Nat /\ DOMAIN out = 1..m /\ \A i \in 1..m : out[i] = accepted[i]
  <2>1. out \in Seq(Nodes) /\ \A i \in DOMAIN out : out[i] = accepted[i]
    BY DEF IInv, Q!IInv, Q!TypeOK, Q!InOrder
  <2> QED
    BY <2>1, LenProperties
<1> HIDE DEF node, m
<1>3. m + 1 \in 1..Len(accepted) /\ \A i \in 1..m : i \in 1..Len(accepted) /\ i < m + 1
  <2>1. Len(accepted) \in Nat
    BY Types
  <2> QED
    BY <1>1, <1>2, <2>1
<1>4. \A i \in 1..m : out[i].nr < node.nr
  BY <1>1, <1>2, <1>3 DEF IInv, Routed, Ordered
<1>5. node.nr \in 1..Taken /\ pushed[node.nr] = node
  BY <1>1, <1>3 DEF IInv, Routed, Handed
<1>6. node.nr \in 1..Len(posted)
  <2>1. /\ Taken \in Nat /\ Len(_msg_que) \in Nat /\ Len(posted) \in Nat
        /\ Taken = Len(posted) - Len(_msg_que)
    BY Types DEF Taken, IInv, Routed, Numbered
  <2>2. Taken <= Len(posted)
    BY <2>1
  <2> QED
    BY <1>5, <2>1, <2>2
<1>7. node.nr \in DOMAIN sent /\ posted[node.nr] = sent[node.nr]
  <2>1. /\ sent \in Seq(Frames) /\ Len(sent) \in Nat /\ Len(posted) \in Nat
        /\ Len(posted) <= Len(sent) /\ \A i \in 1..Len(posted) : posted[i] = sent[i]
    BY Types
  <2>2. DOMAIN sent = 1..Len(sent) /\ 1..Len(posted) \subseteq 1..Len(sent)
    BY <2>1, LenProperties
  <2> QED
    BY <1>6, <2>1, <2>2
<1>8. node = LogicNode(node.nr, posted[node.nr])
  BY <1>5, <1>6 DEF IInv, Routed, Numbered
<1> QED
  BY <1>1, <1>2, <1>4, <1>7, <1>8 DEF node, LogicNode

Over == cleared \/ ~open \/ ~Alive  \* what Service takes for the end

(* A connection that is over stays so: neither a write error, nor Close,   *)
(* nor the end of the process is undone.                                   *)
LEMMA OverStays ==
  ASSUME IInv, Next, Over
  PROVE  Over'
<1>0. pc = "crashed" => pc' = "crashed"
  <2> SUFFICES ASSUME pc = "crashed" PROVE pc' = "crashed"
    OBVIOUS
  <2>1. Notify \/ Dispatch \/ WorkerStep \/ SpuriousWakeup
    BY DEF Next, Alive, PeerSend, ReadSome, HandleRead, ReadFails, Write, HandleWrite
  <2> QED
    BY <2>1 DEF Notify, Dispatch, WorkerStep, SpuriousWakeup, readerVars
<1> USE <1>0 DEF Over, Alive, Logic!Alive
<1>1. ASSUME UNCHANGED logicVars, UNCHANGED senderVars PROVE Over'
  BY <1>1 DEF logicVars, senderVars
<1>2. ASSUME UNCHANGED logicVars, open' = open \/ open' = FALSE, cleared => cleared' PROVE Over'
  BY <1>2 DEF logicVars
<1>3. ASSUME UNCHANGED <<open, cleared>>, workerPc = "aborted" => workerPc' = "aborted"
      PROVE  Over'
  BY <1>3
<1>4. ASSUME NEW f \in Frames, PeerSend(f) PROVE Over'
  BY <1>1, <1>4 DEF PeerSend
<1>5. CASE ReadSome
  BY <1>1, <1>5 DEF ReadSome
<1>6. CASE HandleRead
  <2>1. UNCHANGED <<open, cleared>>
    BY <1>6 DEF HandleRead, senderVars
  <2>2. UNCHANGED workerPc
    BY <1>6 DEF HandleRead, Post, logicVars, Logic!PostMsg2Que
  <2> QED
    BY <1>3, <2>1, <2>2
<1>7. CASE Notify
  BY <1>3, <1>7 DEF Notify, Logic!Notify, Logic!WakeWorker, senderVars
<1>8. CASE ReadFails
  BY <1>2, <1>8 DEF ReadFails, Sender!Close
<1>9. CASE Dispatch
  <2>1. UNCHANGED <<open, cleared>>
    BY <1>9 DEF Dispatch, Answer, Send, Sender!SendAccepted, Sender!SendRefused, senderVars
  <2>2. workerPc = "dispatch"
    BY <1>9 DEF Dispatch, Logic!Dispatch, Logic!WorkerAt
  <2> QED
    BY <1>3, <2>1, <2>2
<1>10. CASE WorkerStep \/ SpuriousWakeup
  <2>1. UNCHANGED <<open, cleared>>
    BY <1>10 DEF WorkerStep, SpuriousWakeup, senderVars
  <2>2. workerPc = "aborted" => FALSE
    BY <1>10 DEF WorkerStep, SpuriousWakeup, Logic!Lock, Logic!TestPredicate, Logic!Wait,
         Logic!StartDispatch, Logic!CallbackThrows, Logic!SpuriousWakeup, Logic!WorkerAt
  <2> QED
    BY <1>3, <2>1, <2>2
<1>11. CASE Write
  BY <1>2, <1>11 DEF Write, Sender!Write, Sender!WriteDone, Sender!WritePartly, Sender!WriteFails
<1>12. CASE HandleWrite
  BY <1>2, <1>12 DEF HandleWrite, Sender!HandleWriteOk, Sender!HandleWriteError
<1> QED
  BY <1>4, <1>5, <1>6, <1>7, <1>8, <1>9, <1>10, <1>11, <1>12 DEF Next

(* One connection of the TLV servers implements the echo service: across   *)
(* the reader, both queues and the two threads, the client gets its        *)
(* answers in the order of its requests, each at most once, to what it     *)
(* asked, and none once the connection is over.                            *)
THEOREM Implementation == Spec => ImplementsEcho
<1> USE DEF Service!vars, Service!Next
<1>1. Init => Service!Init
  <2> SUFFICES ASSUME Init PROVE Service!Init
    OBVIOUS
  <2>1. /\ sent = <<>> /\ out = <<>> /\ cleared = FALSE /\ open = TRUE /\ workerPc = "lock"
        /\ pc = "reading"
    BY SameReader, SameLogic, SameSender DEF Init, R!Init, L!Init, Q!Init
  <2> QED
    BY <2>1 DEF Service!Init, Alive, Logic!Alive
<1>2. IInv /\ [Next]_vars => [Service!Next]_(Service!vars)
  <2> SUFFICES ASSUME IInv, [Next]_vars PROVE Service!Next \/ UNCHANGED Service!vars
    OBVIOUS
  <2>1. ASSUME Next, UNCHANGED <<sent, out>>
        PROVE  Service!Next \/ UNCHANGED Service!vars
    <3>1. Over' \/ (Over' = Over)
      BY <2>1, OverStays DEF Over
    <3>2. CASE Over'
      BY <2>1, <3>2 DEF Service!End, Over
    <3>3. CASE Over' = Over
      BY <2>1, <3>3 DEF Over
    <3> QED
      BY <3>1, <3>2, <3>3
  <2>2. ASSUME NEW f \in Frames, PeerSend(f) PROVE Service!Next
    BY <2>2 DEF PeerSend, Reader!PeerSend, senderVars, logicVars, Service!Ask, Alive, Logic!Alive
  <2>3. CASE ReadSome
    BY <2>1, <2>3 DEF ReadSome, Reader!Read, Reader!ReadSome, senderVars, Next
  <2>4. CASE HandleRead
    <3>1. sent' = sent
      BY <2>4, SameReader, R!OnePass DEF HandleRead
    <3>2. out' = out
      BY <2>4 DEF HandleRead, senderVars
    <3> QED
      BY <2>1, <2>4, <3>1, <3>2 DEF Next
  <2>5. CASE Notify \/ WorkerStep \/ SpuriousWakeup
    <3>1. UNCHANGED <<sent, out>>
      BY <2>5 DEF Notify, WorkerStep, SpuriousWakeup, readerVars, senderVars
    <3> QED
      BY <2>1, <2>5, <3>1 DEF Next
  <2>6. CASE ReadFails
    <3>1. UNCHANGED <<sent, out>>
      BY <2>6 DEF ReadFails, Reader!ReadFails, Reader!peerVars, Sender!Close, Sender!kernelVars
    <3> QED
      BY <2>1, <2>6, <3>1 DEF Next
  <2>7. CASE Dispatch
    <3>1. UNCHANGED <<sent, out>>
      BY <2>7 DEF Dispatch, Answer, Send, Sender!SendAccepted, Sender!SendRefused, readerVars,
           senderVars, Sender!kernelVars
    <3> QED
      BY <2>1, <2>7, <3>1 DEF Next
  <2>8. CASE Write
    <3>1. CASE Sender!WriteFails
      <4>1. UNCHANGED <<sent, out>>
        BY <2>8, <3>1 DEF Write, readerVars, Sender!WriteFails, Sender!kernelVars
      <4> QED
        BY <2>1, <2>8, <4>1 DEF Next
    <3>2. CASE Sender!WriteDone \/ Sender!WritePartly
      <4> DEFINE k == Head(writes).nr
      <4>1. /\ writes # <<>> /\ open /\ out' = Append(out, Head(writes))
            /\ UNCHANGED <<open, cleared>>
        BY <3>2 DEF Sender!WriteDone, Sender!WritePartly, Sender!Complete
      <4>2. Alive /\ UNCHANGED <<sent, workerPc, pc>>
        BY <2>8 DEF Write, readerVars, logicVars
      <4>3. ~Over /\ Over' = Over
        BY <4>1, <4>2, NextAnswer DEF Over, Alive, Logic!Alive
      <4>4. /\ k \in DOMAIN sent /\ Head(writes) = [nr |-> k, frame |-> sent[k]]
            /\ \A i \in DOMAIN out : out[i].nr < k
        BY <4>1, NextAnswer
      <4>5. Service!Answer(k)
        BY <4>1, <4>2, <4>3, <4>4 DEF Service!Answer, Over
      <4> QED
        BY <4>4, <4>5
    <3> QED
      BY <2>8, <3>1, <3>2 DEF Write, Sender!Write
  <2>9. CASE HandleWrite
    <3>1. UNCHANGED <<sent, out>>
      BY <2>9 DEF HandleWrite, Sender!HandleWriteOk, Sender!HandleWriteError, readerVars,
           Sender!kernelVars
    <3> QED
      BY <2>1, <2>9, <3>1 DEF Next
  <2>10. CASE UNCHANGED vars
    BY <2>10 DEF vars, readerVars, logicVars, senderVars, Alive, Logic!Alive
  <2> QED
    BY <2>2, <2>3, <2>4, <2>5, <2>6, <2>7, <2>8, <2>9, <2>10 DEF Next
<1> QED
  BY Inductive, <1>1, <1>2, PTL DEF Spec, ImplementsEcho, Service!Spec

-----------------------------------------------------------------------------
(* AsyncEchoServer2 has the same two halves, joined by HandleRead itself   *)
(* in the place of the logic queue: EchoSession, for a reader whose head   *)
(* has no id.  The lemmas of the reader and of the send queue do again.    *)
E == INSTANCE TlvReader_proofs WITH HEAD_ID_LEN <- 0, Frames <- Echo!ClientFrames
S == INSTANCE SendQueue_proofs
  WITH Msgs <- 1..MaxFrames, MAX_SENDQUE_SIZE <- MAX_QUESIZE, wire <- out

(* The lemmas of the reader are about the reader of EchoSession too. *)
LEMMA EchoReader ==
  /\ Echo!Reader!ConstantsOK <=> E!ConstantsOK
  /\ Echo!Reader!Init <=> E!Init
  /\ \A f \in Echo!ClientFrames : Echo!Reader!PeerSend(f) <=> E!PeerSend(f)
  /\ Echo!Reader!Read <=> \E n \in 1..MAX_LENGTH : E!ReadSome(n)
  /\ Echo!Reader!ReadFails <=> E!ReadFails
  /\ Echo!Reader!HandleRead <=> E!HandleRead
  /\ Echo!Reader!WellFormed <=> E!WellFormed
<1>0. /\ Echo!Reader!SHRT_MIN = E!SHRT_MIN /\ Echo!Reader!SHRT_MAX = E!SHRT_MAX
      /\ Echo!Reader!Byte = E!Byte /\ Echo!Reader!HEAD_TOTAL_LEN = E!HEAD_TOTAL_LEN
  BY DEF Echo!Reader!SHRT_MIN, E!SHRT_MIN, Echo!Reader!SHRT_MAX, E!SHRT_MAX, Echo!Reader!Byte, E!Byte,
         Echo!Reader!HEAD_TOTAL_LEN, E!HEAD_TOTAL_LEN, Echo!Reader!HEAD_DATA_LEN, E!HEAD_DATA_LEN
<1>1. Echo!Reader!ConstantsOK <=> E!ConstantsOK
  BY <1>0 DEF Echo!Reader!ConstantsOK, E!ConstantsOK, Echo!Reader!Short, E!Short
<1>2. Echo!Reader!Init <=> E!Init
  BY <1>0 DEF Echo!Reader!Init, E!Init, Echo!Reader!NoMsg, E!NoMsg
<1>3. ASSUME NEW f \in Echo!ClientFrames PROVE Echo!Reader!PeerSend(f) <=> E!PeerSend(f)
  BY DEF Echo!Reader!PeerSend, E!PeerSend, Echo!Reader!Encode, E!Encode, Echo!Reader!EncodeId,
         E!EncodeId, Echo!Reader!Encode16, E!Encode16
<1>4. Echo!Reader!Read <=> \E n \in 1..MAX_LENGTH : E!ReadSome(n)
  BY DEF Echo!Reader!Read, Echo!Reader!ReadSome, E!ReadSome, Echo!Reader!Take, E!Take,
         Echo!Reader!Drop, E!Drop, Echo!Reader!Min2, E!Min2
<1>5. Echo!Reader!ReadFails <=> E!ReadFails
  BY DEF Echo!Reader!ReadFails, E!ReadFails, Echo!Reader!peerVars, E!peerVars
<1>6. Echo!Reader!WellFormed <=> E!WellFormed
  BY <1>0 DEF Echo!Reader!WellFormed, E!WellFormed, Echo!Reader!TypeOK, E!TypeOK,
         Echo!Reader!WithinBuffers, E!WithinBuffers, Echo!Reader!NoMsg, E!NoMsg,
         Echo!Reader!BodyNode, E!BodyNode
<1>8. Echo!Reader!HandleRead <=> E!HandleRead
  <2>1. /\ Echo!Reader!Parsing <=> E!Parsing
        /\ Echo!Reader!ReadOn <=> E!ReadOn
        /\ Echo!Reader!NoMsg = E!NoMsg
        /\ Echo!Reader!msg_remain = E!msg_remain
        /\ \A q, n : Echo!Reader!Take(q, n) = E!Take(q, n) /\ Echo!Reader!Drop(q, n) = E!Drop(q, n)
        /\ \A x, y : Echo!Reader!Decode16(x, y) = E!Decode16(x, y)
    BY <1>0 DEF Echo!Reader!Parsing, E!Parsing, Echo!Reader!ReadOn, E!ReadOn, Echo!Reader!NoMsg,
           E!NoMsg, Echo!Reader!msg_remain, E!msg_remain, Echo!Reader!Take, E!Take,
           Echo!Reader!Drop, E!Drop, Echo!Reader!Decode16, E!Decode16
  <2>2. /\ Echo!Reader!head_remain = E!head_remain /\ Echo!Reader!WholeHead = E!WholeHead
        /\ Echo!Reader!AfterHead = E!AfterHead
    BY <1>0, <2>1 DEF Echo!Reader!head_remain, E!head_remain, Echo!Reader!WholeHead, E!WholeHead,
           Echo!Reader!AfterHead, E!AfterHead
  <2>3. /\ Echo!Reader!msg_id = E!msg_id /\ Echo!Reader!msg_len = E!msg_len
        /\ Echo!Reader!HeadIncomplete <=> E!HeadIncomplete
    BY <1>0, <2>1, <2>2 DEF Echo!Reader!msg_id, E!msg_id, Echo!Reader!msg_len, E!msg_len,
           Echo!Reader!HeadIncomplete, E!HeadIncomplete
  <2>4. /\ Echo!Reader!HeadComplete <=> E!HeadComplete
        /\ Echo!Reader!ValidHead <=> E!ValidHead
    BY <2>1, <2>3 DEF Echo!Reader!HeadComplete, E!HeadComplete, Echo!Reader!ValidHead, E!ValidHead
  <2>5. \A node, rest : Echo!Reader!FinishBody(node, rest) <=> E!FinishBody(node, rest)
    BY <2>1 DEF Echo!Reader!FinishBody, E!FinishBody, Echo!Reader!StartOver, E!StartOver,
           Echo!Reader!Keep, E!Keep, Echo!Reader!peerVars, E!peerVars
  <2>6. Echo!Reader!HeadShort <=> E!HeadShort
    BY <2>1, <2>3 DEF Echo!Reader!HeadShort, E!HeadShort, Echo!Reader!peerVars, E!peerVars
  <2>7. Echo!Reader!HeadInvalid <=> E!HeadInvalid
    BY <2>2, <2>4 DEF Echo!Reader!HeadInvalid, E!HeadInvalid, Echo!Reader!peerVars, E!peerVars
  <2>8. Echo!Reader!NewBodyShort <=> E!NewBodyShort
    BY <2>1, <2>2, <2>3, <2>4 DEF Echo!Reader!NewBodyShort, E!NewBodyShort,
           Echo!Reader!peerVars, E!peerVars
  <2>9. Echo!Reader!NewBodyWhole <=> E!NewBodyWhole
    BY <2>1, <2>2, <2>3, <2>4, <2>5 DEF Echo!Reader!NewBodyWhole, E!NewBodyWhole
  <2>10. Echo!Reader!BodyShort <=> E!BodyShort
    BY <2>1 DEF Echo!Reader!BodyShort, E!BodyShort, Echo!Reader!peerVars, E!peerVars
  <2>11. Echo!Reader!BodyWhole <=> E!BodyWhole
    BY <2>1, <2>5 DEF Echo!Reader!BodyWhole, E!BodyWhole
  <2>12. Echo!Reader!NullBody <=> E!NullBody
    BY <2>1 DEF Echo!Reader!NullBody, E!NullBody, Echo!Reader!peerVars, E!peerVars
  <2>13. Echo!Reader!NewBodyNegative <=> E!NewBodyNegative
    BY <2>3, <2>4 DEF Echo!Reader!NewBodyNegative, E!NewBodyNegative,
           Echo!Reader!peerVars, E!peerVars
  <2> QED
    BY <2>6, <2>7, <2>8, <2>9, <2>10, <2>11, <2>12, <2>13 DEF Echo!Reader!HandleRead, E!HandleRead
<1> QED
  BY <1>1, <1>2, <1>3, <1>4, <1>5, <1>6, <1>8

(* The same for the send queue. *)
LEMMA EchoSender ==
  /\ Echo!Sender!Init <=> S!Init
  /\ \A m : Echo!Sender!SendAccepted(m) <=> S!SendAccepted(m)
  /\ \A m : Echo!Sender!SendRefused(m) <=> S!SendRefused(m)
  /\ Echo!Sender!Write <=> S!Write
  /\ Echo!Sender!HandleWriteOk <=> S!HandleWriteOk
  /\ Echo!Sender!HandleWriteError <=> S!HandleWriteError
  /\ Echo!Sender!Close <=> S!Close
  /\ Echo!Sender!TypeOK <=> S!TypeOK
  BY DEF Echo!Sender!Init, S!Init, Echo!Sender!SendAccepted, S!SendAccepted, Echo!Sender!SendRefused,
         S!SendRefused, Echo!Sender!Write, S!Write, Echo!Sender!WriteDone, S!WriteDone,
         Echo!Sender!WritePartly, S!WritePartly, Echo!Sender!WriteFails, S!WriteFails,
         Echo!Sender!Complete, S!Complete, Echo!Sender!HandleWriteOk, S!HandleWriteOk,
         Echo!Sender!HandleWriteError, S!HandleWriteError, Echo!Sender!Close, S!Close,
         Echo!Sender!TypeOK, S!TypeOK, Echo!Sender!Full, S!Full, Echo!Sender!MustStart, S!MustStart,
         Echo!Sender!AsyncSend, S!AsyncSend, Echo!Sender!Fresh, S!Fresh, Echo!Sender!InSeq, S!InSeq,
         Echo!Sender!Continue, S!Continue, Echo!Sender!queueVars, S!queueVars,
         Echo!Sender!kernelVars, S!kernelVars, Echo!Sender!Completions, S!Completions

-----------------------------------------------------------------------------
(* What the parts assume of their constants follows from EchoFramesOK.     *)
LEMMA EchoPartsOK == E!ConstantsOK /\ S!ConstantsOK
<1>1. E!ConstantsOK
  BY EchoReader, EchoFramesOK DEF Echo!FramesOK
<1>2. S!ConstantsOK
  BY EchoFramesOK DEF Echo!FramesOK, S!ConstantsOK
<1> QED
  BY <1>1, <1>2

\* Each frame that was read was given to Send, in the order of the frames.
Answering ==
  /\ \A n : (\E i \in 1..Len(accepted) : accepted[i] = n) \/ n \in refused
              <=> n \in 1..Len(posted)
  /\ \A i, j \in 1..Len(accepted) : i < j => accepted[i] < accepted[j]

EchoInv ==
  /\ E!IInv /\ S!IInv /\ Answering /\ Held
  /\ Len(requests) = Len(sent) /\ Len(sent) <= MaxFrames
  /\ \E T : requests \in Seq(T)

(* The types of what the parts share. *)
LEMMA EchoTypes ==
  ASSUME EchoInv
  PROVE  /\ accepted \in Seq(1..MaxFrames) /\ sent \in Seq(Echo!ClientFrames)
         /\ posted \in Seq(E!BodyNode)
         /\ Len(accepted) \in Nat /\ Len(posted) \in Nat /\ Len(sent) \in Nat
         /\ Len(posted) <= Len(sent)
         /\ DOMAIN accepted = 1..Len(accepted) /\ DOMAIN posted = 1..Len(posted)
<1>1. accepted \in Seq(1..MaxFrames)
  BY DEF EchoInv, S!IInv, S!TypeOK
<1>2. /\ sent \in Seq(Echo!ClientFrames) /\ Len(posted) <= Len(sent)
      /\ posted \in Seq(E!BodyNode)
  BY DEF EchoInv, E!IInv, E!Sane, E!WellFormed, E!TypeOK, E!Delivered
<1> QED
  BY <1>1, <1>2, LenProperties

(* A step that reads no frame and sends no answer keeps Answering. *)
LEMMA AnsweringStays ==
  ASSUME Answering, UNCHANGED <<posted, accepted, refused>>
  PROVE  Answering'
  BY DEF Answering

(* A half a step does not touch keeps its invariant. *)
LEMMA EchoSenderStays ==
  ASSUME EchoInv, UNCHANGED Echo!senderVars
  PROVE  S!IInv' /\ UNCHANGED <<accepted, refused, cleared>>
<1>1. /\ UNCHANGED <<_send_queue, writes, completed, open, cleared, out, cut>>
      /\ UNCHANGED <<accepted, refused, cleared>>
  BY DEF Echo!senderVars
<1>2. S!IInv /\ UNCHANGED S!vars
  BY <1>1 DEF EchoInv, S!vars
<1> QED
  BY <1>1, <1>2, EchoPartsOK, S!CloseKeeps

(* The same for the reader. *)
LEMMA EchoReaderStays ==
  ASSUME EchoInv, UNCHANGED Echo!readerVars
  PROVE  E!IInv' /\ UNCHANGED <<sent, posted, pc>>
<1>1. UNCHANGED <<wire, sent, data, head, _b_head_parse, msg, posted, pc>>
  BY DEF Echo!readerVars
<1>2. E!IInv /\ UNCHANGED E!vars
  BY <1>1 DEF EchoInv, E!vars
<1> QED
  BY <1>1, <1>2, E!StutterKeeps

(* What the client records of a frame keeps the two histories in step. *)
LEMMA AskedInStep ==
  ASSUME EchoInv, NEW f \in Echo!ClientFrames, NEW m,
         sent' = Append(sent, f), requests' = Append(requests, m), Len(sent) < MaxFrames
  PROVE  /\ Len(requests') = Len(sent') /\ Len(sent') <= MaxFrames
         /\ \E T : requests' \in Seq(T)
<1>1. sent \in Seq(Echo!ClientFrames) /\ Len(sent) \in Nat /\ Len(requests) = Len(sent)
  BY EchoTypes DEF EchoInv
<1>2. PICK T : requests \in Seq(T)
  BY DEF EchoInv
<1>3. requests \in Seq(T \cup {m}) /\ m \in T \cup {m}
  BY <1>2
<1>4. requests' \in Seq(T \cup {m}) /\ Len(requests') = Len(requests) + 1
  BY <1>3, AppendProperties
<1>5. Len(sent') = Len(sent) + 1
  BY <1>1, AppendProperties
<1>6. MaxFrames \in Nat
  BY EchoFramesOK DEF Echo!FramesOK
<1> QED
  BY <1>1, <1>4, <1>5, <1>6

(* A frame of the client, a message or not, whatever length it gives. *)
LEMMA EchoPeerSendKeeps ==
  ASSUME EchoInv, NEW m, NEW f \in Echo!ClientFrames, Echo!PeerSend(m, f)
  PROVE  EchoInv'
<1>1. Echo!Reader!PeerSend(f) /\ requests' = Append(requests, m)
      /\ UNCHANGED <<Echo!senderVars, listed>>
  BY DEF Echo!PeerSend
<1>2. E!PeerSend(f)
  BY <1>1, EchoReader
<1>3. E!IInv'
  BY <1>2, EchoPartsOK, E!PeerKeeps DEF EchoInv
<1>4. UNCHANGED <<posted, pc>> /\ sent' = Append(sent, f) /\ Len(sent) < MaxFrames
  BY <1>2 DEF E!PeerSend
<1>5. S!IInv' /\ Answering' /\ Held'
  BY <1>1, <1>4, EchoSenderStays, AnsweringStays, HeldStays DEF EchoInv
<1> QED
  BY <1>1, <1>3, <1>4, <1>5, AskedInStep DEF EchoInv

(* A read completes: the handler is to run. *)
LEMMA EchoReadSomeKeeps ==
  ASSUME EchoInv, Echo!ReadSome
  PROVE  EchoInv'
<1>1. PICK n \in 1..MAX_LENGTH : E!ReadSome(n)
  BY EchoReader DEF Echo!ReadSome
<1>2. E!IInv'
  BY <1>1, EchoPartsOK, E!ReaderKeeps DEF EchoInv
<1>3. UNCHANGED <<posted, sent>> /\ pc = "reading" /\ pc' = "parsing"
  BY <1>1 DEF E!ReadSome
<1>4. UNCHANGED <<Echo!senderVars, listed, requests>>
  BY DEF Echo!ReadSome
<1>5. S!IInv' /\ Answering' /\ UNCHANGED cleared
  BY <1>3, <1>4, EchoSenderStays, AnsweringStays DEF EchoInv
<1>6. Held'
  BY <1>3, <1>4, <1>5 DEF EchoInv, Held
<1> QED
  BY <1>2, <1>3, <1>4, <1>5, <1>6 DEF EchoInv

(* A failed read closes the socket and takes the session out of the map. *)
LEMMA EchoReadFailsKeeps ==
  ASSUME EchoInv, Echo!ReadFails
  PROVE  EchoInv'
<1>1. E!ReadFails /\ S!Close /\ listed' = FALSE /\ UNCHANGED requests
  BY EchoReader, EchoSender DEF Echo!ReadFails, Echo!ClearSession
<1>2. E!IInv' /\ S!IInv'
  BY <1>1, EchoPartsOK, E!ReaderKeeps, S!CloseKeeps DEF EchoInv
<1>3. UNCHANGED <<posted, sent>> /\ pc' = "stopped"
  BY <1>1 DEF E!ReadFails, E!peerVars
<1>4. UNCHANGED <<accepted, refused, cleared>>
  BY <1>1 DEF S!Close, S!queueVars
<1>5. Answering' /\ Held'
  BY <1>1, <1>3, <1>4, AnsweringStays DEF EchoInv, Held
<1> QED
  BY <1>1, <1>2, <1>3, <1>5 DEF EchoInv

(* The kernel completes the write of the front answer. *)
LEMMA EchoWriteKeeps ==
  ASSUME EchoInv, Echo!Write
  PROVE  EchoInv'
<1>1. S!Write /\ UNCHANGED <<Echo!readerVars, listed, requests>>
  BY EchoSender DEF Echo!Write
<1>2. S!IInv'
  BY <1>1, EchoPartsOK, S!CompletionKeeps DEF EchoInv
<1>3. UNCHANGED <<accepted, refused, cleared>>
  BY <1>1 DEF S!Write, S!WriteDone, S!WritePartly, S!WriteFails, S!queueVars
<1>4. E!IInv' /\ Answering' /\ Held' /\ sent' = sent
  BY <1>1, <1>3, EchoReaderStays, AnsweringStays, HeldStays DEF EchoInv
<1> QED
  BY <1>1, <1>2, <1>4 DEF EchoInv

(* HandleWrite pops the answer, or takes the session out of the map. *)
LEMMA EchoHandleWriteKeeps ==
  ASSUME EchoInv, Echo!HandleWrite
  PROVE  EchoInv'
<1>1. /\ S!HandleWrite /\ UNCHANGED <<Echo!readerVars, requests>>
      /\ \/ S!HandleWriteOk /\ UNCHANGED listed
         \/ S!HandleWriteError /\ listed' = FALSE
  BY EchoSender DEF Echo!HandleWrite, Echo!ClearSession, S!HandleWrite
<1>2. S!IInv'
  BY <1>1, EchoPartsOK, S!HandlerKeeps DEF EchoInv
<1>3. UNCHANGED <<accepted, refused>>
  BY <1>1 DEF S!HandleWriteOk, S!HandleWriteError, S!queueVars
<1>4. E!IInv' /\ Answering' /\ UNCHANGED <<sent, pc>>
  BY <1>1, <1>3, EchoReaderStays, AnsweringStays DEF EchoInv
<1>5. Held'
  <2>1. CASE S!HandleWriteOk /\ UNCHANGED listed
    BY <2>1, <1>4, HeldStays DEF S!HandleWriteOk, EchoInv
  <2>2. CASE S!HandleWriteError /\ listed' = FALSE
    BY <2>2 DEF S!HandleWriteError, Held
  <2> QED
    BY <1>1, <2>1, <2>2
<1> QED
  BY <1>1, <1>2, <1>4, <1>5 DEF EchoInv

(* A pass of the reader that completes a frame gives Send its number, the  *)
(* next one; any other pass leaves the queue alone.                        *)
LEMMA EchoHandleReadKeeps ==
  ASSUME EchoInv, Echo!HandleRead
  PROVE  EchoInv'
<1>1. /\ E!HandleRead /\ Echo!Answer /\ UNCHANGED requests
      /\ IF pc' = "stopped" THEN listed' = FALSE ELSE UNCHANGED listed
  BY EchoReader DEF Echo!HandleRead, Echo!ClearSession
<1>2. E!IInv'
  BY <1>1, EchoPartsOK, E!ReaderKeeps DEF EchoInv
<1>3. /\ sent' = sent /\ pc = "parsing" /\ pc' \in {"reading", "parsing", "stopped", "crashed"}
      /\ posted' = posted \/ \E f : posted' = Append(posted, f)
  BY <1>1, E!OnePass
<1>4. S!IInv' /\ Answering' /\ cleared' = cleared
  <2>1. CASE posted' = posted
    <3>1. ~Echo!Finished
      BY <2>1, EchoTypes DEF Echo!Finished
    <3>2. UNCHANGED Echo!senderVars
      BY <1>1, <3>1 DEF Echo!Answer
    <3> QED
      BY <2>1, <3>2, EchoSenderStays, AnsweringStays DEF EchoInv
  <2>2. CASE \E f : posted' = Append(posted, f)
    <3>1. PICK k \in Nat : k = Len(posted)
      BY EchoTypes
    <3>2. Len(posted') = k + 1
      BY <2>2, <3>1, EchoTypes, AppendProperties
    <3>3. Echo!Finished /\ Echo!Send(k + 1)
      BY <1>1, <3>1, <3>2 DEF Echo!Finished, Echo!Answer
    <3>4. PICK n \in 1..MaxFrames : n = k + 1
      <4>1. Len(posted') <= Len(sent')
        BY <1>2 DEF E!IInv, E!Sane, E!Delivered
      <4>2. k + 1 <= Len(sent) /\ Len(sent) \in Nat /\ Len(sent) <= MaxFrames
        BY <1>3, <3>2, <4>1, EchoTypes DEF EchoInv
      <4>3. MaxFrames \in Nat
        BY EchoFramesOK DEF Echo!FramesOK
      <4> QED
        BY <4>2, <4>3
    <3>5. S!SendAccepted(n) \/ S!SendRefused(n)
      BY <3>3, <3>4, EchoSender DEF Echo!Send
    <3>6. S!IInv' /\ cleared' = cleared
      <4>1. CASE S!SendAccepted(n)
        BY <4>1, EchoPartsOK, S!SendKeeps DEF EchoInv, S!SendAccepted
      <4>2. CASE S!SendRefused(n)
        BY <4>2, EchoPartsOK, S!RefusalKeeps DEF EchoInv, S!SendRefused
      <4> QED
        BY <3>5, <4>1, <4>2
    <3>7. \A i : i \in 1..Len(posted') <=> i \in 1..k \/ i = n
      BY <3>2, <3>4
    <3>8. \A i \in 1..k : i < n
      BY <3>4
    <3>9. CASE S!SendRefused(n)
      <4>1. accepted' = accepted /\ refused' = refused \cup {n}
        BY <3>9 DEF S!SendRefused
      <4> QED
        BY <3>1, <3>6, <3>7, <4>1 DEF EchoInv, Answering
    <3>10. CASE S!SendAccepted(n)
      <4>1. accepted' = Append(accepted, n) /\ refused' = refused
        BY <3>10 DEF S!SendAccepted
      <4>2. PICK m \in Nat : m = Len(accepted)
        BY EchoTypes
      <4>3. /\ Len(accepted') = m + 1 /\ accepted'[m + 1] = n
            /\ \A i \in 1..m : accepted'[i] = accepted[i]
        BY <4>1, <4>2, EchoTypes, AppendProperties
      <4>4. \A i : i \in 1..(m + 1) <=> i \in 1..m \/ i = m + 1
        BY <4>2
      <4>5. \A i \in 1..m : accepted[i] \in 1..k
        BY <3>1, <4>2 DEF EchoInv, Answering
      <4>6. ASSUME NEW x
            PROVE  (\E i \in 1..Len(accepted') : accepted'[i] = x) \/ x \in refused'
                     <=> x \in 1..Len(posted')
        <5>1. (\E i \in 1..m : accepted[i] = x) \/ x \in refused <=> x \in 1..k
          BY <3>1, <4>2 DEF EchoInv, Answering
        <5>2. (\E i \in 1..(m + 1) : accepted'[i] = x)
                <=> (\E i \in 1..m : accepted[i] = x) \/ n = x
          BY <4>3, <4>4
        <5> QED
          BY <3>7, <4>1, <4>3, <5>1, <5>2
      <4>7. ASSUME NEW i \in 1..(m + 1), NEW j \in 1..(m + 1), i < j
            PROVE  accepted'[i] < accepted'[j]
        <5>1. i \in 1..m
          BY <4>2, <4>7
        <5>2. CASE j \in 1..m
          BY <4>2, <4>3, <4>7, <5>1, <5>2 DEF EchoInv, Answering
        <5>3. CASE j = m + 1
          BY <3>8, <4>3, <4>5, <5>1, <5>3
        <5> QED
          BY <4>4, <5>2, <5>3
      <4> QED
        BY <3>6, <4>3, <4>6, <4>7 DEF Answering
    <3> QED
      BY <3>5, <3>9, <3>10
  <2> QED
    BY <1>3, <2>1, <2>2
<1>5. Held'
  BY <1>1, <1>3, <1>4 DEF EchoInv, Held
<1> QED
  BY <1>1, <1>2, <1>3, <1>4, <1>5 DEF EchoInv

-----------------------------------------------------------------------------
(* The initial state satisfies the inductive invariant. *)
LEMMA EchoInitHolds ==
  ASSUME Echo!Init
  PROVE  EchoInv
<1>1. E!Init /\ S!Init /\ listed = TRUE /\ requests = <<>>
  BY EchoReader, EchoSender DEF Echo!Init
<1>2. E!IInv /\ S!IInv
  BY <1>1, EchoPartsOK, E!Start, S!InitHolds
<1>3. /\ posted = <<>> /\ sent = <<>> /\ pc = "reading"
      /\ accepted = <<>> /\ refused = {} /\ cleared = FALSE
  BY <1>1 DEF E!Init, S!Init
<1>4. Len(<<>>) = 0 /\ <<>> \in Seq({})
  OBVIOUS
<1>5. Answering
  BY <1>3, <1>4 DEF Answering
<1>6. Held
  BY <1>1, <1>3 DEF Held
<1>7. Len(sent) <= MaxFrames /\ Len(requests) = Len(sent) /\ requests \in Seq({})
  BY <1>1, <1>3, <1>4, EchoFramesOK DEF Echo!FramesOK
<1> QED
  BY <1>2, <1>5, <1>6, <1>7 DEF EchoInv

(* In a state of the invariant the parts fit. *)
LEMMA EchoFits ==
  ASSUME EchoInv
  PROVE  Echo!PartsFit
<1>1. Echo!TypeOK
  BY EchoPartsOK, E!Correct, EchoReader, EchoSender DEF Echo!TypeOK, EchoInv, S!IInv, Held
<1>2. Echo!AnswersMatch
  <2>1. DOMAIN accepted = 1..Len(accepted)
    BY EchoTypes
  <2>2. {accepted[i] : i \in DOMAIN accepted} \cup refused = 1..Len(posted)
    BY <2>1 DEF EchoInv, Answering
  <2> QED
    BY <2>1, <2>2 DEF Echo!AnswersMatch, EchoInv, Answering
<1>3. Echo!MapExact
  BY DEF Echo!MapExact, Echo!Idle, Echo!Listening, EchoInv, Held
<1> QED
  BY <1>1, <1>2, <1>3 DEF Echo!PartsFit

(* The reader and the send queue of the echo session agree, for any        *)
(* messages, bodies that are none, limits and chunks, for lengths in the   *)
(* wrong byte order that are over the limit or negative, and whatever its  *)
(* flag _b_head_parse holds at first: each frame read was passed to Send   *)
(* once, in order, the map has the session as long as it reads and no      *)
(* write has failed, and every copy into a node the code has made stays    *)
(* inside it; where none can be made, or there is none, HandleRead ends.   *)
THEOREM EchoPartsFitAlways == Echo!Spec => []EchoPartsFit
<1>1. Echo!Init => EchoInv
  BY EchoInitHolds
<1>2. EchoInv /\ [Echo!Next]_(Echo!vars) => EchoInv'
  <2> SUFFICES ASSUME EchoInv, [Echo!Next]_(Echo!vars) PROVE EchoInv'
    OBVIOUS
  <2>1. ASSUME NEW m \in Messages, Echo!SendMessage(m) PROVE EchoInv'
    <3>1. Echo!Frame(Echo!ClientCodec!SerializeToString(m)) \in Echo!ClientFrames
      BY DEF Echo!ClientFrames
    <3> QED
      BY <2>1, <3>1, EchoPeerSendKeeps DEF Echo!SendMessage
  <2>2. ASSUME NEW body \in Garbage, Echo!SendGarbage(body) PROVE EchoInv'
    <3>1. Echo!Frame(body) \in Echo!ClientFrames
      BY DEF Echo!ClientFrames
    <3> QED
      BY <2>2, <3>1, EchoPeerSendKeeps DEF Echo!SendGarbage
  <2>3. ASSUME NEW body \in Hellos, Echo!SendHello(body) PROVE EchoInv'
    <3>1. Echo!HelloFrame(body) \in Echo!ClientFrames
      BY DEF Echo!ClientFrames
    <3> QED
      BY <2>3, <3>1, EchoPeerSendKeeps DEF Echo!SendHello
  <2>4. CASE UNCHANGED Echo!vars
    <3>1. /\ UNCHANGED Echo!readerVars /\ UNCHANGED Echo!senderVars
          /\ UNCHANGED listed /\ UNCHANGED requests
      BY <2>4 DEF Echo!vars
    <3> QED
      BY <3>1, EchoReaderStays, EchoSenderStays, AnsweringStays, HeldStays DEF EchoInv
  <2> QED
    BY <2>1, <2>2, <2>3, <2>4, EchoReadSomeKeeps, EchoHandleReadKeeps,
       EchoReadFailsKeeps, EchoWriteKeeps, EchoHandleWriteKeeps DEF Echo!Next
<1>3. EchoInv => EchoPartsFit
  BY EchoFits DEF EchoPartsFit
<1> QED
  BY <1>1, <1>2, <1>3, PTL DEF Echo!Spec
=============================================================================
