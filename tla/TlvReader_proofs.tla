--------------------------- MODULE TlvReader_proofs ---------------------------
(***************************************************************************)
(* What holds of TlvReader for any frames, limit, chunks and both forms of *)
(* the head, with any signed 16-bit numbers in it: the copies stay inside  *)
(* the buffers, what is posted is what was sent, and nothing ends          *)
(* HandleRead early but a negative length or a body without a node.        *)
(*                                                                         *)
(* The invariant is stated without recursion: T is all that the peer ever  *)
(* put on the wire and b[i] is where its first i frames end (Stream).      *)
(* Every byte that is not parsed yet is in its place of T (Placed), and    *)
(* the head or the body being collected starts right after the last frame  *)
(* posted (Aligned).  What follows a head that is over the limit or of a   *)
(* negative length may be anything: that head ends the parsing.            *)
(***************************************************************************)
EXTENDS TlvReader, TLAPS, SequenceTheorems

HeadId(T, k) == IF HEAD_ID_LEN = 0 THEN 0 ELSE Decode16(T[k + 1], T[k + 2])
HeadLen(T, k) == Decode16(T[k + HEAD_ID_LEN + 1], T[k + HEAD_ID_LEN + 2])

\* The bytes of T after k are those of f.
BodyAt(T, k, f) == \A j \in 1..Len(f.body) : T[k + HEAD_TOTAL_LEN + j] = f.body[j]
FrameAt(T, k, f) == HeadId(T, k) = f.id /\ HeadLen(T, k) = f.len /\ BodyAt(T, k, f)

Size(f) == HEAD_TOTAL_LEN + Len(f.body)

Stream(T, b) ==
  /\ T \in Seq(Byte) /\ b \in [0..Len(sent) -> Nat]
  /\ b[0] = 0 /\ b[Len(sent)] = Len(T)
  /\ \A i, j \in 0..Len(sent) : i <= j => b[i] <= b[j]
  /\ \A i \in 1..Len(sent) : b[i] = b[i - 1] + Size(sent[i]) /\ FrameAt(T, b[i - 1], sent[i])

Parsed(T) == Len(T) - Len(wire) - Len(data)

Placed(T) ==
  /\ Parsed(T) >= 0
  /\ \A i \in 1..Len(data) : data[i] = T[Parsed(T) + i]
  /\ \A i \in 1..Len(wire) : wire[i] = T[Parsed(T) + Len(data) + i]

InHead(T, k) ==
  Parsed(T) = k + Len(head) /\ \A i \in 1..Len(head) : head[i] = T[k + i]

InBody(T, k, f) ==
  /\ msg.id = f.id /\ msg.len = f.len /\ f.len = Len(f.body) /\ BodyAt(T, k, f)
  /\ Parsed(T) = k + HEAD_TOTAL_LEN + Len(msg.body)
  /\ \A i \in 1..Len(msg.body) : msg.body[i] = f.body[i]

Collecting == _b_head_parse /\ msg # NoMsg

Aligned(T, b) == pc \in {"reading", "parsing"} =>
  IF Collecting
  THEN Len(posted) < Len(sent) /\ InBody(T, b[Len(posted)], sent[Len(posted) + 1])
  ELSE InHead(T, b[Len(posted)])

Delivered == Len(posted) <= Len(sent) /\ \A i \in 1..Len(posted) : posted[i] = sent[i]

ReadingOn == pc = "reading" => data = <<>>

Follows(T, b) == Stream(T, b) /\ Placed(T) /\ Aligned(T, b)

Explained == pc = "crashed" =>
  \/ _b_head_parse
  \/ Len(posted) < Len(sent) /\ sent[Len(posted) + 1].len < 0

Sane == WellFormed /\ Delivered /\ ReadingOn /\ Explained

IInv == Sane /\ \E T, b : Follows(T, b)

FrameType(f) ==
  /\ f \in [id : Short, len : Short, body : Seq(Byte)]
  /\ f.len \in 0..MAX_LENGTH => Len(f.body) = f.len
  /\ HEAD_ID_LEN = 0 => f.id = 0

-----------------------------------------------------------------------------
(* The first n bytes of a sequence, and the others. *)
LEMMA TakeDrop ==
  ASSUME NEW q \in Seq(Byte), NEW n \in 0..Len(q)
  PROVE  /\ Take(q, n) \in Seq(Byte) /\ Len(Take(q, n)) = n
         /\ \A i \in 1..n : Take(q, n)[i] = q[i]
         /\ Drop(q, n) \in Seq(Byte) /\ Len(Drop(q, n)) = Len(q) - n
         /\ \A i \in 1..(Len(q) - n) : Drop(q, n)[i] = q[n + i]
<1> DEFINE l == Len(q)
<1>1. l \in Nat /\ \A i \in 1..l : q[i] \in Byte
  BY LenProperties
<1> HIDE DEF l
<1>2. n \in Nat /\ n <= l
  BY <1>1 DEF l
<1>3. /\ SubSeq(q, 1, n) \in Seq(Byte)
      /\ Len(SubSeq(q, 1, n)) = IF 1 <= n THEN n - 1 + 1 ELSE 0
      /\ \A i \in 1..(n - 1 + 1) : SubSeq(q, 1, n)[i] = q[1 + i - 1]
  <2>1. \A i \in 1..n : q[i] \in Byte
    BY <1>1, <1>2
  <2>2. 1 \in Int /\ n \in Int
    BY <1>2
  <2> QED
    BY <2>1, <2>2, SubSeqProperties
<1>4. /\ SubSeq(q, n + 1, l) \in Seq(Byte)
      /\ Len(SubSeq(q, n + 1, l)) = IF n + 1 <= l THEN l - (n + 1) + 1 ELSE 0
      /\ \A i \in 1..(l - (n + 1) + 1) : SubSeq(q, n + 1, l)[i] = q[n + 1 + i - 1]
  <2>1. \A i \in (n + 1)..l : q[i] \in Byte
    BY <1>1, <1>2
  <2>2. n + 1 \in Int /\ l \in Int
    BY <1>1, <1>2
  <2> QED
    BY <2>1, <2>2, SubSeqProperties, SMTT(60)
<1>5. /\ Len(SubSeq(q, 1, n)) = n
      /\ \A i \in 1..n : SubSeq(q, 1, n)[i] = q[i]
  BY <1>2, <1>3
<1>6. /\ Len(SubSeq(q, n + 1, l)) = l - n
      /\ \A i \in 1..(l - n) : SubSeq(q, n + 1, l)[i] = q[n + i]
  BY <1>1, <1>2, <1>4
<1> QED
  BY <1>3, <1>4, <1>5, <1>6 DEF Take, Drop, l

(* Two sequences of bytes, one after the other. *)
LEMMA Joined ==
  ASSUME NEW p \in Seq(Byte), NEW q \in Seq(Byte)
  PROVE  /\ p \o q \in Seq(Byte) /\ Len(p) \in Nat /\ Len(q) \in Nat
         /\ Len(p \o q) = Len(p) + Len(q)
         /\ \A i \in 1..Len(p) : (p \o q)[i] = p[i]
         /\ \A i \in 1..Len(q) : (p \o q)[Len(p) + i] = q[i]
<1> DEFINE r == p \o q
           l == Len(p)
           m == Len(q)
<1>1. l \in Nat /\ m \in Nat
  BY LenProperties
<1>2. r \in Seq(Byte) /\ Len(r) = l + m
      /\ \A i \in 1..(l + m) : r[i] = IF i <= l THEN p[i] ELSE q[i - l]
  BY ConcatProperties
<1> HIDE DEF r, l, m
<1>3. \A i \in 1..l : r[i] = p[i]
  BY <1>1, <1>2
<1>4. ASSUME NEW i \in 1..m PROVE r[l + i] = q[i]
  <2>1. l + i \in 1..(l + m) /\ ~(l + i <= l) /\ (l + i) - l = i
    BY <1>1
  <2> QED
    BY <2>1, <1>2
<1> QED
  BY <1>1, <1>2, <1>3, <1>4 DEF r, l, m

(* A byte as the provers see it best. *)
LEMMA ByteRange ==
  ASSUME NEW x
  PROVE  x \in Byte <=> x \in Nat /\ x < 256
  BY DEF Byte

(* The range of a short, for the places that calculate with it. *)
LEMMA ShortRange ==
  ASSUME NEW n \in Short
  PROVE  n \in Int /\ SHRT_MIN <= n /\ n <= SHRT_MAX
<1>1. SHRT_MIN \in Int /\ SHRT_MAX \in Int
  BY SMT DEF SHRT_MIN, SHRT_MAX
<1> QED
  BY <1>1, SMT DEF Short

(* What two bytes are decoded to. *)
LEMMA DecodedType ==
  ASSUME NEW x \in Byte, NEW y \in Byte
  PROVE  Decode16(x, y) \in Int
<1>1. x \in Nat /\ x < 256 /\ y \in Nat /\ y < 256
  BY ByteRange
<1> QED
  BY <1>1 DEF Decode16, SHRT_MAX

(* A signed number is split into two bytes, and comes back from them. *)
LEMMA Encoded16 ==
  ASSUME NEW n \in Short
  PROVE  /\ Encode16(n) \in Seq(Byte) /\ Len(Encode16(n)) = 2
         /\ Decode16(Encode16(n)[1], Encode16(n)[2]) = n
<1>1. n \in Int /\ SHRT_MIN <= n /\ n <= SHRT_MAX
  BY ShortRange
<1>2. PICK u \in Nat : u = IF n >= 0 THEN n ELSE n + 65536
  BY <1>1, SMT DEF SHRT_MIN
<1>3. /\ u < 65536
      /\ n = IF u <= SHRT_MAX THEN u ELSE u - 65536
  BY <1>1, <1>2, SMT DEF SHRT_MIN, SHRT_MAX
<1>4. n % 65536 = u
  BY <1>1, <1>2, <1>3, SMT
<1>5. n % 256 = u % 256
  BY <1>1, <1>2, SMT
<1>6. PICK q, r : q = u \div 256 /\ r = u % 256
  OBVIOUS
<1>7. q \in Nat /\ q < 256 /\ r \in Nat /\ r < 256 /\ 256 * q + r = u
  BY <1>3, <1>6
<1>8. Encode16(n) = <<q, r>>
  BY <1>4, <1>5, <1>6 DEF Encode16
<1>9. Decode16(q, r) = n
  BY <1>3, <1>7 DEF Decode16
<1>10. q \in Byte /\ r \in Byte
  BY <1>7, ByteRange
<1>11. <<q, r>> \in Seq(Byte) /\ Len(<<q, r>>) = 2 /\ <<q, r>>[1] = q /\ <<q, r>>[2] = r
  BY <1>10
<1> QED
  BY <1>8, <1>9, <1>11

(* A frame of the peer, and what Encode makes of it. *)
LEMMA Encoded ==
  ASSUME ConstantsOK, NEW f, FrameType(f)
  PROVE  /\ Encode(f) \in Seq(Byte) /\ Len(Encode(f)) = Size(f)
         /\ FrameAt(Encode(f), 0, f)
<1> DEFINE n == Len(f.body)
           l == Encode16(f.len)
           h == EncodeId(f)
           hl == h \o l
           e == hl \o f.body
<1>1. f.body \in Seq(Byte) /\ n \in Nat /\ f.id \in Short /\ f.len \in Short
  BY LenProperties DEF FrameType
<1>2. l \in Seq(Byte) /\ Len(l) = 2 /\ Decode16(l[1], l[2]) = f.len
  BY <1>1, Encoded16
<1>3. Encode(f) = e
  BY DEF Encode
<1> HIDE DEF l, h, e
<1>4. CASE HEAD_ID_LEN = 2
  <2>1. f.id \in Short
    BY <1>1
  <2>2. h \in Seq(Byte) /\ Len(h) = 2 /\ Decode16(h[1], h[2]) = f.id
    <3>1. h = Encode16(f.id)
      BY <1>4 DEF EncodeId, h
    <3> QED
      BY <2>1, <3>1, Encoded16
  <2>3. /\ hl \in Seq(Byte) /\ Len(hl) = Len(h) + Len(l)
        /\ \A i \in 1..Len(h) : hl[i] = h[i]
        /\ \A i \in 1..Len(l) : hl[Len(h) + i] = l[i]
    BY <1>2, <2>2, Joined
  <2>4. Len(hl) = 4 /\ hl[1] = h[1] /\ hl[2] = h[2] /\ hl[3] = l[1] /\ hl[4] = l[2]
    BY <1>2, <2>2, <2>3
  <2> HIDE DEF hl, n
  <2>5. /\ e \in Seq(Byte) /\ Len(e) = Len(hl) + Len(f.body)
        /\ \A i \in 1..Len(hl) : e[i] = hl[i]
        /\ \A i \in 1..Len(f.body) : e[Len(hl) + i] = f.body[i]
    <3>1. ASSUME NEW q \in Seq(Byte)
          PROVE  /\ hl \o q \in Seq(Byte) /\ Len(hl \o q) = Len(hl) + Len(q)
                 /\ \A i \in 1..Len(hl) : (hl \o q)[i] = hl[i]
                 /\ \A i \in 1..Len(q) : (hl \o q)[Len(hl) + i] = q[i]
      BY <2>3, Joined
    <3> QED
      BY <1>1, <3>1 DEF e
  <2>6. /\ e[1] = h[1] /\ e[2] = h[2] /\ e[3] = l[1] /\ e[4] = l[2]
        /\ Len(e) = 4 + n /\ \A i \in 1..n : e[4 + i] = f.body[i]
    BY <2>4, <2>5 DEF n
  <2>7. HEAD_TOTAL_LEN = 4
    BY <1>4 DEF HEAD_TOTAL_LEN, HEAD_DATA_LEN
  <2>8. HeadId(e, 0) = f.id /\ HeadLen(e, 0) = f.len
    BY <1>2, <1>4, <2>2, <2>6 DEF HeadId, HeadLen
  <2>9. BodyAt(e, 0, f) /\ Size(f) = 4 + n
    BY <2>6, <2>7 DEF BodyAt, Size, n
  <2> QED
    BY <1>3, <2>5, <2>6, <2>8, <2>9 DEF FrameAt, n
<1>5. CASE HEAD_ID_LEN = 0
  <2>1. f.id = 0 /\ h = <<>>
    BY <1>5 DEF FrameType, EncodeId, h
  <2>2. hl = l
    BY <1>2, <2>1, ConcatEmptySeq
  <2> HIDE DEF hl, n
  <2>3. /\ e \in Seq(Byte) /\ Len(e) = Len(l) + Len(f.body)
        /\ \A i \in 1..Len(l) : e[i] = l[i]
        /\ \A i \in 1..Len(f.body) : e[Len(l) + i] = f.body[i]
    <3>1. ASSUME NEW q \in Seq(Byte)
          PROVE  /\ l \o q \in Seq(Byte) /\ Len(l \o q) = Len(l) + Len(q)
                 /\ \A i \in 1..Len(l) : (l \o q)[i] = l[i]
                 /\ \A i \in 1..Len(q) : (l \o q)[Len(l) + i] = q[i]
      BY <1>2, Joined
    <3>2. e = l \o f.body
      BY <2>2 DEF e
    <3> QED
      BY <1>1, <3>1, <3>2
  <2>4. /\ e[1] = l[1] /\ e[2] = l[2]
        /\ Len(e) = 2 + n /\ \A i \in 1..n : e[2 + i] = f.body[i]
    BY <1>2, <2>3 DEF n
  <2>5. HEAD_TOTAL_LEN = 2
    BY <1>5 DEF HEAD_TOTAL_LEN, HEAD_DATA_LEN
  <2>6. HeadId(e, 0) = f.id /\ HeadLen(e, 0) = f.len
    BY <1>2, <1>5, <2>1, <2>4 DEF HeadId, HeadLen
  <2>7. BodyAt(e, 0, f) /\ Size(f) = 2 + n
    BY <2>4, <2>5 DEF BodyAt, Size, n
  <2> QED
    BY <1>3, <2>3, <2>4, <2>6, <2>7 DEF FrameAt, n
<1> QED
  BY <1>4, <1>5 DEF ConstantsOK

(* What the other lemmas need to know of a frame. *)
LEMMA Frame ==
  ASSUME ConstantsOK, NEW f \in Frames
  PROVE  /\ FrameType(f) /\ f.body \in Seq(Byte) /\ Len(f.body) \in Nat
         /\ f.id \in Int /\ f.len \in Int /\ SHRT_MIN <= f.id
         /\ f = [id |-> f.id, len |-> f.len, body |-> f.body]
         /\ f.len \in 0..MAX_LENGTH => Len(f.body) = f.len
         /\ HEAD_ID_LEN \in Nat /\ HEAD_TOTAL_LEN \in Nat
         /\ HEAD_TOTAL_LEN = HEAD_ID_LEN + 2 /\ (HEAD_ID_LEN = 0 \/ HEAD_ID_LEN = 2)
         /\ Size(f) \in Nat /\ Size(f) = HEAD_TOTAL_LEN + Len(f.body)
<1>1. FrameType(f)
  BY DEF ConstantsOK, FrameType
<1>2. HEAD_TOTAL_LEN \in Nat /\ HEAD_TOTAL_LEN = HEAD_ID_LEN + 2
      /\ (HEAD_ID_LEN = 0 \/ HEAD_ID_LEN = 2) /\ HEAD_ID_LEN \in Nat
  BY DEF ConstantsOK, HEAD_TOTAL_LEN, HEAD_DATA_LEN
<1>3. /\ f.body \in Seq(Byte) /\ f.id \in Short /\ f.len \in Short
      /\ f = [id |-> f.id, len |-> f.len, body |-> f.body]
      /\ f.len \in 0..MAX_LENGTH => Len(f.body) = f.len
  BY <1>1 DEF FrameType
<1>4. Len(f.body) \in Nat /\ f.id \in Int /\ f.len \in Int /\ SHRT_MIN <= f.id
  BY <1>3, ShortRange, LenProperties
<1>5. Size(f) \in Nat /\ Size(f) = HEAD_TOTAL_LEN + Len(f.body)
  <2>1. \A x \in Nat : HEAD_TOTAL_LEN + x \in Nat
    BY <1>2
  <2> QED
    BY <1>4, <2>1 DEF Size
<1> QED
  BY <1>1, <1>2, <1>3, <1>4, <1>5

(* A frame is where its bytes are. *)
LEMMA Moved ==
  ASSUME ConstantsOK, NEW f \in Frames, NEW T, NEW T2, NEW k \in Nat, NEW k2 \in Nat,
         \A i \in 1..Size(f) : T2[k2 + i] = T[k + i]
  PROVE  /\ FrameAt(T, k, f) => FrameAt(T2, k2, f)
         /\ BodyAt(T, k, f) => BodyAt(T2, k2, f)
<1>1. BodyAt(T, k, f) => BodyAt(T2, k2, f)
  <2>1. ASSUME NEW j \in 1..Len(f.body), BodyAt(T, k, f)
        PROVE  T2[k2 + HEAD_TOTAL_LEN + j] = f.body[j]
    <3>1. /\ HEAD_TOTAL_LEN + j \in 1..Size(f)
          /\ k2 + HEAD_TOTAL_LEN + j = k2 + (HEAD_TOTAL_LEN + j)
          /\ k + HEAD_TOTAL_LEN + j = k + (HEAD_TOTAL_LEN + j)
      BY Frame, SMTT(60)
    <3>2. T2[k2 + (HEAD_TOTAL_LEN + j)] = T[k + (HEAD_TOTAL_LEN + j)]
      BY <3>1
    <3> QED
      BY <2>1, <3>1, <3>2 DEF BodyAt
  <2> QED
    BY <2>1 DEF BodyAt
<1>2. HeadId(T2, k2) = HeadId(T, k) /\ HeadLen(T2, k2) = HeadLen(T, k)
  <2>1. CASE HEAD_ID_LEN = 0
    <3>1. 1 \in 1..Size(f) /\ 2 \in 1..Size(f)
      BY <2>1, Frame
    <3>2. T2[k2 + 1] = T[k + 1] /\ T2[k2 + 2] = T[k + 2]
      BY <3>1
    <3> QED
      BY <2>1, <3>2 DEF HeadId, HeadLen
  <2>2. CASE HEAD_ID_LEN = 2
    <3>1. 1 \in 1..Size(f) /\ 2 \in 1..Size(f) /\ 3 \in 1..Size(f) /\ 4 \in 1..Size(f)
      BY <2>2, Frame
    <3>2. /\ T2[k2 + 1] = T[k + 1] /\ T2[k2 + 2] = T[k + 2]
          /\ T2[k2 + 3] = T[k + 3] /\ T2[k2 + 4] = T[k + 4]
      BY <3>1
    <3> QED
      BY <2>2, <3>2 DEF HeadId, HeadLen
  <2> QED
    BY <2>1, <2>2, Frame
<1> QED
  BY <1>1, <1>2 DEF FrameAt

(* The frames of a stream lie in it one after the other. *)
LEMMA InStream ==
  ASSUME ConstantsOK, TypeOK, NEW T, NEW b, Stream(T, b)
  PROVE  /\ Len(T) \in Nat /\ Len(sent) \in Nat /\ b[0] = 0 /\ b[Len(sent)] = Len(T)
         /\ \A i \in 0..Len(sent) : b[i] \in Nat /\ b[i] <= Len(T)
         /\ \A i \in 1..Len(sent) :
              /\ sent[i] \in Frames /\ b[i - 1] \in Nat /\ FrameAt(T, b[i - 1], sent[i])
              /\ b[i - 1] + Size(sent[i]) = b[i]
<1>1. Len(T) \in Nat /\ Len(sent) \in Nat
  BY LenProperties DEF TypeOK, Stream
<1>2. ASSUME NEW i \in 0..Len(sent) PROVE b[i] \in Nat /\ b[i] <= Len(T)
  BY <1>1 DEF Stream
<1>3. ASSUME NEW i \in 1..Len(sent)
      PROVE  /\ sent[i] \in Frames /\ b[i - 1] \in Nat /\ FrameAt(T, b[i - 1], sent[i])
             /\ b[i - 1] + Size(sent[i]) = b[i]
  <2>1. sent[i] \in Frames
    BY ElementOfSeq DEF TypeOK
  <2>2. i - 1 \in 0..Len(sent)
    BY <1>1
  <2> QED
    BY <1>2, <2>1, <2>2 DEF Stream
<1> QED
  BY <1>1, <1>2, <1>3 DEF Stream

-----------------------------------------------------------------------------
(* The peer.                                                               *)

(* At first nothing is on the wire. *)
LEMMA Start ==
  ASSUME ConstantsOK, Init
  PROVE  IInv
<1>1. TypeOK
  BY DEF Init, TypeOK, ConstantsOK, NoMsg
<1>2. Len(wire) = 0 /\ Len(data) = 0 /\ Len(sent) = 0 /\ Len(posted) = 0 /\ Len(head) = 0
  BY DEF Init
<1>3. WithinBuffers
  BY <1>2 DEF WithinBuffers, Init, NoMsg, ConstantsOK, HEAD_TOTAL_LEN, HEAD_DATA_LEN
<1>4. Sane
  BY <1>1, <1>2, <1>3 DEF Sane, WellFormed, Delivered, ReadingOn, Explained, Init
<1>5. PICK T : T = <<>>
  OBVIOUS
<1>6. PICK b : b = [i \in 0..Len(sent) |-> 0]
  OBVIOUS
<1>7. T \in Seq(Byte) /\ Len(T) = 0 /\ b[0] = 0
  BY <1>2, <1>5, <1>6
<1>8. Stream(T, b)
  BY <1>2, <1>6, <1>7 DEF Stream
<1>9. Placed(T)
  BY <1>2, <1>7 DEF Placed, Parsed
<1>10. Aligned(T, b)
  <2>1. msg = NoMsg
    BY DEF Init
  <2> QED
    BY <1>2, <1>7, <2>1 DEF Aligned, Collecting, InHead, Parsed
<1> QED
  BY <1>4, <1>8, <1>9, <1>10 DEF IInv, Follows

(* Whatever bytes the peer sends for a frame, the stream only grows. *)
LEMMA Arrive ==
  ASSUME ConstantsOK, IInv,
         NEW f \in Frames, NEW w \in Seq(Byte), Len(w) = Size(f), FrameAt(w, 0, f),
         wire' = wire \o w, sent' = Append(sent, f),
         UNCHANGED <<data, head, _b_head_parse, msg, posted, pc>>
  PROVE  IInv'
<1> DEFINE n == Len(sent)
<1>1. PICK T, b : Follows(T, b)
  BY DEF IInv
<1>2. TypeOK /\ Stream(T, b) /\ Placed(T) /\ Aligned(T, b)
  BY <1>1 DEF IInv, Sane, WellFormed, Follows
<1>3. /\ Len(T) \in Nat /\ n \in Nat /\ b[0] = 0 /\ b[n] = Len(T)
      /\ \A i \in 0..n : b[i] \in Nat /\ b[i] <= Len(T)
      /\ \A i \in 1..n :
           /\ sent[i] \in Frames /\ b[i - 1] \in Nat /\ FrameAt(T, b[i - 1], sent[i])
           /\ b[i - 1] + Size(sent[i]) = b[i]
  BY <1>2, InStream
<1>4. /\ sent' \in Seq(Frames) /\ Len(sent') = n + 1
      /\ \A i \in 1..n : sent'[i] = sent[i]
      /\ sent'[n + 1] = f
  BY AppendProperties DEF TypeOK, IInv, Sane, WellFormed
<1>5. /\ wire' \in Seq(Byte) /\ Len(wire') = Len(wire) + Len(w)
      /\ Len(wire) \in Nat /\ Len(w) \in Nat /\ Len(data) \in Nat /\ Len(posted) \in Nat
      /\ \A i \in 1..Len(wire) : wire'[i] = wire[i]
      /\ \A i \in 1..Len(w) : wire'[Len(wire) + i] = w[i]
  <2>1. wire \in Seq(Byte) /\ data \in Seq(Byte)
    BY <1>2 DEF TypeOK
  <2>2. Len(data) \in Nat /\ Len(posted) \in Nat
    BY <1>2, LenProperties DEF TypeOK
  <2> QED
    BY <2>1, <2>2, Joined, ZenonT(60)
<1>6. PICK T2 : T2 = T \o w
  OBVIOUS
<1>7. /\ T2 \in Seq(Byte) /\ Len(T2) = Len(T) + Len(w)
      /\ \A i \in 1..Len(T) : T2[i] = T[i]
      /\ \A i \in 1..Len(w) : T2[Len(T) + i] = w[i]
  BY <1>2, <1>6, Joined DEF Stream
<1>8. PICK b2 : b2 = [i \in 0..(n + 1) |-> IF i <= n THEN b[i] ELSE Len(T2)]
  OBVIOUS
<1> HIDE DEF n
<1>9. /\ b2 \in [0..(n + 1) -> Nat] /\ b2[0] = 0 /\ b2[n + 1] = Len(T2)
      /\ \A i \in 0..n : b2[i] = b[i]
  <2>1. PICK l \in Nat : l = Len(T2)
    BY <1>3, <1>5, <1>7
  <2>2. b2 = [i \in 0..(n + 1) |-> IF i <= n THEN b[i] ELSE l]
    BY <1>8, <2>1
  <2>3. b2 \in [0..(n + 1) -> Nat]
    BY <1>3, <2>1, <2>2
  <2>4. \A i \in 0..n : b2[i] = b[i]
    BY <1>3, <2>2
  <2>5. b2[n + 1] = l
    BY <1>3, <2>2
  <2> QED
    BY <1>3, <2>1, <2>3, <2>4, <2>5
<1>10. Sane'
  <2>1. TypeOK'
    BY <1>2, <1>4, <1>5 DEF TypeOK
  <2>2. WithinBuffers'
    BY DEF IInv, Sane, WellFormed, WithinBuffers
  <2>3. Delivered'
    BY <1>3, <1>4, <1>5 DEF IInv, Sane, Delivered, n
  <2>4. ReadingOn'
    BY DEF IInv, Sane, ReadingOn
  <2>5. Explained'
    <3> SUFFICES ASSUME pc = "crashed", ~_b_head_parse
                 PROVE  Len(posted) < Len(sent') /\ sent'[Len(posted) + 1].len < 0
      BY DEF Explained
    <3>1. Len(posted) < n /\ sent[Len(posted) + 1].len < 0
      BY DEF IInv, Sane, Explained, n
    <3>2. Len(posted) + 1 \in 1..n /\ Len(posted) < Len(sent')
      BY <1>3, <1>4, <1>5, <3>1
    <3> QED
      BY <1>4, <3>1, <3>2
  <2> QED
    BY <2>1, <2>2, <2>3, <2>4, <2>5 DEF Sane, WellFormed
<1>11. ASSUME NEW i \in 1..n
       PROVE  /\ b2[i] = b2[i - 1] + Size(sent'[i]) /\ FrameAt(T2, b2[i - 1], sent'[i])
              /\ BodyAt(T, b[i - 1], sent[i]) => BodyAt(T2, b[i - 1], sent[i])
  <2>1. b2[i] = b[i] /\ b2[i - 1] = b[i - 1] /\ sent'[i] = sent[i] /\ sent[i] \in Frames
        /\ b[i - 1] \in Nat /\ b[i] <= Len(T) /\ b[i] \in Nat
        /\ b[i - 1] + Size(sent[i]) = b[i] /\ FrameAt(T, b[i - 1], sent[i])
    <3>1. i \in 0..n /\ i - 1 \in 0..n
      BY <1>3
    <3>2. b2[i] = b[i] /\ b2[i - 1] = b[i - 1]
      BY <1>9, <3>1
    <3>3. b[i] \in Nat /\ b[i] <= Len(T)
      BY <1>3, <3>1
    <3>4. /\ sent[i] \in Frames /\ b[i - 1] \in Nat /\ FrameAt(T, b[i - 1], sent[i])
          /\ b[i - 1] + Size(sent[i]) = b[i]
      BY <1>3
    <3>5. sent'[i] = sent[i]
      BY <1>4
    <3> QED
      BY <3>2, <3>3, <3>4, <3>5, Zenon
  <2>2. Size(sent[i]) \in Nat
    BY <2>1, Frame
  <2>3. ASSUME NEW j \in 1..Size(sent[i])
        PROVE  T2[b[i - 1] + j] = T[b[i - 1] + j]
    <3>1. PICK k \in Nat : k = b[i - 1]
      BY <2>1
    <3>2. PICK z \in Nat : z = Size(sent[i])
      BY <2>2
    <3>3. k + z <= Len(T) /\ Len(T) \in Nat /\ j \in 1..z
      BY <1>3, <2>1, <3>1, <3>2
    <3>4. k + j \in 1..Len(T)
      BY <3>3
    <3> QED
      BY <1>7, <3>1, <3>4
  <2>4. /\ FrameAt(T2, b[i - 1], sent[i])
        /\ BodyAt(T, b[i - 1], sent[i]) => BodyAt(T2, b[i - 1], sent[i])
    <3>1. PICK g \in Frames : g = sent[i]
      BY <2>1
    <3>2. PICK k \in Nat : k = b[i - 1]
      BY <2>1
    <3>3. \A j \in 1..Size(g) : T2[k + j] = T[k + j]
      BY <2>3, <3>1, <3>2
    <3>4. /\ FrameAt(T, k, g) => FrameAt(T2, k, g)
          /\ BodyAt(T, k, g) => BodyAt(T2, k, g)
      BY <3>3, Moved
    <3> QED
      BY <2>1, <3>1, <3>2, <3>4
  <2> QED
    BY <2>1, <2>4
<1>12. Stream(T2, b2)'
  <2>1. b2[n + 1] = b2[n] + Size(sent'[n + 1]) /\ FrameAt(T2, b2[n], sent'[n + 1])
    <3>1. b2[n] = Len(T) /\ b2[n + 1] = Len(T) + Size(f) /\ sent'[n + 1] = f
      BY <1>3, <1>4, <1>7, <1>9
    <3>2. \A i \in 1..Size(f) : T2[Len(T) + i] = w[0 + i]
      BY <1>5, <1>7
    <3>3. FrameAt(T2, Len(T), f)
      BY <1>3, <3>2, Moved
    <3> QED
      BY <3>1, <3>3
  <2>2. ASSUME NEW i \in 1..(n + 1)
        PROVE  b2[i] = b2[i - 1] + Size(sent'[i]) /\ FrameAt(T2, b2[i - 1], sent'[i])
    <3>1. CASE i = n + 1
      <4>1. i - 1 = n
        BY <1>3, <3>1
      <4> QED
        BY <2>1, <3>1, <4>1
    <3>2. CASE i # n + 1
      <4>1. i \in 1..n
        BY <1>3, <3>2
      <4> QED
        BY <1>11, <4>1
    <3> QED
      BY <3>1, <3>2
  <2>3. ASSUME NEW i \in 0..(n + 1), NEW j \in 0..(n + 1), i <= j
        PROVE  b2[i] <= b2[j]
    <3>1. CASE j = n + 1
      <4>1. b2[j] = Len(T) + Len(w)
        BY <1>7, <1>9, <3>1
      <4>2. b2[i] <= Len(T) + Len(w)
        <5>1. CASE i = n + 1
          BY <1>3, <1>5, <4>1, <5>1, <3>1
        <5>2. CASE i # n + 1
          <6>1. i \in 0..n
            BY <1>3, <5>2
          <6>2. b2[i] = b[i] /\ b[i] \in Nat /\ b[i] <= Len(T)
            BY <1>3, <1>9, <6>1
          <6> QED
            BY <1>3, <1>5, <6>2
        <5> QED
          BY <5>1, <5>2
      <4> QED
        BY <4>1, <4>2
    <3>2. CASE j # n + 1
      <4>1. i \in 0..n /\ j \in 0..n
        BY <1>3, <2>3, <3>2
      <4> QED
        BY <1>2, <1>9, <2>3, <4>1 DEF Stream, n
    <3> QED
      BY <3>1, <3>2
  <2> QED
    BY <1>4, <1>7, <1>9, <2>2, <2>3 DEF Stream
<1>13. Parsed(T2)' = Parsed(T) /\ Parsed(T) \in Int
  BY <1>3, <1>5, <1>7, SMTT(60) DEF Parsed
<1>14. Placed(T2)'
  <2>1. /\ Parsed(T) >= 0 /\ Parsed(T) + Len(data) + Len(wire) = Len(T)
        /\ \A i \in 1..Len(data) : data[i] = T[Parsed(T) + i]
        /\ \A i \in 1..Len(wire) : wire[i] = T[Parsed(T) + Len(data) + i]
    BY <1>2, <1>3, <1>5 DEF Placed, Parsed
  <2>2. PICK k \in Nat : k = Parsed(T)
    BY <1>13, <2>1
  <2>3. ASSUME NEW i \in 1..Len(data) PROVE data[i] = T2[k + i]
    <3>1. k + i \in 1..Len(T)
      BY <1>5, <2>1, <2>2, SMTT(60)
    <3> QED
      BY <1>7, <2>1, <2>2, <3>1
  <2>4. ASSUME NEW i \in 1..Len(wire') PROVE wire'[i] = T2[k + Len(data) + i]
    <3>1. CASE i <= Len(wire)
      <4>1. k + Len(data) + i \in 1..Len(T) /\ i \in 1..Len(wire)
        BY <1>5, <2>1, <2>2, <3>1, SMTT(60)
      <4> QED
        BY <1>5, <1>7, <2>1, <2>2, <4>1
    <3>2. CASE ~(i <= Len(wire))
      <4>1. i - Len(wire) \in 1..Len(w) /\ i = Len(wire) + (i - Len(wire))
        BY <1>5, <3>2
      <4> DEFINE j == i - Len(wire)
      <4>2. k + Len(data) + i = Len(T) + j
        <5>1. k + Len(data) + Len(wire) = Len(T)
          BY <2>1, <2>2
        <5>2. /\ Len(data) \in Nat /\ Len(wire) \in Nat /\ Len(T) \in Nat /\ Len(w) \in Nat
              /\ i \in Nat
          BY <1>3, <1>5
        <5> HIDE DEF j
        <5>3. j \in Int /\ i = Len(wire) + j
          BY <5>2 DEF j
        <5>4. \A x, y, z, u \in Int : x + y + (z + u) = (x + y + z) + u
          OBVIOUS
        <5>5. k + Len(data) + (Len(wire) + j) = (k + Len(data) + Len(wire)) + j
          BY <5>2, <5>3, <5>4
        <5> QED
          BY <5>1, <5>3, <5>5
      <4> QED
        BY <1>5, <1>7, <4>1, <4>2, ZenonT(60)
    <3> QED
      BY <3>1, <3>2
  <2>5. Parsed(T2)' = k
    BY <1>13, <2>2
  <2> QED
    BY <2>3, <2>4, <2>5 DEF Placed
<1>15. Aligned(T2, b2)'
  <2>1. pc' = pc /\ posted' = posted /\ msg' = msg /\ head' = head /\ (Collecting' <=> Collecting)
    BY DEF Collecting
  <2>2. ASSUME pc \in {"reading", "parsing"}, Collecting
        PROVE  /\ Len(posted) < Len(sent')
               /\ InBody(T2, b2[Len(posted)], sent[Len(posted) + 1])'
    <3>1. Len(posted) < n /\ InBody(T, b[Len(posted)], sent[Len(posted) + 1])
      BY <1>2, <2>2 DEF Aligned, n
    <3>2. PICK p \in 1..n : Len(posted) = p - 1 /\ Len(posted) + 1 = p
      BY <1>3, <1>5, <3>1
    <3>3. BodyAt(T2, b[p - 1], sent[p])
      BY <1>11, <3>1, <3>2 DEF InBody
    <3>4. PICK k : k = b[p - 1]
      OBVIOUS
    <3>5. PICK g : g = sent[p]
      OBVIOUS
    <3>6. b2[Len(posted')] = k /\ sent'[Len(posted') + 1] = g
      BY <1>3, <1>4, <1>9, <2>1, <3>2, <3>4, <3>5
    <3>7. InBody(T, k, g) /\ BodyAt(T2, k, g)
      BY <3>1, <3>2, <3>3, <3>4, <3>5
    <3>8. InBody(T2, k, g)'
      BY <1>13, <2>1, <3>7 DEF InBody
    <3>9. Len(posted) < Len(sent')
      BY <1>3, <1>4, <1>5, <3>1
    <3> QED
      BY <3>6, <3>8, <3>9
  <2>3. ASSUME pc \in {"reading", "parsing"}, ~Collecting
        PROVE  InHead(T2, b2[Len(posted)])'
    <3>1. InHead(T, b[Len(posted)])
      BY <1>2, <2>3 DEF Aligned
    <3>2. Len(posted) \in 0..n
      BY <1>3, <1>5 DEF IInv, Sane, Delivered, n
    <3>3. b2[Len(posted)] = b[Len(posted)] /\ b[Len(posted)] \in Nat
      BY <1>3, <1>9, <3>2
    <3>4. Len(head) \in Nat
      BY <1>2, LenProperties DEF TypeOK
    <3>5. b[Len(posted)] + Len(head) <= Len(T)
      BY <1>3, <1>5, <3>1, <3>3, <3>4 DEF InHead, Parsed
    <3>6. ASSUME NEW i \in 1..Len(head) PROVE head[i] = T2[b[Len(posted)] + i]
      <4>1. b[Len(posted)] + i \in 1..Len(T)
        BY <1>3, <3>3, <3>4, <3>5, SMTT(60)
      <4> QED
        BY <1>7, <3>1, <4>1 DEF InHead
    <3> QED
      BY <1>13, <2>1, <3>1, <3>3, <3>6 DEF InHead
  <2> QED
    BY <2>1, <2>2, <2>3 DEF Aligned
<1> QED
  BY <1>10, <1>12, <1>14, <1>15 DEF IInv, Follows

-----------------------------------------------------------------------------
(* The kernel and the loop.                                                *)

(* A node is not the null pointer. *)
LEMMA NodeThere ==
  ASSUME ConstantsOK, NEW node \in BodyNode
  PROVE  node # NoMsg
<1>1. node.id \in SHRT_MIN..MAX_LENGTH /\ MAX_LENGTH <= SHRT_MAX /\ MAX_LENGTH \in Nat
  BY DEF BodyNode, ConstantsOK
<1>2. NoMsg.id = SHRT_MAX + 1 /\ SHRT_MIN \in Int /\ SHRT_MAX \in Int
  BY DEF NoMsg, SHRT_MIN, SHRT_MAX
<1> QED
  BY <1>1, <1>2

(* What is copied into a node changes its bytes alone. *)
LEMMA Filled ==
  ASSUME NEW node \in BodyNode, NEW q \in Seq(Byte)
  PROVE  /\ [node EXCEPT !.body = q] \in BodyNode
         /\ [node EXCEPT !.body = q].id = node.id
         /\ [node EXCEPT !.body = q].len = node.len
         /\ [node EXCEPT !.body = q].body = q
  BY DEF BodyNode

(* The lengths the other lemmas calculate with. *)
LEMMA Lengths ==
  ASSUME TypeOK
  PROVE  /\ Len(wire) \in Nat /\ Len(data) \in Nat /\ Len(head) \in Nat
         /\ Len(posted) \in Nat /\ Len(sent) \in Nat
         /\ wire \in Seq(Byte) /\ data \in Seq(Byte) /\ head \in Seq(Byte)
  BY LenProperties DEF TypeOK

(* A read moves bytes from the wire to data, and parses none. *)
LEMMA ReadKeeps ==
  ASSUME ConstantsOK, IInv, NEW n, ReadSome(n)
  PROVE  IInv'
<1>1. PICK T, b : Follows(T, b)
  BY DEF IInv
<1>2. TypeOK /\ WithinBuffers /\ Delivered /\ Stream(T, b) /\ Placed(T) /\ Aligned(T, b)
  BY <1>1 DEF IInv, Sane, WellFormed, Follows
<1>3. /\ Len(wire) \in Nat /\ Len(data) = 0 /\ data = <<>> /\ wire \in Seq(Byte)
      /\ pc = "reading" /\ pc' = "parsing" /\ Len(T) \in Nat
  BY <1>2, Lengths, InStream DEF IInv, Sane, ReadingOn, ReadSome
<1>4. n \in Nat /\ n <= Len(wire) /\ n <= MAX_LENGTH
  BY <1>3 DEF ReadSome, Min2, ConstantsOK
<1>5. /\ data' \in Seq(Byte) /\ Len(data') = n /\ \A i \in 1..n : data'[i] = wire[i]
      /\ wire' \in Seq(Byte) /\ Len(wire') = Len(wire) - n
      /\ \A i \in 1..(Len(wire) - n) : wire'[i] = wire[n + i]
  <2>1. n \in 0..Len(wire)
    BY <1>3, <1>4
  <2> QED
    BY <1>3, <2>1, TakeDrop, ZenonT(60) DEF ReadSome
<1>6. /\ sent' = sent /\ head' = head /\ _b_head_parse' = _b_head_parse /\ msg' = msg
      /\ posted' = posted /\ (Collecting' <=> Collecting)
  BY DEF ReadSome, Collecting
<1>7. Sane'
  <2>1. TypeOK'
    BY <1>2, <1>3, <1>5, <1>6 DEF TypeOK
  <2>2. WithinBuffers'
    BY <1>2, <1>4, <1>5, <1>6 DEF WithinBuffers
  <2> QED
    BY <1>2, <1>3, <1>6, <2>1, <2>2 DEF Sane, WellFormed, Delivered, ReadingOn, Explained
<1>8. Parsed(T)' = Parsed(T) /\ Parsed(T) = Len(T) - Len(wire)
  BY <1>3, <1>4, <1>5 DEF Parsed
<1>9. Placed(T)'
  <2>1. /\ Parsed(T) \in Int /\ Parsed(T) >= 0
        /\ \A i \in 1..Len(wire) : wire[i] = T[Parsed(T) + i]
    BY <1>2, <1>3, <1>8 DEF Placed
  <2>2. PICK k \in Nat : k = Parsed(T)
    BY <2>1
  <2>3. ASSUME NEW i \in 1..n PROVE data'[i] = T[k + i]
    <3>1. i \in 1..Len(wire)
      BY <1>3, <1>4
    <3> QED
      BY <1>5, <2>1, <2>2, <3>1
  <2>4. ASSUME NEW i \in 1..(Len(wire) - n) PROVE wire'[i] = T[k + n + i]
    <3>1. n + i \in 1..Len(wire) /\ k + (n + i) = k + n + i
      BY <1>3, <1>4, <2>2
    <3>2. wire[n + i] = T[k + (n + i)]
      BY <2>1, <2>2, <3>1
    <3> QED
      BY <1>5, <3>1, <3>2
  <2> QED
    BY <1>5, <1>8, <2>1, <2>2, <2>3, <2>4 DEF Placed
<1>10. Stream(T, b)'
  BY <1>2, <1>6 DEF Stream
<1>11. Aligned(T, b)'
  <2>1. ASSUME Collecting
        PROVE  Len(posted) < Len(sent) /\ InBody(T, b[Len(posted)], sent[Len(posted) + 1])'
    BY <1>2, <1>3, <1>6, <1>8, <2>1 DEF Aligned, InBody
  <2>2. ASSUME ~Collecting PROVE InHead(T, b[Len(posted)])'
    BY <1>2, <1>3, <1>6, <1>8, <2>2 DEF Aligned, InHead
  <2> QED
    BY <1>6, <2>1, <2>2 DEF Aligned
<1> QED
  BY <1>7, <1>9, <1>10, <1>11 DEF IInv, Follows

(* A step that parses m bytes leaves the others in their place. *)
Parses(m) ==
  /\ data' \in Seq(Byte) /\ Len(data') = Len(data) - m
  /\ \A i \in 1..(Len(data) - m) : data'[i] = data[m + i]
  /\ UNCHANGED <<wire, sent>>

(* What is parsed is no longer in data, and what is in data is in its place. *)
LEMMA Advance ==
  ASSUME ConstantsOK, TypeOK, NEW T, NEW b, Stream(T, b), Placed(T),
         NEW m \in 0..Len(data), Parses(m)
  PROVE  /\ Stream(T, b)' /\ Placed(T)'
         /\ Parsed(T) \in Nat /\ Parsed(T)' = Parsed(T) + m
         /\ Parsed(T) + Len(data) <= Len(T) /\ Len(T) \in Nat
         /\ \A i \in 1..Len(data) : data[i] = T[Parsed(T) + i]
<1>1. Len(wire) \in Nat /\ Len(data) \in Nat /\ Len(T) \in Nat /\ m \in Nat /\ m <= Len(data)
  BY Lengths, InStream
<1>2. /\ Parsed(T) \in Nat /\ Parsed(T) + Len(data) + Len(wire) = Len(T)
      /\ \A i \in 1..Len(data) : data[i] = T[Parsed(T) + i]
      /\ \A i \in 1..Len(wire) : wire[i] = T[Parsed(T) + Len(data) + i]
  BY <1>1 DEF Placed, Parsed
<1>3. PICK k \in Nat : k = Parsed(T)
  BY <1>2
<1>4. Parsed(T)' = k + m
  BY <1>1, <1>3 DEF Parsed, Parses
<1>5. Placed(T)'
  <2>1. ASSUME NEW i \in 1..(Len(data) - m) PROVE data'[i] = T[k + m + i]
    <3>1. m + i \in 1..Len(data) /\ k + (m + i) = k + m + i
      BY <1>1, <1>3
    <3>2. data[m + i] = T[k + (m + i)]
      BY <1>2, <1>3, <3>1
    <3> QED
      BY <3>1, <3>2 DEF Parses
  <2>2. ASSUME NEW i \in 1..Len(wire) PROVE wire[i] = T[k + m + (Len(data) - m) + i]
    <3>1. k + m + (Len(data) - m) + i = k + Len(data) + i
      BY <1>1, <1>3
    <3> QED
      BY <1>2, <1>3, <3>1
  <2>3. k + m \in Nat
    BY <1>1, <1>3
  <2>4. wire' = wire /\ Len(data') = Len(data) - m
    BY DEF Parses
  <2> QED
    BY <1>4, <2>1, <2>2, <2>3, <2>4 DEF Placed
<1>6. Stream(T, b)'
  BY DEF Stream, Parses
<1>7. Parsed(T) + Len(data) <= Len(T)
  BY <1>1, <1>2
<1> QED
  BY <1>1, <1>2, <1>3, <1>4, <1>5, <1>6, <1>7

(* The code gives up the first m bytes of data by Drop. *)
LEMMA Dropped ==
  ASSUME TypeOK, NEW m \in 0..Len(data), UNCHANGED <<wire, sent>>,
         data' = Drop(data, m)
  PROVE  Parses(m)
  BY Lengths, TakeDrop DEF Parses

(* It gives up all of data by a read into it. *)
LEMMA Emptied ==
  ASSUME TypeOK, UNCHANGED <<wire, sent>>, data' = <<>>
  PROVE  Len(data) \in 0..Len(data) /\ Parses(Len(data))
<1>1. Len(data) \in Nat /\ Len(data') = 0 /\ data' \in Seq(Byte)
  BY Lengths
<1> QED
  BY <1>1 DEF Parses

(* A step that ends the reading keeps what was posted and what is unread. *)
LEMMA EndKeeps ==
  ASSUME ConstantsOK, IInv, pc' \in {"stopped", "crashed"}, Explained',
         NEW m \in 0..Len(data), Parses(m),
         UNCHANGED <<head, _b_head_parse, msg, posted>>
  PROVE  IInv'
<1>1. PICK T, b : Follows(T, b)
  BY DEF IInv
<1>2. TypeOK /\ WithinBuffers /\ Delivered /\ Stream(T, b) /\ Placed(T)
  BY <1>1 DEF IInv, Sane, WellFormed, Follows
<1>3. Len(data) \in Nat /\ Len(data') \in Nat /\ Len(data') <= Len(data)
  BY <1>2, Lengths DEF Parses
<1>4. TypeOK'
  BY <1>2 DEF TypeOK, Parses
<1>5. WithinBuffers'
  BY <1>2, <1>3 DEF WithinBuffers, ConstantsOK
<1>6. Sane'
  BY <1>2, <1>4, <1>5 DEF Sane, WellFormed, Delivered, ReadingOn, Parses
<1> QED
  BY <1>2, <1>6, Advance DEF IInv, Follows, Aligned

-----------------------------------------------------------------------------
(* The head.                                                               *)

(* A head that is not complete yet takes all of data. *)
LEMMA HeadShortKeeps ==
  ASSUME ConstantsOK, IInv, HeadShort
  PROVE  IInv'
<1>1. PICK T, b : Follows(T, b)
  BY DEF IInv
<1>2. TypeOK /\ WithinBuffers /\ Delivered /\ Stream(T, b) /\ Placed(T) /\ Aligned(T, b)
  BY <1>1 DEF IInv, Sane, WellFormed, Follows
<1>3. /\ Len(wire) \in Nat /\ Len(data) \in Nat /\ Len(head) \in Nat /\ Len(posted) \in Nat
      /\ Len(sent) \in Nat /\ data \in Seq(Byte) /\ head \in Seq(Byte)
  BY <1>2, Lengths
<1>4. /\ pc = "parsing" /\ pc' = "reading" /\ data' = <<>> /\ head' = head \o data
      /\ ~_b_head_parse /\ Len(head) + Len(data) < HEAD_TOTAL_LEN
      /\ wire' = wire /\ sent' = sent /\ _b_head_parse' = _b_head_parse /\ msg' = msg
      /\ posted' = posted
  BY DEF HeadShort, Parsing, HeadIncomplete, ReadOn, peerVars
<1>5. /\ Stream(T, b)' /\ Placed(T)'
      /\ Parsed(T) \in Nat /\ Parsed(T)' = Parsed(T) + Len(data)
      /\ \A i \in 1..Len(data) : data[i] = T[Parsed(T) + i]
  BY <1>2, <1>4, Emptied, Advance
<1>6. /\ head' \in Seq(Byte) /\ Len(head') = Len(head) + Len(data)
      /\ \A i \in 1..Len(head) : head'[i] = head[i]
      /\ \A i \in 1..Len(data) : head'[Len(head) + i] = data[i]
  BY <1>3, <1>4, Joined
<1>7. Len(data') = 0 /\ data' \in Seq(Byte)
  BY <1>4
<1>8. Sane'
  <2>1. TypeOK'
    BY <1>2, <1>4, <1>6, <1>7 DEF TypeOK
  <2>2. WithinBuffers'
    BY <1>2, <1>4, <1>6, <1>7 DEF WithinBuffers, ConstantsOK
  <2> QED
    BY <1>2, <1>4, <2>1, <2>2 DEF Sane, WellFormed, Delivered, ReadingOn, Explained
<1>9. InHead(T, b[Len(posted)]) /\ b[Len(posted)] \in Nat
  <2>1. Len(posted) \in 0..Len(sent)
    BY <1>2, <1>3 DEF Delivered
  <2> QED
    BY <1>2, <1>4, <2>1, InStream DEF Aligned, Collecting
<1>10. PICK k \in Nat : k = b[Len(posted)]
  BY <1>9
<1>11. Parsed(T) = k + Len(head) /\ \A i \in 1..Len(head) : head[i] = T[k + i]
  BY <1>9, <1>10 DEF InHead
<1>12. ASSUME NEW i \in 1..(Len(head) + Len(data)) PROVE head'[i] = T[k + i]
  <2>1. CASE i <= Len(head)
    BY <1>3, <1>6, <1>11, <2>1
  <2>2. CASE ~(i <= Len(head))
    <3>1. i - Len(head) \in 1..Len(data) /\ Len(head) + (i - Len(head)) = i
          /\ Parsed(T) + (i - Len(head)) = k + i
      BY <1>3, <1>10, <1>11, <2>2
    <3>2. head'[Len(head) + (i - Len(head))] = data[i - Len(head)]
      BY <1>6, <3>1
    <3> QED
      BY <1>5, <3>1, <3>2
  <2> QED
    BY <2>1, <2>2
<1>13. Parsed(T)' = k + Len(head')
  BY <1>3, <1>5, <1>6, <1>10, <1>11
<1>14. InHead(T, k)'
  BY <1>6, <1>12, <1>13 DEF InHead
<1>15. Aligned(T, b)'
  <2>1. posted' = posted
    BY <1>4
  <2> QED
    BY <1>4, <1>10, <1>14, <2>1 DEF Aligned, Collecting
<1> QED
  BY <1>5, <1>8, <1>15 DEF IInv, Follows

(* What HandleRead sees when the head is complete. *)
LEMMA HeadSeen ==
  ASSUME ConstantsOK, TypeOK, WithinBuffers, Delivered, HeadComplete,
         NEW T, NEW b, Follows(T, b)
  PROVE  /\ Len(posted) + 1 \in 1..Len(sent) /\ b[Len(posted)] \in Nat
         /\ head_remain \in 1..Len(data)
         /\ AfterHead \in Seq(Byte) /\ Len(AfterHead) = Len(data) - head_remain
         /\ \A i \in 1..(Len(data) - head_remain) : AfterHead[i] = data[head_remain + i]
         /\ Parsed(T) + head_remain = b[Len(posted)] + HEAD_TOTAL_LEN
         /\ msg_id \in Int /\ msg_len \in Int
         /\ msg_id = sent[Len(posted) + 1].id
         /\ msg_len = sent[Len(posted) + 1].len
         /\ BodyAt(T, b[Len(posted)], sent[Len(posted) + 1])
<1>1. Stream(T, b) /\ Placed(T) /\ Aligned(T, b)
  BY DEF Follows
<1>2. /\ Len(wire) \in Nat /\ Len(data) \in Nat /\ Len(head) \in Nat /\ Len(posted) \in Nat
      /\ Len(sent) \in Nat /\ data \in Seq(Byte) /\ head \in Seq(Byte) /\ Len(T) \in Nat
  BY <1>1, Lengths, InStream
<1>3. /\ pc = "parsing" /\ ~_b_head_parse /\ Len(data) # 0
      /\ ~(Len(head) + Len(data) < HEAD_TOTAL_LEN)
  BY <1>2, EmptySeq DEF HeadComplete, Parsing, HeadIncomplete
<1>4. HEAD_TOTAL_LEN \in Nat /\ HEAD_TOTAL_LEN = HEAD_ID_LEN + 2
      /\ (HEAD_ID_LEN = 0 \/ HEAD_ID_LEN = 2)
  BY DEF ConstantsOK, HEAD_TOTAL_LEN, HEAD_DATA_LEN
<1>5. head_remain \in 1..Len(data) /\ head_remain = HEAD_TOTAL_LEN - Len(head)
  BY <1>2, <1>3, <1>4 DEF head_remain, WithinBuffers
<1>6. PICK r \in Nat : r = head_remain /\ r \in 1..Len(data) /\ r = HEAD_TOTAL_LEN - Len(head)
  BY <1>2, <1>5
<1>7. /\ Take(data, r) \in Seq(Byte) /\ Len(Take(data, r)) = r
      /\ \A i \in 1..r : Take(data, r)[i] = data[i]
      /\ AfterHead \in Seq(Byte) /\ Len(AfterHead) = Len(data) - r
      /\ \A i \in 1..(Len(data) - r) : AfterHead[i] = data[r + i]
  <2>1. r \in 0..Len(data)
    BY <1>6
  <2>2. AfterHead = Drop(data, r)
    BY <1>6 DEF AfterHead
  <2> QED
    BY <1>2, <2>1, <2>2, TakeDrop
<1>8. /\ Placed(T) /\ Parsed(T) \in Nat /\ Parsed(T) + Len(data) <= Len(T)
      /\ \A i \in 1..Len(data) : data[i] = T[Parsed(T) + i]
  BY <1>1, <1>2 DEF Placed, Parsed
<1>9. InHead(T, b[Len(posted)]) /\ b[Len(posted)] \in Nat
  <2>1. Len(posted) \in 0..Len(sent)
    BY <1>2 DEF Delivered
  <2> QED
    BY <1>1, <1>3, <2>1, InStream DEF Aligned, Collecting
<1>10. PICK k \in Nat : k = b[Len(posted)]
  BY <1>9
<1>11. Parsed(T) = k + Len(head) /\ \A i \in 1..Len(head) : head[i] = T[k + i]
  BY <1>9, <1>10 DEF InHead
<1>12. Len(posted) + 1 \in 1..Len(sent)
  <2>1. k < Len(T)
    BY <1>2, <1>3, <1>8, <1>11
  <2>2. Len(posted) # Len(sent)
    BY <1>1, <1>10, <2>1, InStream
  <2> QED
    BY <1>2, <2>2 DEF Delivered
<1>13. Parsed(T) + r = k + HEAD_TOTAL_LEN
  BY <1>2, <1>4, <1>6, <1>11
<1>14. ASSUME NEW i \in 1..HEAD_TOTAL_LEN
       PROVE  WholeHead[i] = T[k + i] /\ WholeHead[i] \in Byte
  <2>1. /\ WholeHead \in Seq(Byte) /\ Len(WholeHead) = Len(head) + r
        /\ \A j \in 1..Len(head) : WholeHead[j] = head[j]
        /\ \A j \in 1..r : WholeHead[Len(head) + j] = Take(data, r)[j]
    <3>1. PICK q \in Seq(Byte) : q = Take(data, r) /\ Len(q) = r
      BY <1>7
    <3>2. WholeHead = head \o q
      BY <1>6, <3>1 DEF WholeHead
    <3>3. /\ head \o q \in Seq(Byte) /\ Len(head \o q) = Len(head) + Len(q)
          /\ \A j \in 1..Len(head) : (head \o q)[j] = head[j]
          /\ \A j \in 1..Len(q) : (head \o q)[Len(head) + j] = q[j]
      BY <1>2, Joined
    <3> QED
      BY <3>1, <3>2, <3>3
  <2>2. WholeHead[i] \in Byte
    <3>1. i \in 1..Len(WholeHead)
      BY <1>2, <1>4, <1>6, <2>1
    <3> QED
      BY <2>1, <3>1, ElementOfSeq
  <2>3. CASE i <= Len(head)
    BY <1>2, <1>11, <2>1, <2>2, <2>3
  <2>4. CASE ~(i <= Len(head))
    <3>1. i - Len(head) \in 1..r /\ Len(head) + (i - Len(head)) = i
          /\ Parsed(T) + (i - Len(head)) = k + i
      <4>1. /\ i \in Nat /\ Len(head) \in Nat /\ k \in Nat /\ r \in Nat
            /\ i <= HEAD_TOTAL_LEN /\ HEAD_TOTAL_LEN \in Nat
        BY <1>2, <1>4, <1>6, <1>10
      <4>2. i - Len(head) \in 1..r
        BY <1>6, <2>4, <4>1
      <4>3. Parsed(T) + (i - Len(head)) = k + i
        BY <1>11, <4>1
      <4> QED
        BY <4>1, <4>2, <4>3
    <3>2. WholeHead[i] = data[i - Len(head)]
      BY <1>7, <2>1, <3>1
    <3>3. i - Len(head) \in 1..Len(data)
      BY <1>2, <1>6, <3>1
    <3> QED
      BY <1>8, <2>2, <3>1, <3>2, <3>3
  <2> QED
    BY <2>3, <2>4
<1>15. /\ msg_id = HeadId(T, k) /\ msg_len = HeadLen(T, k)
       /\ msg_id \in Int /\ msg_len \in Int
  <2>1. CASE HEAD_ID_LEN = 0
    <3>1. /\ WholeHead[1] = T[k + 1] /\ WholeHead[2] = T[k + 2]
          /\ WholeHead[1] \in Byte /\ WholeHead[2] \in Byte
      BY <1>4, <1>14, <2>1
    <3>2. msg_id = 0 /\ HeadId(T, k) = 0
      BY <2>1 DEF msg_id, HeadId
    <3>3. msg_len = Decode16(WholeHead[1], WholeHead[2])
          /\ HeadLen(T, k) = Decode16(T[k + 1], T[k + 2])
      BY <2>1 DEF msg_len, HeadLen
    <3> QED
      BY <3>1, <3>2, <3>3, DecodedType
  <2>2. CASE HEAD_ID_LEN = 2
    <3>1. /\ WholeHead[1] = T[k + 1] /\ WholeHead[2] = T[k + 2]
          /\ WholeHead[3] = T[k + 3] /\ WholeHead[4] = T[k + 4]
          /\ WholeHead[1] \in Byte /\ WholeHead[2] \in Byte
          /\ WholeHead[3] \in Byte /\ WholeHead[4] \in Byte
      BY <1>4, <1>14, <2>2
    <3>2. msg_id = Decode16(WholeHead[1], WholeHead[2])
          /\ HeadId(T, k) = Decode16(T[k + 1], T[k + 2])
      BY <2>2 DEF msg_id, HeadId
    <3>3. msg_len = Decode16(WholeHead[3], WholeHead[4])
          /\ HeadLen(T, k) = Decode16(T[k + 3], T[k + 4])
      BY <2>2 DEF msg_len, HeadLen
    <3> QED
      BY <3>1, <3>2, <3>3, DecodedType
  <2> QED
    BY <1>4, <2>1, <2>2
<1>16. /\ msg_id = sent[Len(posted) + 1].id
       /\ msg_len = sent[Len(posted) + 1].len
       /\ BodyAt(T, k, sent[Len(posted) + 1])
  <2>1. FrameAt(T, k, sent[Len(posted) + 1])
    <3>1. PICK p \in 1..Len(sent) : p = Len(posted) + 1 /\ p - 1 = Len(posted)
      BY <1>2, <1>12
    <3> QED
      BY <1>1, <1>10, <3>1, InStream
  <2> QED
    BY <1>15, <2>1 DEF FrameAt
<1> QED
  BY <1>6, <1>7, <1>9, <1>10, <1>12, <1>13, <1>15, <1>16

(* A head over the limit ends the reading. *)
LEMMA HeadInvalidKeeps ==
  ASSUME ConstantsOK, IInv, HeadInvalid
  PROVE  IInv'
<1>1. PICK T, b : Follows(T, b)
  BY DEF IInv
<1>2. TypeOK /\ WithinBuffers /\ Delivered /\ HeadComplete
  BY DEF IInv, Sane, WellFormed, HeadInvalid
<1>3. /\ head_remain \in 1..Len(data)
      /\ AfterHead \in Seq(Byte) /\ Len(AfterHead) = Len(data) - head_remain
      /\ \A i \in 1..(Len(data) - head_remain) : AfterHead[i] = data[head_remain + i]
  BY <1>1, <1>2, HeadSeen
<1>4. head_remain \in 0..Len(data)
  BY <1>3
<1>5. /\ data' = AfterHead /\ pc' = "stopped" /\ wire' = wire /\ sent' = sent
      /\ UNCHANGED <<head, _b_head_parse, msg, posted>>
  BY DEF HeadInvalid, peerVars
<1>6. Parses(head_remain)
  BY <1>3, <1>5 DEF Parses
<1>7. Explained'
  BY <1>5 DEF Explained
<1> QED
  BY <1>4, <1>5, <1>6, <1>7, EndKeeps

-----------------------------------------------------------------------------
(* The body.                                                               *)

(* A head that is let through is that of the frame that is next, and when  *)
(* its length is not negative, what comes is its body.                     *)
LEMMA NextBody ==
  ASSUME ConstantsOK, ValidHead, NEW g \in Frames, msg_id = g.id, msg_len = g.len, msg_len >= 0
  PROVE  /\ msg_id \in SHRT_MIN..MAX_LENGTH /\ msg_len \in 0..MAX_LENGTH
         /\ msg_len = Len(g.body)
<1>1. /\ g.id \in Int /\ g.len \in Int /\ SHRT_MIN <= g.id
      /\ MAX_LENGTH \in Nat /\ SHRT_MIN \in Int
  BY Frame DEF ConstantsOK, SHRT_MIN
<1>2. msg_id \in SHRT_MIN..MAX_LENGTH /\ msg_len \in 0..MAX_LENGTH
  BY <1>1 DEF ValidHead
<1> QED
  BY <1>2, Frame

(* A negative length ends HandleRead, and the frame with it is the next.   *)
LEMMA NewBodyNegativeKeeps ==
  ASSUME ConstantsOK, IInv, NewBodyNegative
  PROVE  IInv'
<1>1. PICK T, b : Follows(T, b)
  BY DEF IInv
<1>2. TypeOK /\ WithinBuffers /\ Delivered /\ HeadComplete /\ msg_len < 0
  BY DEF IInv, Sane, WellFormed, NewBodyNegative
<1>3. Len(posted) + 1 \in 1..Len(sent) /\ msg_len = sent[Len(posted) + 1].len
  BY <1>1, <1>2, HeadSeen
<1>4. /\ pc' = "crashed" /\ wire' = wire /\ sent' = sent /\ data' = data
      /\ UNCHANGED <<head, _b_head_parse, msg, posted>>
  BY DEF NewBodyNegative, peerVars
<1>5. Len(data) \in Nat /\ data \in Seq(Byte) /\ Len(posted) \in Nat /\ Len(sent) \in Nat
  BY <1>2, Lengths
<1>6. 0 \in 0..Len(data) /\ Parses(0)
  BY <1>4, <1>5 DEF Parses
<1>7. Explained'
  BY <1>2, <1>3, <1>4, <1>5 DEF Explained
<1> QED
  BY <1>4, <1>6, <1>7, EndKeeps

(* The chunk ends inside a body that begins in it. *)
LEMMA NewBodyShortKeeps ==
  ASSUME ConstantsOK, IInv, NewBodyShort
  PROVE  IInv'
<1>1. PICK T, b : Follows(T, b)
  BY DEF IInv
<1>2. /\ TypeOK /\ WithinBuffers /\ Delivered /\ HeadComplete /\ ValidHead
      /\ Stream(T, b) /\ Placed(T)
  BY <1>1 DEF IInv, Sane, WellFormed, NewBodyShort, Follows
<1>3. Len(data) \in Nat /\ Len(posted) \in Nat
  BY <1>2, Lengths
<1>4. PICK k, r, p :
        /\ k = b[Len(posted)] /\ r = head_remain /\ p = Len(posted) + 1
        /\ p \in 1..Len(sent) /\ k \in Nat /\ r \in 1..Len(data)
        /\ AfterHead \in Seq(Byte) /\ Len(AfterHead) = Len(data) - r
        /\ \A i \in 1..(Len(data) - r) : AfterHead[i] = data[r + i]
        /\ Parsed(T) + r = k + HEAD_TOTAL_LEN
        /\ msg_id \in Int /\ msg_len \in Int
        /\ msg_id = sent[p].id /\ msg_len = sent[p].len /\ BodyAt(T, k, sent[p])
  BY <1>1, <1>2, HeadSeen
<1>5. /\ msg' = [id |-> msg_id, len |-> msg_len, body |-> AfterHead]
      /\ _b_head_parse' = TRUE /\ data' = <<>> /\ pc' = "reading" /\ wire' = wire /\ sent' = sent
      /\ head' = head /\ posted' = posted /\ Len(AfterHead) < msg_len /\ msg_len >= 0
  BY DEF NewBodyShort, ReadOn, peerVars
<1>6. /\ Stream(T, b)' /\ Placed(T)'
      /\ Parsed(T) \in Nat /\ Parsed(T)' = Parsed(T) + Len(data)
      /\ \A i \in 1..Len(data) : data[i] = T[Parsed(T) + i]
  BY <1>2, <1>5, Emptied, Advance
<1>7. PICK g \in Frames : g = sent[p]
  BY <1>2, <1>4, ElementOfSeq DEF TypeOK
<1>8. /\ g.body \in Seq(Byte) /\ Len(g.body) \in Nat /\ HEAD_TOTAL_LEN \in Nat
      /\ msg_id = g.id /\ msg_len = g.len /\ BodyAt(T, k, g)
  BY <1>4, <1>7, Frame
<1>9. msg_id \in SHRT_MIN..MAX_LENGTH /\ msg_len \in 0..MAX_LENGTH /\ msg_len = Len(g.body)
  BY <1>2, <1>5, <1>8, NextBody
<1>10. /\ msg'.id = g.id /\ msg'.len = g.len /\ msg'.body = AfterHead
       /\ msg' \in BodyNode /\ msg' # NoMsg
  <2>1. msg'.id = g.id /\ msg'.len = g.len /\ msg'.body = AfterHead
    BY <1>5, <1>8
  <2>2. msg' \in BodyNode
    BY <1>4, <1>5, <1>9 DEF BodyNode
  <2> QED
    BY <2>1, <2>2, NodeThere
<1>11. Sane'
  <2>1. TypeOK'
    BY <1>2, <1>5, <1>10 DEF TypeOK
  <2>2. Len(data') = 0
    BY <1>5
  <2>3. WithinBuffers'
    <3>1. Len(head') < HEAD_TOTAL_LEN
      BY <1>2, <1>4, <1>5, <1>8 DEF WithinBuffers, ConstantsOK
    <3>2. Len(data') <= MAX_LENGTH
      BY <2>2 DEF ConstantsOK
    <3>3. Len(msg'.body) < msg'.len
      BY <1>5, <1>8, <1>10
    <3>4. Len(msg'.body) <= msg'.len
      <4>1. Len(msg'.body) \in Nat /\ msg'.len \in Nat
        <5>1. Len(msg'.body) \in Nat
          BY <1>4, <1>10, LenProperties
        <5> QED
          BY <1>8, <1>9, <1>10, <5>1
      <4> QED
        BY <3>3, <4>1
    <3> QED
      BY <3>1, <3>2, <3>3, <3>4 DEF WithinBuffers
  <2> QED
    BY <1>2, <1>5, <2>1, <2>3 DEF Sane, WellFormed, Delivered, ReadingOn, Explained
<1>12. ASSUME NEW i \in 1..Len(AfterHead) PROVE AfterHead[i] = g.body[i]
  <2>1. r + i \in 1..Len(data) /\ i \in 1..Len(g.body)
        /\ Parsed(T) + (r + i) = k + HEAD_TOTAL_LEN + i
    <3>1. /\ r \in Nat /\ i \in Nat /\ Parsed(T) \in Nat /\ k \in Nat /\ HEAD_TOTAL_LEN \in Nat
          /\ Len(data) \in Nat /\ Len(AfterHead) = Len(data) - r
      BY <1>3, <1>4, <1>6, <1>8
    <3>2. Parsed(T) + (r + i) = k + HEAD_TOTAL_LEN + i
      BY <1>4, <3>1
    <3>3. r + i \in 1..Len(data)
      BY <3>1
    <3>4. i \in 1..Len(g.body)
      BY <1>5, <1>8, <1>9, <3>1
    <3> QED
      BY <3>2, <3>3, <3>4
  <2>2. AfterHead[i] = data[r + i] /\ data[r + i] = T[Parsed(T) + (r + i)]
    BY <1>4, <1>6, <2>1
  <2>3. T[k + HEAD_TOTAL_LEN + i] = g.body[i]
    BY <1>8, <2>1 DEF BodyAt
  <2> QED
    BY <2>1, <2>2, <2>3
<1>13. Parsed(T)' = k + HEAD_TOTAL_LEN + Len(AfterHead)
  <2>1. r \in Nat /\ Parsed(T) \in Nat
    BY <1>4, <1>6
  <2> QED
    BY <1>3, <1>4, <1>6, <1>8, <2>1
<1>14. InBody(T, k, g)'
  <2>1. msg'.id = g.id /\ msg'.len = g.len /\ g.len = Len(g.body) /\ msg'.body = AfterHead
    BY <1>8, <1>9, <1>10
  <2> QED
    BY <1>8, <1>12, <1>13, <2>1 DEF InBody
<1>15. Aligned(T, b)'
  <2>1. b[Len(posted')] = k /\ sent'[Len(posted') + 1] = g /\ Len(posted') < Len(sent')
    BY <1>2, <1>3, <1>4, <1>5, <1>7, Lengths
  <2>2. Collecting'
    BY <1>5, <1>10 DEF Collecting
  <2> QED
    BY <1>14, <2>1, <2>2 DEF Aligned
<1> QED
  BY <1>6, <1>11, <1>15 DEF IInv, Follows

(* The node that is posted is the next frame of the peer. *)
LEMMA FinishKeeps ==
  ASSUME ConstantsOK, IInv, pc = "parsing", NEW T, NEW b, Follows(T, b),
         NEW p \in 1..Len(sent), p = Len(posted) + 1,
         NEW node \in BodyNode,
         node.id = sent[p].id, node.len = sent[p].len, node.body = sent[p].body,
         node.len = Len(node.body),
         NEW m \in 0..Len(data), Parsed(T) + m = b[p], FinishBody(node, Drop(data, m))
  PROVE  IInv'
<1>1. TypeOK /\ WithinBuffers /\ Delivered /\ Stream(T, b) /\ Placed(T)
  BY DEF IInv, Sane, WellFormed, Follows
<1>2. /\ Len(data) \in Nat /\ Len(posted) \in Nat /\ Len(sent) \in Nat
  BY <1>1, Lengths
<1>3. /\ msg' = node /\ posted' = Append(posted, node)
      /\ _b_head_parse' = FALSE /\ head' = <<>> /\ wire' = wire /\ sent' = sent
      /\ data' = Drop(data, m) /\ (pc' = "reading" => data' = <<>>) /\ pc' \in {"reading", "parsing"}
  BY DEF FinishBody, StartOver, Keep, ReadOn, peerVars
<1>4. Parses(m) /\ Stream(T, b)' /\ Placed(T)' /\ Parsed(T)' = b[p]
  BY <1>1, <1>3, Dropped, Advance
<1>5. PICK g \in Frames : g = sent[p]
  BY <1>1, ElementOfSeq DEF TypeOK
<1>6. node = g
  <2>1. node = [id |-> node.id, len |-> node.len, body |-> node.body]
    BY DEF BodyNode
  <2>2. g = [id |-> g.id, len |-> g.len, body |-> g.body]
    BY Frame
  <2>3. node.id = g.id /\ node.len = g.len /\ node.body = g.body
    BY <1>5
  <2> QED
    BY <2>1, <2>2, <2>3
<1>7. /\ posted' \in Seq(BodyNode) /\ Len(posted') = p
      /\ \A i \in 1..Len(posted) : posted'[i] = posted[i]
      /\ posted'[p] = g
  <2>1. g \in BodyNode
    BY <1>6
  <2>2. posted' = Append(posted, g) /\ posted \in Seq(BodyNode)
    BY <1>1, <1>3, <1>6 DEF TypeOK
  <2> QED
    BY <2>1, <2>2, AppendProperties
<1>8. Sane'
  <2>1. TypeOK'
    <3>1. wire' \in Seq(Byte) /\ sent' \in Seq(Frames) /\ data' \in Seq(Byte)
      BY <1>1, <1>3, <1>4 DEF TypeOK, Parses
    <3>2. head' \in Seq(Byte) /\ _b_head_parse' \in BOOLEAN
      <4>1. head' \in Seq(Byte)
        BY <1>3
      <4>2. _b_head_parse' = FALSE
        BY <1>3
      <4>3. _b_head_parse' \in BOOLEAN
        BY <4>2, Zenon
      <4> QED
        BY <4>1, <4>3
    <3>3. msg' \in BodyNode
      BY <1>3
    <3>4. pc' \in {"reading", "parsing", "stopped", "crashed"}
      BY <1>3
    <3> QED
      BY <1>7, <3>1, <3>2, <3>3, <3>4 DEF TypeOK
  <2>2. Len(data') <= Len(data) /\ Len(data') \in Nat
    BY <1>2, <1>4 DEF Parses
  <2>3. Len(head') = 0 /\ HEAD_TOTAL_LEN > 0
    BY <1>3 DEF HEAD_TOTAL_LEN, HEAD_DATA_LEN, ConstantsOK
  <2>4. Len(msg'.body) <= msg'.len
    <3>1. Len(node.body) \in Nat
      BY LenProperties DEF BodyNode
    <3> QED
      BY <1>3, <3>1
  <2>5. WithinBuffers'
    BY <1>1, <1>2, <1>3, <2>2, <2>3, <2>4 DEF WithinBuffers, ConstantsOK
  <2>6. Delivered'
    <3>1. ASSUME NEW i \in 1..Len(posted') PROVE posted'[i] = sent[i]
      <4>1. CASE i = p
        BY <1>5, <1>7, <4>1
      <4>2. CASE i # p
        <5>1. i \in 1..Len(posted)
          BY <1>2, <1>7, <4>2
        <5> QED
          BY <1>1, <1>7, <5>1 DEF Delivered
      <4> QED
        BY <4>1, <4>2
    <3> QED
      BY <1>2, <1>3, <1>7, <3>1, SMTT(60) DEF Delivered
  <2> QED
    BY <1>3, <2>1, <2>5, <2>6 DEF Sane, WellFormed, ReadingOn, Explained
<1>9. Aligned(T, b)'
  <2>1. ~Collecting'
    BY <1>3 DEF Collecting
  <2>2. Len(head') = 0 /\ Len(posted') = p
    BY <1>3, <1>7
  <2>3. Parsed(T)' \in Int
    BY <1>1, <1>4, Lengths, InStream
  <2>4. InHead(T, b[p])'
    BY <1>4, <2>2, <2>3 DEF InHead
  <2> QED
    BY <2>1, <2>2, <2>4 DEF Aligned
<1> QED
  BY <1>4, <1>8, <1>9 DEF IInv, Follows

(* A body that is whole in the chunk of its head. *)
LEMMA NewBodyWholeKeeps ==
  ASSUME ConstantsOK, IInv, NewBodyWhole
  PROVE  IInv'
<1>1. PICK T, b : Follows(T, b)
  BY DEF IInv
<1>2. /\ TypeOK /\ WithinBuffers /\ Delivered /\ HeadComplete /\ ValidHead
      /\ Stream(T, b) /\ Placed(T)
  BY <1>1 DEF IInv, Sane, WellFormed, NewBodyWhole, Follows
<1>3. Len(data) \in Nat /\ Len(posted) \in Nat /\ data \in Seq(Byte)
  BY <1>2, Lengths
<1>4. PICK k, r, p :
        /\ k = b[Len(posted)] /\ r = head_remain /\ p = Len(posted) + 1
        /\ p \in 1..Len(sent) /\ k \in Nat /\ r \in 1..Len(data)
        /\ AfterHead \in Seq(Byte) /\ Len(AfterHead) = Len(data) - r
        /\ \A i \in 1..(Len(data) - r) : AfterHead[i] = data[r + i]
        /\ Parsed(T) + r = k + HEAD_TOTAL_LEN
        /\ msg_id \in Int /\ msg_len \in Int
        /\ msg_id = sent[p].id /\ msg_len = sent[p].len /\ BodyAt(T, k, sent[p])
  BY <1>1, <1>2, HeadSeen
<1>5. /\ Len(AfterHead) >= msg_len /\ msg_len >= 0 /\ pc = "parsing"
      /\ FinishBody([id |-> msg_id, len |-> msg_len, body |-> Take(AfterHead, msg_len)],
                    Drop(AfterHead, msg_len))
  BY DEF NewBodyWhole, HeadComplete, Parsing
<1>6. Parsed(T) \in Nat /\ \A i \in 1..Len(data) : data[i] = T[Parsed(T) + i]
  <2>1. Len(T) \in Nat /\ Len(wire) \in Nat
    BY <1>2, Lengths, InStream
  <2> QED
    BY <1>2, <1>3, <2>1 DEF Placed, Parsed
<1>7. PICK g \in Frames : g = sent[p]
  BY <1>2, <1>4, ElementOfSeq DEF TypeOK
<1>8. /\ g.body \in Seq(Byte) /\ Len(g.body) \in Nat /\ HEAD_TOTAL_LEN \in Nat
      /\ msg_id = g.id /\ msg_len = g.len /\ BodyAt(T, k, g)
      /\ Size(g) = HEAD_TOTAL_LEN + Len(g.body)
  BY <1>4, <1>7, Frame
<1>9. msg_id \in SHRT_MIN..MAX_LENGTH /\ msg_len \in 0..MAX_LENGTH /\ msg_len = Len(g.body)
  BY <1>2, <1>5, <1>8, NextBody
<1>10. PICK n \in Nat : n = msg_len /\ n = Len(g.body) /\ n \in 0..Len(AfterHead)
  <2>1. Len(AfterHead) \in Nat
    BY <1>4, LenProperties
  <2> QED
    BY <1>5, <1>8, <1>9, <2>1
<1>11. /\ Take(AfterHead, n) \in Seq(Byte) /\ Len(Take(AfterHead, n)) = n
       /\ \A i \in 1..n : Take(AfterHead, n)[i] = AfterHead[i]
  BY <1>4, <1>10, TakeDrop
<1>12. r \in Nat /\ n <= Len(data) - r
  BY <1>4, <1>10
<1>13. ASSUME NEW i \in 1..n PROVE AfterHead[i] = g.body[i]
  <2>1. Parsed(T) + (r + i) = k + HEAD_TOTAL_LEN + i
    BY <1>4, <1>6, <1>8, <1>12, SMTT(60)
  <2>2. r + i \in 1..Len(data) /\ i \in 1..(Len(data) - r) /\ i \in 1..Len(g.body)
    BY <1>3, <1>10, <1>12
  <2>3. AfterHead[i] = data[r + i] /\ data[r + i] = T[Parsed(T) + (r + i)]
    BY <1>4, <1>6, <2>2
  <2>4. T[k + HEAD_TOTAL_LEN + i] = g.body[i]
    BY <1>8, <2>2 DEF BodyAt
  <2> QED
    BY <2>1, <2>3, <2>4
<1>14. Take(AfterHead, n) = g.body
  <2>1. PICK q \in Seq(Byte) : q = Take(AfterHead, n)
    BY <1>11
  <2>2. PICK u \in Seq(Byte) : u = g.body
    BY <1>8
  <2>3. Len(q) = Len(u) /\ \A i \in 1..Len(q) : q[i] = u[i]
    BY <1>10, <1>11, <1>13, <2>1, <2>2
  <2> QED
    BY <2>1, <2>2, <2>3, SeqEqual
<1>15. Drop(AfterHead, n) = Drop(data, r + n)
  <2>1. PICK q \in Seq(Byte) : q = AfterHead
    BY <1>4
  <2>2. /\ Drop(q, n) \in Seq(Byte) /\ Len(Drop(q, n)) = Len(q) - n
        /\ \A i \in 1..(Len(q) - n) : Drop(q, n)[i] = q[n + i]
    BY <1>10, <2>1, TakeDrop
  <2>3. r + n \in 0..Len(data)
    BY <1>3, <1>12
  <2>4. /\ Drop(data, r + n) \in Seq(Byte) /\ Len(Drop(data, r + n)) = Len(data) - (r + n)
        /\ \A i \in 1..(Len(data) - (r + n)) : Drop(data, r + n)[i] = data[r + n + i]
    BY <1>3, <2>3, TakeDrop
  <2>5. Len(q) - n = Len(data) - (r + n)
    BY <1>3, <1>4, <1>12, <2>1
  <2>6. ASSUME NEW i \in 1..(Len(q) - n) PROVE Drop(q, n)[i] = Drop(data, r + n)[i]
    <3>1. n + i \in 1..(Len(data) - r) /\ r + (n + i) = r + n + i
          /\ i \in 1..(Len(data) - (r + n))
      BY <1>3, <1>12, <2>5
    <3>2. q[n + i] = data[r + (n + i)]
      BY <1>4, <2>1, <3>1
    <3> QED
      BY <2>2, <2>4, <3>1, <3>2
  <2>7. Drop(q, n) = Drop(data, r + n)
    BY <2>2, <2>4, <2>5, <2>6, SeqEqual
  <2> QED
    BY <2>1, <2>7
<1>16. PICK m \in 0..Len(data) : m = r + n
  BY <1>3, <1>12
<1>17. Parsed(T) + m = b[p]
  <2>1. b[p] = k + Size(g)
    <3>1. p - 1 = Len(posted)
      BY <1>3, <1>4
    <3>2. b[p - 1] + Size(sent[p]) = b[p]
      BY <1>2, <1>4, InStream, SMTT(60)
    <3> QED
      BY <1>4, <1>7, <3>1, <3>2
  <2>2. Parsed(T) + (r + n) = (Parsed(T) + r) + n
    BY <1>6, <1>10, <1>12
  <2>3. (k + HEAD_TOTAL_LEN) + n = k + (HEAD_TOTAL_LEN + n)
    <3>1. k \in Nat /\ HEAD_TOTAL_LEN \in Nat /\ n \in Nat
      BY <1>4, <1>8, <1>10
    <3> QED
      BY <3>1
  <2> QED
    BY <1>4, <1>8, <1>10, <1>16, <2>1, <2>2, <2>3
<1>18. PICK node : node = [id |-> msg_id, len |-> msg_len, body |-> g.body]
  OBVIOUS
<1>19. /\ node \in BodyNode
       /\ node.id = sent[p].id /\ node.len = sent[p].len /\ node.body = sent[p].body
       /\ node.len = Len(node.body)
  BY <1>7, <1>8, <1>9, <1>18 DEF BodyNode
<1>20. FinishBody(node, Drop(data, m))
  BY <1>5, <1>10, <1>14, <1>15, <1>16, <1>18
<1>21. p \in 1..Len(sent) /\ p = Len(posted) + 1 /\ pc = "parsing" /\ m \in 0..Len(data)
  BY <1>4, <1>5, <1>16
<1> QED
  BY <1>1, <1>17, <1>19, <1>20, <1>21, FinishKeeps

(* What BodyShort and BodyWhole find. *)
LEMMA BodySeen ==
  ASSUME ConstantsOK, TypeOK, WithinBuffers, Delivered, Parsing, _b_head_parse, msg # NoMsg,
         NEW T, NEW b, Follows(T, b)
  PROVE  /\ Len(posted) + 1 \in 1..Len(sent) /\ b[Len(posted)] \in Nat
         /\ InBody(T, b[Len(posted)], sent[Len(posted) + 1])
         /\ Parsed(T) \in Nat
         /\ \A i \in 1..Len(data) : data[i] = T[Parsed(T) + i]
         /\ msg \in BodyNode
         /\ msg.body \in Seq(Byte) /\ Len(msg.body) \in Nat /\ msg.len \in Nat
         /\ msg_remain \in Nat /\ msg.len = Len(msg.body) + msg_remain
<1>1. Stream(T, b) /\ Placed(T) /\ Aligned(T, b)
  BY DEF Follows
<1>2. /\ Len(data) \in Nat /\ Len(wire) \in Nat /\ Len(posted) \in Nat /\ Len(sent) \in Nat
      /\ Len(T) \in Nat
  BY <1>1, Lengths, InStream
<1>3. /\ Len(posted) < Len(sent) /\ InBody(T, b[Len(posted)], sent[Len(posted) + 1])
  BY <1>1 DEF Aligned, Collecting, Parsing
<1>4. Len(posted) + 1 \in 1..Len(sent) /\ Len(posted) \in 0..Len(sent)
  BY <1>2, <1>3
<1>5. b[Len(posted)] \in Nat
  BY <1>1, <1>4, InStream
<1>6. Parsed(T) \in Nat /\ \A i \in 1..Len(data) : data[i] = T[Parsed(T) + i]
  BY <1>1, <1>2 DEF Placed, Parsed
<1>7. msg \in BodyNode
  BY DEF TypeOK
<1>8. msg.body \in Seq(Byte) /\ msg.len \in 0..MAX_LENGTH /\ MAX_LENGTH \in Nat
  BY <1>7 DEF ConstantsOK, BodyNode
<1>9. PICK q \in Seq(Byte), n \in Nat : q = msg.body /\ n = msg.len
  BY <1>8
<1>10. Len(q) \in Nat /\ Len(q) <= n
  BY <1>9, LenProperties DEF WithinBuffers
<1>11. msg_remain = n - Len(q)
  BY <1>9 DEF msg_remain
<1>12. Len(msg.body) \in Nat /\ msg.len \in Nat
  BY <1>9, <1>10
<1>13. msg_remain \in Nat /\ msg.len = Len(msg.body) + msg_remain
  BY <1>9, <1>10, <1>11
<1> QED
  BY <1>3, <1>4, <1>5, <1>6, <1>7, <1>8, <1>12, <1>13, Zenon

(* The chunk ends inside the body. *)
LEMMA BodyShortKeeps ==
  ASSUME ConstantsOK, IInv, BodyShort
  PROVE  IInv'
<1>1. PICK T, b : Follows(T, b)
  BY DEF IInv
<1>2. /\ TypeOK /\ WithinBuffers /\ Delivered /\ Parsing /\ _b_head_parse /\ msg # NoMsg
      /\ Stream(T, b) /\ Placed(T)
  BY <1>1 DEF IInv, Sane, WellFormed, BodyShort, Follows
<1>3. Len(data) \in Nat /\ Len(posted) \in Nat /\ data \in Seq(Byte)
  BY <1>2, Lengths
<1>4. PICK k, p :
        /\ k = b[Len(posted)] /\ p = Len(posted) + 1
        /\ p \in 1..Len(sent) /\ k \in Nat /\ InBody(T, k, sent[p])
        /\ Parsed(T) \in Nat
        /\ \A i \in 1..Len(data) : data[i] = T[Parsed(T) + i]
        /\ msg \in BodyNode
        /\ msg.body \in Seq(Byte) /\ Len(msg.body) \in Nat /\ msg.len \in Nat
        /\ msg_remain \in Nat /\ msg.len = Len(msg.body) + msg_remain
  BY <1>1, <1>2, BodySeen
<1>5. PICK q \in Seq(Byte), l \in Nat : q = msg.body /\ l = Len(q)
  BY <1>4
<1>6. /\ msg' = [msg EXCEPT !.body = q \o data] /\ Len(data) < msg_remain
      /\ data' = <<>> /\ pc' = "reading" /\ wire' = wire /\ sent' = sent
      /\ head' = head /\ posted' = posted /\ _b_head_parse' = _b_head_parse
  BY <1>5 DEF BodyShort, ReadOn, peerVars
<1>7. /\ Stream(T, b)' /\ Placed(T)' /\ Parsed(T)' = Parsed(T) + Len(data)
  BY <1>2, <1>6, Emptied, Advance
<1>8. /\ q \o data \in Seq(Byte) /\ Len(q \o data) = l + Len(data)
      /\ \A i \in 1..l : (q \o data)[i] = q[i]
      /\ \A i \in 1..Len(data) : (q \o data)[l + i] = data[i]
  BY <1>3, <1>5, Joined
<1>9. /\ msg'.id = msg.id /\ msg'.len = msg.len /\ msg'.body = q \o data
      /\ msg' \in BodyNode
  BY <1>4, <1>6, <1>8, Filled
<1>10. msg' # NoMsg
  BY <1>9, NodeThere
<1>11. Sane'
  <2>1. TypeOK'
    BY <1>2, <1>6, <1>9 DEF TypeOK
  <2>2. Len(data') = 0
    BY <1>6
  <2>3. Len(msg'.body) < msg'.len /\ Len(msg'.body) <= msg'.len
    <3>1. Len(msg'.body) = l + Len(data) /\ msg'.len = l + msg_remain
      BY <1>4, <1>5, <1>8, <1>9
    <3> QED
      BY <1>3, <1>4, <1>5, <1>6, <3>1, SMTT(60)
  <2>4. WithinBuffers'
    BY <1>2, <1>6, <2>2, <2>3 DEF WithinBuffers, ConstantsOK
  <2> QED
    BY <1>2, <1>6, <2>1, <2>4 DEF Sane, WellFormed, Delivered, ReadingOn, Explained
<1>12. PICK g \in Frames : g = sent[p]
  BY <1>2, <1>4, ElementOfSeq DEF TypeOK
<1>13. /\ HEAD_TOTAL_LEN \in Nat /\ Len(g.body) \in Nat /\ Len(g.body) = l + msg_remain
       /\ Parsed(T) = k + HEAD_TOTAL_LEN + l /\ BodyAt(T, k, g)
       /\ \A i \in 1..l : q[i] = g.body[i]
  BY <1>4, <1>5, <1>12, Frame DEF InBody
<1>14. ASSUME NEW i \in 1..(l + Len(data)) PROVE (q \o data)[i] = g.body[i]
  <2>1. CASE i <= l
    <3>1. i \in 1..l
      BY <1>5, <2>1
    <3> QED
      BY <1>8, <1>13, <3>1
  <2>2. CASE ~(i <= l)
    <3>1. /\ i \in Nat /\ l \in Nat /\ Len(data) \in Nat /\ k \in Nat /\ HEAD_TOTAL_LEN \in Nat
          /\ msg_remain \in Nat /\ Len(data) < msg_remain
      BY <1>3, <1>4, <1>5, <1>6, <1>13
    <3>2. i - l \in 1..Len(data) /\ l + (i - l) = i
          /\ k + HEAD_TOTAL_LEN + l + (i - l) = k + HEAD_TOTAL_LEN + i
      BY <2>2, <3>1
    <3>3. i \in 1..Len(g.body)
      BY <1>13, <3>1
    <3>4. (q \o data)[l + (i - l)] = data[i - l]
      BY <1>8, <3>2
    <3>5. data[i - l] = T[Parsed(T) + (i - l)]
      BY <1>4, <3>2
    <3>6. T[k + HEAD_TOTAL_LEN + i] = g.body[i]
      BY <1>13, <3>3 DEF BodyAt
    <3> QED
      BY <1>13, <3>2, <3>4, <3>5, <3>6
  <2> QED
    BY <2>1, <2>2
<1>15. Parsed(T)' = k + HEAD_TOTAL_LEN + (l + Len(data))
  <2>1. k \in Nat /\ HEAD_TOTAL_LEN \in Nat /\ l \in Nat /\ Len(data) \in Nat
    BY <1>3, <1>4, <1>5, <1>13
  <2>2. Parsed(T) + Len(data) = k + HEAD_TOTAL_LEN + (l + Len(data))
    BY <1>13, <2>1
  <2> QED
    BY <1>7, <2>2
<1>16. InBody(T, k, g)'
  <2>1. msg'.id = g.id /\ msg'.len = g.len /\ g.len = Len(g.body)
    BY <1>4, <1>9, <1>12 DEF InBody
  <2>2. Len(msg'.body) = l + Len(data) /\ msg'.body = q \o data
    BY <1>8, <1>9
  <2> QED
    BY <1>13, <1>14, <1>15, <2>1, <2>2 DEF InBody
<1>17. Aligned(T, b)'
  <2>1. b[Len(posted')] = k /\ sent'[Len(posted') + 1] = g /\ Len(posted') < Len(sent')
    BY <1>2, <1>3, <1>4, <1>6, <1>12, Lengths
  <2>2. Collecting'
    BY <1>2, <1>6, <1>10 DEF Collecting
  <2> QED
    BY <1>16, <2>1, <2>2 DEF Aligned
<1> QED
  BY <1>7, <1>11, <1>17 DEF IInv, Follows

(* The rest of the body is in the chunk. *)
LEMMA BodyWholeKeeps ==
  ASSUME ConstantsOK, IInv, BodyWhole
  PROVE  IInv'
<1>1. PICK T, b : Follows(T, b)
  BY DEF IInv
<1>2. /\ TypeOK /\ WithinBuffers /\ Delivered /\ Parsing /\ _b_head_parse /\ msg # NoMsg
      /\ Stream(T, b) /\ Placed(T) /\ pc = "parsing"
  BY <1>1 DEF IInv, Sane, WellFormed, BodyWhole, Follows, Parsing
<1>3. Len(data) \in Nat /\ Len(posted) \in Nat /\ data \in Seq(Byte)
  BY <1>2, Lengths
<1>4. PICK k, p, m :
        /\ k = b[Len(posted)] /\ p = Len(posted) + 1 /\ m = msg_remain
        /\ p \in 1..Len(sent) /\ k \in Nat /\ InBody(T, k, sent[p])
        /\ Parsed(T) \in Nat
        /\ \A i \in 1..Len(data) : data[i] = T[Parsed(T) + i]
        /\ msg \in BodyNode
        /\ msg.body \in Seq(Byte) /\ Len(msg.body) \in Nat /\ msg.len \in Nat
        /\ m \in Nat /\ msg.len = Len(msg.body) + m
  BY <1>1, <1>2, BodySeen, SMTT(60)
<1>5. PICK q \in Seq(Byte), l \in Nat : q = msg.body /\ l = Len(q)
  BY <1>4
<1>6. /\ Len(data) >= m
      /\ FinishBody([msg EXCEPT !.body = q \o Take(data, m)], Drop(data, m))
  BY <1>4, <1>5 DEF BodyWhole
<1>7. m \in 0..Len(data)
  BY <1>3, <1>4, <1>6
<1>8. PICK t \in Seq(Byte) : t = Take(data, m) /\ Len(t) = m /\ \A i \in 1..m : t[i] = data[i]
  BY <1>3, <1>7, TakeDrop
<1>9. /\ q \o t \in Seq(Byte) /\ Len(q \o t) = l + Len(t)
      /\ \A i \in 1..l : (q \o t)[i] = q[i]
      /\ \A i \in 1..Len(t) : (q \o t)[l + i] = t[i]
  <2>1. /\ q \o t \in Seq(Byte) /\ Len(q \o t) = Len(q) + Len(t)
        /\ \A i \in 1..Len(q) : (q \o t)[i] = q[i]
        /\ \A i \in 1..Len(t) : (q \o t)[Len(q) + i] = t[i]
    BY Joined
  <2> QED
    BY <1>5, <2>1
<1>10. PICK g \in Frames : g = sent[p]
  BY <1>2, <1>4, ElementOfSeq DEF TypeOK
<1>11. /\ HEAD_TOTAL_LEN \in Nat /\ g.body \in Seq(Byte) /\ Len(g.body) = l + m
       /\ Size(g) = HEAD_TOTAL_LEN + Len(g.body)
       /\ Parsed(T) = k + HEAD_TOTAL_LEN + l /\ BodyAt(T, k, g)
       /\ \A i \in 1..l : q[i] = g.body[i]
  BY <1>4, <1>5, <1>10, Frame DEF InBody
<1>12. ASSUME NEW i \in 1..(l + m) PROVE (q \o t)[i] = g.body[i]
  <2>1. CASE i <= l
    <3>1. i \in 1..l
      BY <1>5, <2>1
    <3> QED
      BY <1>9, <1>11, <3>1
  <2>2. CASE ~(i <= l)
    <3>1. i \in Nat /\ l \in Nat /\ k \in Nat /\ HEAD_TOTAL_LEN \in Nat /\ m \in Nat
      BY <1>4, <1>5, <1>11
    <3>2. i - l \in 1..m /\ l + (i - l) = i
          /\ k + HEAD_TOTAL_LEN + l + (i - l) = k + HEAD_TOTAL_LEN + i
      BY <2>2, <3>1
    <3>3. i \in 1..Len(g.body) /\ i - l \in 1..Len(data)
      BY <1>3, <1>7, <1>11, <3>1, <3>2
    <3>4. (q \o t)[l + (i - l)] = data[i - l]
      BY <1>8, <1>9, <3>2
    <3>5. data[i - l] = T[Parsed(T) + (i - l)]
      BY <1>4, <3>3
    <3>6. T[k + HEAD_TOTAL_LEN + i] = g.body[i]
      BY <1>11, <3>3 DEF BodyAt
    <3> QED
      BY <1>11, <3>2, <3>4, <3>5, <3>6
  <2> QED
    BY <2>1, <2>2
<1>13. q \o t = g.body
  <2>1. PICK u \in Seq(Byte), v \in Seq(Byte) : u = q \o t /\ v = g.body
    BY <1>9, <1>11
  <2>2. Len(u) = Len(v) /\ \A i \in 1..Len(u) : u[i] = v[i]
    BY <1>8, <1>9, <1>11, <1>12, <2>1
  <2> QED
    BY <2>1, <2>2, SeqEqual
<1>14. PICK node : node = [msg EXCEPT !.body = g.body]
  OBVIOUS
<1>15. /\ node \in BodyNode
       /\ node.id = msg.id /\ node.len = msg.len /\ node.body = g.body
  BY <1>4, <1>11, <1>14, Filled
<1>16. /\ node.id = sent[p].id /\ node.len = sent[p].len /\ node.body = sent[p].body
       /\ node.len = Len(node.body)
  BY <1>4, <1>10, <1>15 DEF InBody
<1>17. FinishBody(node, Drop(data, m))
  BY <1>6, <1>8, <1>13, <1>14
<1>18. Parsed(T) + m = b[p]
  <2>1. b[p] = k + Size(g)
    <3>1. p - 1 = Len(posted)
      BY <1>3, <1>4
    <3>2. b[p - 1] + Size(sent[p]) = b[p]
      BY <1>2, <1>4, InStream, ZenonT(60)
    <3> QED
      BY <1>4, <1>10, <3>1, <3>2
  <2>2. k \in Nat /\ HEAD_TOTAL_LEN \in Nat /\ l \in Nat /\ m \in Nat
    BY <1>4, <1>5, <1>11
  <2>3. (k + HEAD_TOTAL_LEN + l) + m = k + (HEAD_TOTAL_LEN + (l + m))
    BY <2>2
  <2> QED
    BY <1>11, <2>1, <2>3
<1>19. p \in 1..Len(sent) /\ p = Len(posted) + 1
  BY <1>4
<1>20. pc = "parsing"
  BY <1>2
<1>21. node \in BodyNode
  BY <1>15
<1> QED
  BY <1>1, <1>7, <1>16, <1>17, <1>18, <1>19, <1>20, <1>21, FinishKeeps, ZenonT(60)

-----------------------------------------------------------------------------
(* The theorems, for every module that uses the reader.                    *)

(* A step of the kernel or of HandleRead keeps the invariant: whatever the *)
(* chunks, what is collected and what is posted follow the stream.         *)
THEOREM ReaderKeeps ==
  ASSUME ConstantsOK, IInv, (\E n \in 1..MAX_LENGTH : ReadSome(n)) \/ ReadFails \/ HandleRead
  PROVE  IInv'
<1>1. TypeOK
  BY DEF IInv, Sane, WellFormed
<1>2. ASSUME pc' \in {"stopped", "crashed"}, Explained',
             UNCHANGED <<wire, sent, data, head, _b_head_parse, msg, posted>>
      PROVE  IInv'
  <2>1. Len(data) \in Nat /\ data \in Seq(Byte)
    BY <1>1, Lengths
  <2>2. 0 \in 0..Len(data) /\ Parses(0)
    BY <1>2, <2>1 DEF Parses
  <2> QED
    BY <1>2, <2>2, EndKeeps
<1>3. CASE \E n \in 1..MAX_LENGTH : ReadSome(n)
  BY <1>3, ReadKeeps
<1>4. CASE ReadFails
  BY <1>2, <1>4 DEF ReadFails, peerVars, Explained
<1>5. CASE HandleRead
  <2>1. CASE HeadShort
    BY <2>1, HeadShortKeeps
  <2>2. CASE HeadInvalid
    BY <2>2, HeadInvalidKeeps
  <2>3. CASE NewBodyShort
    BY <2>3, NewBodyShortKeeps
  <2>4. CASE NewBodyWhole
    BY <2>4, NewBodyWholeKeeps
  <2>5. CASE BodyShort
    BY <2>5, BodyShortKeeps
  <2>6. CASE BodyWhole
    BY <2>6, BodyWholeKeeps
  <2>7. CASE NullBody
    BY <1>2, <2>7 DEF NullBody, peerVars, Explained
  <2>8. CASE NewBodyNegative
    BY <2>8, NewBodyNegativeKeeps
  <2> QED
    BY <1>5, <2>1, <2>2, <2>3, <2>4, <2>5, <2>6, <2>7, <2>8 DEF HandleRead
<1> QED
  BY <1>3, <1>4, <1>5

(* Nothing the invariant is about changes in a step that leaves the reader *)
(* and its peer alone.                                                     *)
LEMMA StutterKeeps ==
  ASSUME IInv, UNCHANGED vars
  PROVE  IInv'
<1>1. PICK T, b : Follows(T, b)
  BY DEF IInv
<1>2. /\ wire' = wire /\ sent' = sent /\ data' = data /\ head' = head
      /\ _b_head_parse' = _b_head_parse /\ msg' = msg /\ posted' = posted /\ pc' = pc
  BY DEF vars
<1>3. Sane'
  BY <1>2 DEF IInv, Sane, WellFormed, TypeOK, WithinBuffers, Delivered, ReadingOn, Explained
<1>4. Parsed(T)' = Parsed(T) /\ (Collecting' <=> Collecting)
  BY <1>2 DEF Parsed, Collecting
<1>5. Stream(T, b)' /\ Placed(T)'
  BY <1>1, <1>2, <1>4 DEF Follows, Stream, Placed
<1>6. Aligned(T, b)'
  BY <1>1, <1>2, <1>4 DEF Follows, Aligned, InBody, InHead
<1> QED
  BY <1>3, <1>5, <1>6 DEF IInv, Follows

(* One pass posts at most one frame, and only reads the stream. *)
LEMMA OnePass ==
  ASSUME HandleRead
  PROVE  /\ UNCHANGED <<wire, sent>> /\ pc = "parsing"
         /\ pc' \in {"reading", "parsing", "stopped", "crashed"}
         /\ posted' = posted \/ \E f : posted' = Append(posted, f)
  BY DEF HandleRead, HeadShort, HeadInvalid, NewBodyNegative, NewBodyShort, NewBodyWhole,
         BodyShort, BodyWhole, NullBody, FinishBody, Keep, ReadOn, Parsing, HeadComplete, peerVars

(* A frame of the peer keeps it, whatever signed 16-bit id and length its  *)
(* head holds: over the limit, negative, or the length of what follows.    *)
THEOREM PeerKeeps ==
  ASSUME ConstantsOK, IInv, NEW f \in Frames, PeerSend(f)
  PROVE  IInv'
<1>1. Encode(f) \in Seq(Byte) /\ Len(Encode(f)) = Size(f) /\ FrameAt(Encode(f), 0, f)
  BY Frame, Encoded
<1>2. PICK w \in Seq(Byte) : w = Encode(f) /\ Len(w) = Size(f) /\ FrameAt(w, 0, f)
  BY <1>1
<1> QED
  BY <1>2, Arrive DEF PeerSend

(* In such a state the copies fit (WellFormed), and the frames posted are  *)
(* the frames sent: in order, whole, and all of them once all is read.  If *)
(* HandleRead has ended by an exception or in undefined behaviour, then at *)
(* a head with a negative length, the one right after the frames posted,   *)
(* or where it collects a body without a node.                             *)
THEOREM Correct ==
  ASSUME ConstantsOK, IInv
  PROVE  WellFormed /\ Reassembled
<1>1. PICK T, b : Follows(T, b)
  BY DEF IInv
<1>2. /\ TypeOK /\ WithinBuffers /\ Delivered /\ ReadingOn /\ Explained
      /\ Stream(T, b) /\ Placed(T) /\ Aligned(T, b)
  BY <1>1 DEF IInv, Sane, WellFormed, Follows
<1>3. /\ Len(posted) \in Nat /\ Len(sent) \in Nat /\ Len(head) \in Nat /\ head \in Seq(Byte)
      /\ Len(T) \in Nat
  BY <1>2, Lengths, InStream
<1>4. HEAD_TOTAL_LEN \in Nat
  BY DEF ConstantsOK, HEAD_TOTAL_LEN, HEAD_DATA_LEN
<1>5. ASSUME pc = "reading", wire = <<>> PROVE head = <<>> /\ posted = sent
  <2>1. Parsed(T) = Len(T)
    BY <1>2, <1>3, <1>5 DEF Parsed, ReadingOn
  <2>2. PICK p \in Nat : p = Len(posted) /\ p <= Len(sent)
    BY <1>2, <1>3 DEF Delivered
  <2>3. p \in 0..Len(sent)
    BY <1>3, <2>2
  <2>4. b[p] \in Nat /\ b[p] <= Len(T)
    BY <1>2, <2>3, InStream
  <2>5. ASSUME p < Len(sent) PROVE b[p] + Size(sent[p + 1]) <= Len(T) /\ sent[p + 1] \in Frames
    <3>1. PICK i \in 1..Len(sent) : i = p + 1 /\ i - 1 = p
      BY <1>3, <2>2, <2>5
    <3>2. b[i - 1] + Size(sent[i]) = b[i] /\ sent[i] \in Frames
      BY <1>2, InStream
    <3>3. b[i] <= Len(T)
      <4>1. i \in 0..Len(sent)
        BY <1>3
      <4> QED
        BY <1>2, <4>1, InStream
    <3> QED
      BY <3>1, <3>2, <3>3
  <2>6. ~Collecting
    <3> SUFFICES ASSUME Collecting PROVE FALSE
      OBVIOUS
    <3>1. p < Len(sent) /\ InBody(T, b[p], sent[p + 1])
      BY <1>2, <1>5, <2>2 DEF Aligned
    <3>2. PICK g \in Frames : g = sent[p + 1] /\ b[p] + Size(g) <= Len(T)
      BY <2>5, <3>1
    <3>3. Len(msg.body) < Len(g.body) /\ Parsed(T) = b[p] + HEAD_TOTAL_LEN + Len(msg.body)
      <4>1. /\ msg.len = Len(g.body)
            /\ Parsed(T) = b[p] + HEAD_TOTAL_LEN + Len(msg.body)
        BY <3>1, <3>2 DEF InBody
      <4>2. Len(msg.body) < msg.len
        BY <1>2 DEF WithinBuffers, Collecting
      <4> QED
        BY <4>1, <4>2
    <3>4. msg.body \in Seq(Byte)
      BY <1>2 DEF TypeOK, Collecting, BodyNode
    <3>5. Len(msg.body) \in Nat
      BY <3>4, LenProperties
    <3>6. Size(g) = HEAD_TOTAL_LEN + Len(g.body) /\ Len(g.body) \in Nat
      BY Frame
    <3>7. PICK x \in Nat, y \in Nat : x = Len(msg.body) /\ y = Len(g.body) /\ x < y
      BY <3>3, <3>5, <3>6
    <3>8. b[p] + (HEAD_TOTAL_LEN + y) <= Len(T) /\ Len(T) = b[p] + HEAD_TOTAL_LEN + x
      BY <2>1, <3>2, <3>3, <3>6, <3>7
    <3>9. PICK u \in Nat, v \in Nat, z \in Nat : u = b[p] /\ v = Len(T) /\ z = HEAD_TOTAL_LEN
      BY <1>3, <1>4, <2>4
    <3>10. u + (z + y) <= v /\ v = u + z + x
      BY <3>8, <3>9
    <3>11. x < y
      BY <3>7
    <3> QED
      BY <3>10, <3>11
  <2>7. Parsed(T) = b[p] + Len(head)
    BY <1>2, <1>5, <2>2, <2>6 DEF Aligned, InHead
  <2>8. p = Len(sent)
    <3> SUFFICES ASSUME p < Len(sent) PROVE FALSE
      BY <1>3, <2>2
    <3>1. PICK g \in Frames : g = sent[p + 1] /\ b[p] + Size(g) <= Len(T)
      BY <2>5
    <3>2. Size(g) = HEAD_TOTAL_LEN + Len(g.body) /\ Len(g.body) \in Nat
      BY Frame
    <3>3. Len(head) < HEAD_TOTAL_LEN
      BY <1>2 DEF WithinBuffers
    <3> QED
      BY <1>3, <1>4, <2>1, <2>4, <2>7, <3>1, <3>2, <3>3, SMTT(60)
  <2>9. Len(head) = 0
    <3>1. b[p] = Len(T)
      BY <1>2, <2>8, InStream
    <3> QED
      BY <1>3, <2>1, <2>7, <3>1
  <2>10. head = <<>>
    BY <1>3, <2>9, EmptySeq
  <2>11. posted = sent
    <3>2. \A i \in 1..Len(posted) : posted[i] = sent[i]
      BY <1>2 DEF Delivered
    <3>3. PICK u, v : u = posted /\ v = sent /\ Len(u) = Len(v)
      BY <2>2, <2>8
    <3>4. u \in Seq(BodyNode) /\ v \in Seq(Frames)
      BY <1>2, <3>3 DEF TypeOK
    <3>5. DOMAIN u = 1..Len(u) /\ DOMAIN v = 1..Len(v)
      BY <3>4, LenProperties
    <3>6. u = [i \in 1..Len(u) |-> u[i]] /\ v = [i \in 1..Len(v) |-> v[i]]
      BY <3>4, LenProperties
    <3>7. u = v
      BY <3>2, <3>3, <3>6
    <3> QED
      BY <3>3, <3>7
  <2> QED
    BY <2>10, <2>11
<1>6. DOMAIN posted = 1..Len(posted)
  BY <1>2, LenProperties DEF TypeOK
<1> QED
  BY <1>2, <1>5, <1>6 DEF WellFormed, Reassembled, Delivered, Explained

=============================================================================
