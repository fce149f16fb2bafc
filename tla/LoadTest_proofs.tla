---------------------------- MODULE LoadTest_proofs ----------------------------
(***************************************************************************)
(* What holds of LoadTest for any clients, rounds, lengths of an answer    *)
(* and limit of the send queues: a client gets the answers to its own      *)
(* requests, in their order, and one whose receives return all they asked  *)
(* for never has more than two of them queued (Consistent, OwnAnswers).    *)
(*                                                                         *)
(* Neither is inductive.  The invariant says how far the requests of each  *)
(* connection have come: its first p are posted, h of them handled, d of   *)
(* the answers written (Stage), and the bytes on the connection are those  *)
(* d answers in one.  The shared logs take the requests of a client in     *)
(* their order (Ordered), so the next one handled is its h + 1st, whatever *)
(* lies between them in the queue.  A client in step asks again only when  *)
(* all d answers came (Asking), so d is never more than one behind.        *)
(***************************************************************************)
EXTENDS LoadTest, TLAPS, SequenceTheorems

Byte == Clients \X (1..Rounds) \X (1..AnswerLen)

NoneRefused(c) == \A k \in 1..Rounds : <<c, k>> \notin refused

Unpopped(c) == IF c \in written THEN 1 ELSE 0

\* The requests of c in the log s are its first n.
Logged(s, c, n) == \A k \in 1..Rounds : (\E i \in 1..Len(s) : s[i] = <<c, k>>) <=> k <= n

Ordered ==
  \A i, j \in 1..Len(posted) :
    i < j /\ posted[i][1] = posted[j][1] => posted[i][2] < posted[j][2]

HandledPrefix ==
  Len(handled) <= Len(posted) /\ \A i \in 1..Len(handled) : handled[i] = posted[i]

\* Of the requests of c, p are posted and h handled; the others are on their way.
Routed(c, p, h) ==
  /\ h <= p /\ p + Len(up[c]) = round[c]
  /\ \A i \in 1..Len(up[c]) : up[c][i] = p + i
  /\ Logged(posted, c, p) /\ Logged(handled, c, h)

\* d answers are written, and the other h - d are queued.
Answered(c, h, d) ==
  /\ d <= h
  /\ received[c] \o down[c] = SeqSum(c, d)
  /\ Len(_send_queue[c]) + d = h + Unpopped(c)
  /\ \A i \in 1..Len(_send_queue[c]) : _send_queue[c][i] + Unpopped(c) = d + i

\* A client in step has received whole answers, or one head more.
Asking(c, d) ==
  /\ clientPc[c] = "idle" => round[c] = 0
  /\ clientPc[c] \in {"send", "done"} => Len(received[c]) = round[c] * AnswerLen
  /\ clientPc[c] = "head" => round[c] > 0 /\ Len(received[c]) = (round[c] - 1) * AnswerLen
  /\ clientPc[c] = "body" =>
       /\ round[c] > 0 /\ replylen[c] = BodyLen
       /\ Len(received[c]) = (round[c] - 1) * AnswerLen + HeadLen
  /\ clientPc[c] = "failed" => round[c] <= d + 1 /\ (round[c] = 0 \/ over)

\* A client in step can lose an answer only where not even one may wait; then
\* it waits for ever.
Stuck(c, h) ==
  /\ MAX_SENDQUE_SIZE = 0 /\ clientPc[c] \in {"head", "failed"}
  /\ h = round[c] /\ down[c] = <<>> /\ Len(_send_queue[c]) = Unpopped(c)

Stage(c, p, h, d) ==
  /\ Routed(c, p, h)
  /\ NoneRefused(c) => Answered(c, h, d)
  /\ InStep(c) /\ NoneRefused(c) => Asking(c, d)
  /\ InStep(c) /\ ~NoneRefused(c) => Stuck(c, h)

Domains ==
  /\ TypeOK /\ short \subseteq Clients
  /\ up \in [Clients -> Seq(1..Rounds)] /\ _send_queue \in [Clients -> Seq(1..Rounds)]
  /\ down \in [Clients -> Seq(Byte)] /\ received \in [Clients -> Seq(Byte)]
  /\ posted \in Seq(LogicNodes) /\ handled \in Seq(LogicNodes)

Staged == \A c \in Clients : \E p, h, d \in 0..Rounds : Stage(c, p, h, d)

IInv == Domains /\ HandledPrefix /\ Ordered /\ Staged
-----------------------------------------------------------------------------
(* Division by the length of an answer. *)
LEMMA Place ==
  ASSUME NEW a \in Nat \ {0}, NEW n \in Nat, NEW j \in 0..(a - 1)
  PROVE  (n * a + j) \div a = n /\ (n * a + j) % a = j
<1>1. n * a + j \in Nat
  OBVIOUS
<1>2. PICK x \in Nat : x = n * a + j
  BY <1>1
<1>3. x = a * (x \div a) + (x % a) /\ x \div a \in Nat /\ x % a \in 0..(a - 1)
  BY <1>2
<1> QED
  BY <1>2, <1>3

(* Lengths of the answers. *)
LEMMA Lengths ==
  /\ HeadLen \in Nat \ {0} /\ BodyLen \in Nat \ {0} /\ Rounds \in Nat \ {0}
  /\ MaxLength \in Nat /\ MAX_SENDQUE_SIZE \in Nat
  /\ AnswerLen \in Nat \ {0} /\ AnswerLen = HeadLen + BodyLen
  BY ConstantsOK DEF AnswerLen

(* The multiples of the length of an answer are in the order of the factors. *)
LEMMA Multiples ==
  ASSUME NEW a \in Nat \ {0}, NEW m \in Nat, NEW n \in Nat
  PROVE  /\ m * a \in Nat /\ n * a \in Nat /\ (m + 1) * a = m * a + a
         /\ m * a <= n * a <=> m <= n
         /\ m * a < n * a <=> m < n
         /\ m * a = n * a <=> m = n
  OBVIOUS

(* The k-th answer, byte by byte. *)
LEMMA AnswerIs ==
  ASSUME NEW c \in Clients, NEW k \in 1..Rounds
  PROVE  /\ Answer(c, k) \in Seq(Byte) /\ Len(Answer(c, k)) = AnswerLen
         /\ \A i \in 1..AnswerLen : Answer(c, k)[i] = <<c, k, i>>
<1>1. \A i \in 1..AnswerLen : <<c, k, i>> \in Byte
  BY DEF Byte
<1>2. Answer(c, k) \in [1..AnswerLen -> Byte]
  BY <1>1 DEF Answer
<1>3. Answer(c, k) \in Seq(Byte) /\ Len(Answer(c, k)) = AnswerLen
  BY <1>2, Lengths
<1> QED
  BY <1>3 DEF Answer

(* The first n answers, answer by answer. *)
LEMMA SeqSumIs ==
  ASSUME NEW c \in Clients, NEW n \in 0..Rounds
  PROVE  /\ SeqSum(c, n) \in Seq(Byte) /\ Len(SeqSum(c, n)) = n * AnswerLen
         /\ \A i \in 1..(n * AnswerLen) : SeqSum(c, n)[i] = SeqSum(c, Rounds)[i]
         /\ \A k \in 1..n, j \in 1..AnswerLen :
              /\ (k - 1) * AnswerLen + j \in 1..(n * AnswerLen)
              /\ SeqSum(c, n)[(k - 1) * AnswerLen + j] = <<c, k, j>>
<1> PICK a \in Nat \ {0} : a = AnswerLen
  BY Lengths
<1>0. n \in Nat /\ n * a \in Nat /\ Rounds \in Nat /\ n <= Rounds
  BY Lengths
<1>1. \A i \in 1..(n * a) :
        SeqSum(c, n)[i] = <<c, (i - 1) \div a + 1, ((i - 1) % a) + 1>>
  BY DEF SeqSum
<1>2. \A i \in 1..(Rounds * a) :
        SeqSum(c, Rounds)[i] = <<c, (i - 1) \div a + 1, ((i - 1) % a) + 1>>
  BY DEF SeqSum
<1>3. n * a <= Rounds * a /\ Rounds * a \in Nat
  BY <1>0, Multiples
<1>4. ASSUME NEW k \in 1..n, NEW j \in 1..a
      PROVE  /\ (k - 1) * a + j \in 1..(n * a)
             /\ ((k - 1) * a + j - 1) \div a + 1 = k /\ (((k - 1) * a + j - 1) % a) + 1 = j
  <2>1. PICK m \in Nat : m = k - 1
    BY <1>0
  <2>2. PICK l \in 0..(a - 1) : l = j - 1
    OBVIOUS
  <2>3. (m * a + l) \div a = m /\ (m * a + l) % a = l
    BY Place
  <2>4. m * a \in Nat /\ (m + 1) * a = m * a + a /\ (m + 1) * a <= n * a
    BY <1>0, <2>1, Multiples
  <2>5. m * a + j \in 1..(n * a)
    BY <1>0, <2>4
  <2>6. (k - 1) * a + j = m * a + j /\ (k - 1) * a + j - 1 = m * a + l
    BY <2>1, <2>2, <2>4
  <2> QED
    BY <2>1, <2>2, <2>3, <2>5, <2>6
<1>5. ASSUME NEW i \in 1..(n * a)
      PROVE  <<c, (i - 1) \div a + 1, ((i - 1) % a) + 1>> \in Byte
  <2>1. PICK x \in Nat : x = i - 1
    BY <1>0
  <2>2. x = a * (x \div a) + (x % a) /\ x \div a \in Nat /\ x % a \in 0..(a - 1)
    BY <2>1
  <2>3. PICK q \in Nat : q = x \div a
    BY <2>2
  <2>4. q * a <= x /\ x < n * a
    BY <1>0, <2>1, <2>2, <2>3
  <2>5. q < n
    BY <1>0, <2>4, Multiples
  <2>6. q + 1 \in 1..Rounds /\ (x % a) + 1 \in 1..a
    BY <1>0, <2>2, <2>5
  <2> QED
    BY <2>1, <2>3, <2>6 DEF Byte
<1>6. SeqSum(c, n) \in [1..(n * a) -> Byte]
  BY <1>5 DEF SeqSum
<1>7. SeqSum(c, n) \in Seq(Byte) /\ Len(SeqSum(c, n)) = n * a
  BY <1>0, <1>6
<1>8. \A i \in 1..(n * a) : SeqSum(c, n)[i] = SeqSum(c, Rounds)[i]
  <2> SUFFICES ASSUME NEW i \in 1..(n * a) PROVE SeqSum(c, n)[i] = SeqSum(c, Rounds)[i]
    OBVIOUS
  <2>1. i \in 1..(Rounds * a)
    BY <1>0, <1>3
  <2> QED
    BY <1>1, <1>2, <2>1
<1>9. \A k \in 1..n, j \in 1..a :
        /\ (k - 1) * a + j \in 1..(n * a)
        /\ SeqSum(c, n)[(k - 1) * a + j] = <<c, k, j>>
  <2> TAKE k \in 1..n, j \in 1..a
  <2>1. PICK x : x = (k - 1) * a + j
    OBVIOUS
  <2>2. x \in 1..(n * a) /\ (x - 1) \div a + 1 = k /\ ((x - 1) % a) + 1 = j
    BY <1>4, <2>1
  <2>3. SeqSum(c, n)[x] = <<c, k, j>>
    BY <1>1, <2>2
  <2> QED
    BY <2>1, <2>2, <2>3
<1> QED
  BY <1>7, <1>8, <1>9

(* A sequence, cut in two and put together. *)
LEMMA TakeDrop ==
  ASSUME NEW r \in Seq(Byte), NEW s \in Seq(Byte), NEW n \in 0..Len(s)
  PROVE  /\ Take(s, n) \in Seq(Byte) /\ Drop(s, n) \in Seq(Byte) /\ r \o Take(s, n) \in Seq(Byte)
         /\ Len(Take(s, n)) = n /\ Len(r \o Take(s, n)) = Len(r) + n
         /\ (r \o Take(s, n)) \o Drop(s, n) = r \o s
         /\ \A i \in 1..n : Take(s, n)[i] = s[i]
<1>1. Len(s) \in Nat
  BY LenProperties
<1>2. /\ Take(s, n) \in Seq(Byte) /\ Len(Take(s, n)) = n
      /\ \A i \in 1..n : Take(s, n)[i] = s[i]
  BY <1>1 DEF Take
<1>3. /\ Drop(s, n) \in Seq(Byte) /\ Len(Drop(s, n)) = Len(s) - n
      /\ \A i \in 1..(Len(s) - n) : Drop(s, n)[i] = s[n + i]
  BY <1>1 DEF Drop
<1>4. Take(s, n) \o Drop(s, n) = s
  <2> DEFINE t == Take(s, n) \o Drop(s, n)
  <2>1. /\ t \in Seq(Byte) /\ Len(t) = Len(s)
        /\ \A i \in 1..Len(t) : t[i] = IF i <= n THEN Take(s, n)[i] ELSE Drop(s, n)[i - n]
    BY <1>1, <1>2, <1>3, ConcatProperties
  <2> HIDE DEF t
  <2>2. \A i \in 1..Len(s) : t[i] = s[i]
    <3> TAKE i \in 1..Len(s)
    <3>1. CASE i <= n
      BY <1>1, <1>2, <2>1, <3>1
    <3>2. CASE ~(i <= n)
      <4>1. i - n \in 1..(Len(s) - n) /\ n + (i - n) = i
        BY <1>1, <3>2
      <4> QED
        BY <1>3, <2>1, <3>2, <4>1
    <3> QED
      BY <3>1, <3>2
  <2>3. t = s
    BY <2>1, <2>2, SeqEqual
  <2> QED
    BY <2>3 DEF t
<1>5. (r \o Take(s, n)) \o Drop(s, n) = r \o (Take(s, n) \o Drop(s, n))
  <2>1. PICK x \in Seq(Byte), y \in Seq(Byte) : x = Take(s, n) /\ y = Drop(s, n)
    BY <1>2, <1>3
  <2>2. (r \o x) \o y = r \o (x \o y)
    BY ConcatAssociative, SMTT(60)
  <2> QED
    BY <2>1, <2>2
<1>6. r \o Take(s, n) \in Seq(Byte) /\ Len(r \o Take(s, n)) = Len(r) + n
  BY <1>2, ConcatProperties
<1> QED
  BY <1>2, <1>3, <1>4, <1>5, <1>6

(* One more answer. *)
LEMMA NextSum ==
  ASSUME NEW c \in Clients, NEW n \in 0..Rounds, n < Rounds
  PROVE  SeqSum(c, n) \o Answer(c, n + 1) = SeqSum(c, n + 1)
<1> PICK a \in Nat \ {0} : a = AnswerLen
  BY Lengths
<1> PICK m \in 1..Rounds : m = n + 1
  BY Lengths
<1>0. n \in Nat /\ m \in Nat /\ m \in 0..Rounds /\ Rounds \in Nat
  BY Lengths
<1>1. n * a \in Nat /\ m * a = n * a + a /\ m * a \in Nat
  BY <1>0, Multiples
<1> DEFINE s == SeqSum(c, n)
           t == SeqSum(c, m)
           b == Answer(c, m)
<1>2. s \in Seq(Byte) /\ Len(s) = n * a /\ \A i \in 1..(n * a) : s[i] = SeqSum(c, Rounds)[i]
  BY SeqSumIs
<1>3. /\ t \in Seq(Byte) /\ Len(t) = m * a
      /\ \A i \in 1..(m * a) : t[i] = SeqSum(c, Rounds)[i]
      /\ \A j \in 1..a : t[(m - 1) * a + j] = <<c, m, j>>
  BY <1>0, SeqSumIs
<1>4. b \in Seq(Byte) /\ Len(b) = a /\ \A j \in 1..a : b[j] = <<c, m, j>>
  BY AnswerIs
<1> HIDE DEF s, t, b
<1>5. /\ s \o b \in Seq(Byte) /\ Len(s \o b) = m * a
      /\ \A i \in 1..(m * a) : (s \o b)[i] = IF i <= n * a THEN s[i] ELSE b[i - n * a]
  <2>1. /\ s \o b \in Seq(Byte) /\ Len(s \o b) = Len(s) + Len(b)
        /\ \A i \in 1..(Len(s) + Len(b)) :
             (s \o b)[i] = IF i <= Len(s) THEN s[i] ELSE b[i - Len(s)]
    BY <1>2, <1>4, ConcatProperties
  <2>2. Len(s) = n * a /\ Len(s) + Len(b) = m * a
    BY <1>1, <1>2, <1>4
  <2> QED
    BY <2>1, <2>2
<1>6. \A i \in 1..(m * a) : (s \o b)[i] = t[i]
  <2> TAKE i \in 1..(m * a)
  <2>1. CASE i <= n * a
    <3>1. i \in 1..(n * a)
      BY <1>1, <2>1
    <3> QED
      BY <1>2, <1>3, <1>5, <2>1, <3>1
  <2>2. CASE ~(i <= n * a)
    <3>1. PICK j \in 1..a : i = n * a + j /\ i - n * a = j
      BY <1>1, <2>2
    <3>2. (m - 1) * a + j = i
      BY <1>0, <3>1
    <3>3. t[i] = <<c, m, j>>
      BY <1>3, <3>2
    <3> QED
      BY <1>4, <1>5, <2>2, <3>1, <3>3
  <2> QED
    BY <2>1, <2>2
<1>7. s \o b = t
  BY <1>3, <1>5, <1>6, SeqEqual
<1> QED
  BY <1>7 DEF s, t, b

(* The client's place in its loop, by its pc. *)
LEMMA Behind ==
  ASSUME IInv, NEW c \in Clients, NEW p \in 0..Rounds, NEW h \in 0..Rounds,
         NEW d \in 0..Rounds, Stage(c, p, h, d), InStep(c), NoneRefused(c)
  PROVE  /\ round[c] <= d + 1
         /\ clientPc[c] \in {"send", "done", "body"} => round[c] = d
<1> PICK a \in Nat \ {0} : a = AnswerLen /\ HeadLen \in 1..(a - 1)
  BY Lengths
<1> PICK r \in Nat : r = round[c] /\ r <= Rounds
  BY Lengths DEF IInv, Domains, TypeOK
<1>1. d \in Nat /\ d <= r /\ d * a \in Nat
  BY Lengths, SMTT(60) DEF Stage, Routed, Answered, IInv, Domains
<1>2. /\ received[c] \in Seq(Byte) /\ down[c] \in Seq(Byte)
      /\ Len(received[c]) \in Nat /\ Len(down[c]) \in Nat
      /\ Len(received[c]) + Len(down[c]) = Len(received[c] \o down[c])
  <2>1. received[c] \in Seq(Byte) /\ down[c] \in Seq(Byte)
    BY DEF IInv, Domains
  <2> QED
    BY <2>1, ConcatProperties, LenProperties
<1>3. Len(received[c]) <= d * a
  <2>1. Len(received[c] \o down[c]) = d * a
    BY SeqSumIs DEF Stage, Answered
  <2>2. PICK x \in Nat : x = d * a
    BY <1>1
  <2>3. PICK m \in Nat, n \in Nat : m = Len(received[c]) /\ n = Len(down[c])
    BY <1>2
  <2>4. m + n = x
    BY <1>2, <2>1, <2>2, <2>3
  <2>5. m <= x
    BY <2>4
  <2> QED
    BY <2>2, <2>3, <2>5
<1>4. Asking(c, d)
  BY DEF Stage
<1>5. clientPc[c] \in {"idle", "send", "head", "body", "done", "failed"}
  BY DEF IInv, Domains, TypeOK
<1>6. CASE clientPc[c] \in {"send", "done"}
  <2>1. r * a <= d * a
    BY <1>3, <1>4, <1>6 DEF Asking
  <2>2. r <= d
    BY <1>1, <2>1, Multiples
  <2> QED
    BY <1>1, <2>2
<1>7. CASE clientPc[c] = "head"
  <2>1. PICK q \in Nat : r = q + 1 /\ Len(received[c]) = q * a
    <3>1. r > 0 /\ Len(received[c]) = (r - 1) * a
      BY <1>4, <1>7 DEF Asking
    <3>2. PICK q \in Nat : q = r - 1 /\ r = q + 1
      BY <3>1
    <3> QED
      BY <3>1, <3>2
  <2>2. q <= d
    BY <1>1, <1>3, <2>1, Multiples
  <2> QED
    BY <1>1, <1>7, <2>1, <2>2
<1>8. CASE clientPc[c] = "body"
  <2>1. PICK q \in Nat : r = q + 1 /\ Len(received[c]) = q * a + HeadLen
    <3>1. r > 0 /\ Len(received[c]) = (r - 1) * a + HeadLen
      BY <1>4, <1>8 DEF Asking
    <3>2. PICK q \in Nat : q = r - 1 /\ r = q + 1
      BY <3>1
    <3> QED
      BY <3>1, <3>2
  <2>2. q * a < d * a
    <3>1. q * a \in Nat
      BY Multiples
    <3> QED
      BY <1>1, <1>3, <2>1, <3>1
  <2>3. q < d
    BY <1>1, <2>2, Multiples
  <2> QED
    BY <1>1, <2>1, <2>3
<1>9. CASE clientPc[c] \in {"idle", "failed"}
  BY <1>1, <1>4, <1>9 DEF Asking
<1> QED
  BY <1>5, <1>6, <1>7, <1>8, <1>9

(* The initial state satisfies the inductive invariant. *)
LEMMA InitHolds == Init => IInv
<1> SUFFICES ASSUME Init PROVE IInv
  OBVIOUS
<1> USE DEF Init, Logic!Init
<1>1. \A S : <<>> \in Seq(S) /\ Len(<<>>) = 0 /\ <<>> \o <<>> = <<>>
  BY EmptySeq
<1>2. Domains
  BY <1>1, Lengths DEF Domains, TypeOK
<1>3. HandledPrefix /\ Ordered
  BY <1>1 DEF HandledPrefix, Ordered
<1>4. ASSUME NEW c \in Clients PROVE Stage(c, 0, 0, 0)
  <2>1. Routed(c, 0, 0)
    BY <1>1 DEF Routed, Logged
  <2>2. SeqSum(c, 0) = <<>>
    <3>1. SeqSum(c, 0) \in Seq(Byte) /\ Len(SeqSum(c, 0)) = 0 * AnswerLen
      BY SeqSumIs, Lengths
    <3>2. 0 * AnswerLen = 0
      BY Lengths
    <3> QED
      BY <3>1, <3>2, EmptySeq
  <2>3. Answered(c, 0, 0)
    BY <1>1, <2>2 DEF Answered, Unpopped
  <2>4. Asking(c, 0) /\ NoneRefused(c)
    BY DEF Asking, NoneRefused
  <2> QED
    BY <2>1, <2>3, <2>4 DEF Stage
<1> QED
  BY <1>2, <1>3, <1>4, Lengths DEF IInv, Staged

(* A connection of which a step changes nothing keeps its stage. *)
LEMMA Unaffected ==
  ASSUME NEW c \in Clients, NEW p, NEW h, NEW d, Stage(c, p, h, d),
         round'[c] = round[c], clientPc'[c] = clientPc[c], replylen'[c] = replylen[c],
         received'[c] = received[c], down'[c] = down[c], up'[c] = up[c],
         _send_queue'[c] = _send_queue[c],
         c \in written' <=> c \in written, c \in short' <=> c \in short,
         \A k \in 1..Rounds : <<c, k>> \in refused' <=> <<c, k>> \in refused,
         over => over', Logged(posted', c, p), Logged(handled', c, h)
  PROVE  Stage(c, p, h, d)'
<1>1. Routed(c, p, h)'
  BY DEF Stage, Routed
<1>2. (NoneRefused(c) <=> NoneRefused(c)') /\ (InStep(c) <=> InStep(c)')
  BY DEF NoneRefused, InStep
<1>3. Answered(c, h, d) => Answered(c, h, d)'
  BY DEF Answered, Unpopped, SeqSum
<1>4. Asking(c, d) => Asking(c, d)'
  BY DEF Asking
<1>5. Stuck(c, h) => Stuck(c, h)'
  BY DEF Stuck, Unpopped
<1> QED
  BY <1>1, <1>2, <1>3, <1>4, <1>5 DEF Stage

(* A step of one connection that leaves the logic layer's logs alone: its *)
(* stage has to be looked at, and no other.                               *)
LEMMA OneConnection ==
  ASSUME IInv, NEW c \in Clients, UNCHANGED <<posted, handled, over>>, Domains',
         \A e \in Clients \ {c} :
           /\ round'[e] = round[e] /\ clientPc'[e] = clientPc[e] /\ replylen'[e] = replylen[e]
           /\ received'[e] = received[e] /\ down'[e] = down[e] /\ up'[e] = up[e]
           /\ _send_queue'[e] = _send_queue[e]
           /\ (e \in written' <=> e \in written) /\ (e \in short' <=> e \in short),
         refused' = refused,
         \A p, h, d \in 0..Rounds :
           Stage(c, p, h, d) => \E q, g, f \in 0..Rounds : Stage(c, q, g, f)'
  PROVE  IInv'
<1>1. HandledPrefix' /\ Ordered'
  BY DEF IInv, HandledPrefix, Ordered
<1>2. ASSUME NEW e \in Clients PROVE (\E p, h, d \in 0..Rounds : Stage(e, p, h, d))'
  <2>1. PICK p \in 0..Rounds, h \in 0..Rounds, d \in 0..Rounds : Stage(e, p, h, d)
    BY DEF IInv, Staged
  <2>2. CASE e = c
    BY <2>1, <2>2
  <2>3. CASE e # c
    <3>1. Logged(posted', e, p) /\ Logged(handled', e, h)
      BY <2>1 DEF Stage, Routed
    <3>2. Stage(e, p, h, d)'
      BY <2>1, <2>3, <3>1, Unaffected
    <3> QED
      BY <3>2
  <2> QED
    BY <2>2, <2>3
<1> QED
  BY <1>1, <1>2 DEF IInv, Staged

(* What the client has received and what it has not, together. *)
LEMMA Received ==
  ASSUME Domains, NEW c \in Clients, NEW d \in 0..Rounds, received[c] \o down[c] = SeqSum(c, d)
  PROVE  /\ Len(received[c]) \in Nat /\ Len(down[c]) \in Nat
         /\ Len(received[c]) + Len(down[c]) = d * AnswerLen
<1>1. received[c] \in Seq(Byte) /\ down[c] \in Seq(Byte)
  BY DEF Domains
<1>2. /\ Len(received[c] \o down[c]) = Len(received[c]) + Len(down[c])
      /\ Len(received[c]) \in Nat /\ Len(down[c]) \in Nat
  BY <1>1, ConcatProperties, LenProperties
<1>3. Len(SeqSum(c, d)) = d * AnswerLen
  BY SeqSumIs
<1> QED
  BY <1>2, <1>3

(* The functions of the state have a value at every connection. *)
LEMMA Functions ==
  ASSUME Domains
  PROVE  /\ clientPc \in [Clients -> {"idle", "send", "head", "body", "done", "failed"}]
         /\ round \in [Clients -> 0..Rounds]
         /\ replylen \in [Clients -> 0..MaxLength \cup {BodyLen}]
         /\ received \in [Clients -> Seq(Byte)] /\ down \in [Clients -> Seq(Byte)]
         /\ up \in [Clients -> Seq(1..Rounds)] /\ _send_queue \in [Clients -> Seq(1..Rounds)]
  BY DEF Domains, TypeOK

(* A client whose pc alone changes keeps the stage of its requests. *)
LEMMA PcChanges ==
  ASSUME NEW c \in Clients, NEW p, NEW h, NEW d, Stage(c, p, h, d),
         round'[c] = round[c],
         UNCHANGED <<received, short, up, down, sessionVars, logicVars>>,
         InStep(c) /\ NoneRefused(c) => Asking(c, d)',
         Stuck(c, h) => clientPc'[c] \in {"head", "failed"}
  PROVE  Stage(c, p, h, d)'
<1> USE DEF sessionVars, logicVars
<1>1. Routed(c, p, h)' /\ (InStep(c) <=> InStep(c)') /\ (NoneRefused(c) <=> NoneRefused(c)')
  BY DEF Stage, Routed, InStep, NoneRefused
<1>2. Answered(c, h, d) => Answered(c, h, d)'
  BY DEF Answered, Unpopped, SeqSum
<1>3. Stuck(c, h) => Stuck(c, h)'
  BY DEF Stuck, Unpopped
<1> QED
  BY <1>1, <1>2, <1>3 DEF Stage

(* A client that connects, or cannot: nothing was asked yet. *)
LEMMA ConnectKeeps ==
  ASSUME IInv, NEW c \in Clients, Connect(c), UNCHANGED <<sessionVars, logicVars>>
  PROVE  IInv'
<1>1. PICK x \in {"send", "failed"} : clientPc[c] = "idle" /\ clientPc' = [clientPc EXCEPT ![c] = x]
  BY DEF Connect, Goto
<1>2. /\ UNCHANGED <<round, replylen, received, short, up, down>>
      /\ UNCHANGED <<_send_queue, written, refused, posted, handled, over>>
  BY DEF Connect, sessionVars, logicVars
<1>3. Domains'
  BY <1>1, <1>2 DEF IInv, Domains, TypeOK
<1>4. clientPc'[c] = x /\ \A e \in Clients \ {c} : clientPc'[e] = clientPc[e]
  BY <1>1, Functions DEF IInv
<1>5. ASSUME NEW p \in 0..Rounds, NEW h \in 0..Rounds, NEW d \in 0..Rounds, Stage(c, p, h, d)
      PROVE  Stage(c, p, h, d)'
  <2>1. ~Stuck(c, h)
    BY <1>1 DEF Stuck
  <2>2. ASSUME InStep(c), NoneRefused(c) PROVE Asking(c, d)'
    <3>1. Asking(c, d) /\ received[c] \o down[c] = SeqSum(c, d) /\ d <= h
      BY <1>5, <2>2 DEF Stage, Answered
    <3>2. round[c] = 0
      BY <1>1, <3>1 DEF Asking
    <3>3. h <= p /\ p + Len(up[c]) = 0 /\ Len(up[c]) \in Nat
      <4>1. up[c] \in Seq(1..Rounds)
        BY DEF IInv, Domains
      <4> QED
        BY <1>5, <3>2, <4>1, LenProperties DEF Stage, Routed
    <3>4. d = 0
      <4> HIDE <1>5
      <4>1. p \in Nat /\ h \in Nat /\ d \in Nat
        BY Lengths
      <4> QED
        BY <3>1, <3>3, <4>1
    <3>5. Len(received[c]) = 0 /\ 0 * AnswerLen = 0
      <4>1. PICK m \in Nat, n \in Nat : m = Len(received[c]) /\ m + n = d * AnswerLen
        BY <3>1, Received DEF IInv
      <4>2. m + n = 0 /\ 0 * AnswerLen = 0
        BY <3>4, <4>1, Lengths
      <4> QED
        BY <4>1, <4>2
    <3> QED
      BY <1>2, <1>4, <3>2, <3>4, <3>5 DEF Asking
  <2> QED
    BY <1>2, <1>5, <2>1, <2>2, PcChanges DEF sessionVars, Connect
<1> QED
  BY <1>2, <1>3, <1>4, <1>5, OneConnection

(* A client whose thread returns when the server is gone. *)
LEMMA FailKeeps ==
  ASSUME IInv, NEW c \in Clients, ClientFails(c), UNCHANGED <<sessionVars, logicVars>>
  PROVE  IInv'
<1>1. clientPc' = [clientPc EXCEPT ![c] = "failed"] /\ over
  BY DEF ClientFails, Goto
<1>2. /\ UNCHANGED <<round, replylen, received, short, up, down>>
      /\ UNCHANGED <<_send_queue, written, refused, posted, handled, over>>
  BY DEF ClientFails, sessionVars, logicVars
<1>3. Domains'
  BY <1>1, <1>2 DEF IInv, Domains, TypeOK
<1>4. clientPc'[c] = "failed" /\ \A e \in Clients \ {c} : clientPc'[e] = clientPc[e]
  BY <1>1, Functions DEF IInv
<1>5. ASSUME NEW p \in 0..Rounds, NEW h \in 0..Rounds, NEW d \in 0..Rounds, Stage(c, p, h, d)
      PROVE  Stage(c, p, h, d)'
  <2>1. ASSUME InStep(c), NoneRefused(c) PROVE Asking(c, d)'
    <3>1. round[c] <= d + 1
      BY <1>5, <2>1, Behind
    <3> QED
      BY <1>1, <1>2, <1>4, <3>1 DEF Asking
  <2> QED
    BY <1>2, <1>4, <1>5, <2>1, PcChanges
<1> QED
  BY <1>2, <1>3, <1>4, <1>5, OneConnection

(* The end of the client's loop. *)
LEMMA DoneKeeps ==
  ASSUME IInv, NEW c \in Clients, Send(c), round[c] = Rounds,
         UNCHANGED <<sessionVars, logicVars>>
  PROVE  IInv'
<1>1. clientPc[c] = "send" /\ clientPc' = [clientPc EXCEPT ![c] = "done"]
  BY DEF Send, Goto
<1>2. /\ UNCHANGED <<round, replylen, received, short, up, down>>
      /\ UNCHANGED <<_send_queue, written, refused, posted, handled, over>>
  BY DEF Send, sessionVars, logicVars
<1>3. Domains'
  BY <1>1, <1>2 DEF IInv, Domains, TypeOK
<1>4. clientPc'[c] = "done" /\ \A e \in Clients \ {c} : clientPc'[e] = clientPc[e]
  BY <1>1, Functions DEF IInv
<1>5. ASSUME NEW p \in 0..Rounds, NEW h \in 0..Rounds, NEW d \in 0..Rounds, Stage(c, p, h, d)
      PROVE  Stage(c, p, h, d)'
  <2>1. ~Stuck(c, h)
    BY <1>1 DEF Stuck
  <2>2. Asking(c, d) => Asking(c, d)'
    BY <1>1, <1>2, <1>4 DEF Asking
  <2>3. InStep(c) /\ NoneRefused(c) => Asking(c, d)'
    BY <1>5, <2>2 DEF Stage
  <2> QED
    BY <1>2, <1>5, <2>1, <2>3, PcChanges
<1> QED
  BY <1>2, <1>3, <1>4, <1>5, OneConnection

(* The next request: a client that asks has all the answers to the earlier. *)
LEMMA AskKeeps ==
  ASSUME IInv, NEW c \in Clients, Send(c), round[c] # Rounds,
         UNCHANGED <<sessionVars, logicVars>>
  PROVE  IInv'
<1> PICK r \in Nat : r = round[c] /\ r < Rounds
  BY Lengths, Functions DEF IInv
<1> PICK u \in Seq(1..Rounds) : u = up[c]
  BY Functions DEF IInv
<1> PICK v : v = Append(u, r + 1)
  OBVIOUS
<1>0. Len(u) \in Nat /\ r + 1 \in 1..Rounds
  BY LenProperties, Lengths
<1>1. /\ v \in Seq(1..Rounds) /\ Len(v) = Len(u) + 1
      /\ \A i \in 1..(Len(u) + 1) : v[i] = IF i <= Len(u) THEN u[i] ELSE r + 1
  BY <1>0, AppendProperties, SMTT(60)
<1>2. /\ clientPc[c] = "send" /\ clientPc' = [clientPc EXCEPT ![c] = "head"]
      /\ round' = [round EXCEPT ![c] = round[c] + 1]
      /\ up' = [up EXCEPT ![c] = Append(up[c], round'[c])]
  BY DEF Send, Goto
<1>3. /\ UNCHANGED <<replylen, received, short, down>>
      /\ UNCHANGED <<_send_queue, written, refused, posted, handled, over>>
  BY DEF Send, sessionVars, logicVars
<1>4. round'[c] = r + 1 /\ round' = [round EXCEPT ![c] = r + 1]
  BY <1>2, Functions DEF IInv
<1>5. up' = [up EXCEPT ![c] = v]
  BY <1>2, <1>4
<1>6. Domains'
  <2>1. clientPc' \in [Clients -> {"idle", "send", "head", "body", "done", "failed"}]
    BY <1>2, Functions DEF IInv
  <2>2. round' \in [Clients -> 0..Rounds]
    <3>1. r + 1 \in 0..Rounds
      BY <1>0, Lengths
    <3> QED
      BY <1>4, <3>1, Functions DEF IInv
  <2>3. up' \in [Clients -> Seq(1..Rounds)]
    BY <1>1, <1>5, Functions DEF IInv
  <2> QED
    BY <1>3, <2>1, <2>2, <2>3 DEF IInv, Domains, TypeOK
<1>7. /\ clientPc'[c] = "head" /\ up'[c] = v
      /\ \A e \in Clients \ {c} :
           clientPc'[e] = clientPc[e] /\ round'[e] = round[e] /\ up'[e] = up[e]
  BY <1>2, <1>4, <1>5, Functions DEF IInv
<1>8. ASSUME NEW p \in 0..Rounds, NEW h \in 0..Rounds, NEW d \in 0..Rounds, Stage(c, p, h, d)
      PROVE  Stage(c, p, h, d)'
  <2>1. /\ p \in Nat /\ h <= p /\ p + Len(u) = r /\ \A i \in 1..Len(u) : u[i] = p + i
        /\ Logged(posted, c, p) /\ Logged(handled, c, h)
    <3>1. p \in Nat
      BY Lengths
    <3>2. Routed(c, p, h)
      BY <1>8 DEF Stage
    <3>3. /\ h <= p /\ p + Len(up[c]) = round[c] /\ \A i \in 1..Len(up[c]) : up[c][i] = p + i
          /\ Logged(posted, c, p) /\ Logged(handled, c, h)
      BY <3>2, Zenon DEF Routed
    <3> QED
      BY <3>1, <3>3, Zenon
  <2>2. p + Len(v) = r + 1
    <3>1. PICK l \in Nat : l = Len(u)
      BY <1>0
    <3>2. p + l = r /\ Len(v) = l + 1
      BY <1>1, <2>1, <3>1
    <3> QED
      BY <2>1, <3>2, SMTT(60)
  <2>3. ASSUME NEW i \in 1..Len(v) PROVE v[i] = p + i
    <3>1. i \in 1..(Len(u) + 1) /\ v[i] = IF i <= Len(u) THEN u[i] ELSE r + 1
      BY <1>1
    <3>2. CASE i \in 1..Len(u)
      BY <1>0, <2>1, <3>1, <3>2
    <3>3. CASE i = Len(u) + 1
      BY <1>0, <2>1, <3>1, <3>3, SMTT(60)
    <3> QED
      BY <1>0, <3>1, <3>2, <3>3, SMTT(60)
  <2>4. Routed(c, p, h)'
    BY <1>3, <1>4, <1>7, <2>1, <2>2, <2>3 DEF Routed
  <2>5. (InStep(c) <=> InStep(c)') /\ (NoneRefused(c) <=> NoneRefused(c)')
    BY <1>3 DEF InStep, NoneRefused
  <2>6. Answered(c, h, d) => Answered(c, h, d)'
    BY <1>3 DEF Answered, Unpopped, SeqSum
  <2>7. ~Stuck(c, h)
    BY <1>2 DEF Stuck
  <2>8. Asking(c, d) => Asking(c, d)'
    <3>1. round'[c] > 0 /\ round'[c] - 1 = r
      BY <1>4
    <3> QED
      BY <1>2, <1>3, <1>7, <3>1 DEF Asking
  <2> QED
    BY <1>8, <2>4, <2>5, <2>6, <2>7, <2>8 DEF Stage
<1> QED
  BY <1>3, <1>6, <1>7, <1>8, OneConnection

(* main posts the next request of a session. *)
LEMMA HandleReadKeeps ==
  ASSUME IInv, NEW c \in Clients, HandleRead(c)
  PROVE  IInv'
<1> PICK u \in Seq(1..Rounds) : u = up[c]
  BY Functions DEF IInv
<1> PICK k \in 1..Rounds : k = Head(u) /\ k = u[1] /\ u # <<>>
  <2>1. u # <<>>
    BY DEF HandleRead
  <2>2. Head(u) \in 1..Rounds
    BY <2>1, HeadTailProperties
  <2>3. Head(u) = u[1]
    OBVIOUS
  <2> QED
    BY <2>1, <2>2, <2>3
<1> PICK v : v = Tail(u)
  OBVIOUS
<1> PICK n \in LogicNodes : n = <<c, k>> /\ n[1] = c /\ n[2] = k
  <2>1. <<c, k>> \in LogicNodes
    BY DEF LogicNodes
  <2> QED
    BY <2>1
<1>0. Len(u) \in Nat \ {0}
  BY LenProperties, EmptySeq
<1>1. /\ v \in Seq(1..Rounds) /\ Len(v) = Len(u) - 1
      /\ \A i \in 1..Len(v) : v[i] = u[i + 1]
  BY HeadTailProperties
<1>2. posted \in Seq(LogicNodes) /\ handled \in Seq(LogicNodes) /\ Len(posted) \in Nat
  BY LenProperties DEF IInv, Domains
<1>3. /\ posted' = Append(posted, n) /\ up' = [up EXCEPT ![c] = v]
      /\ UNCHANGED <<clientPc, round, replylen, received, short, down>>
      /\ UNCHANGED <<_send_queue, written, refused, handled, over>>
  BY DEF HandleRead, Logic!Send, clientVars, sessionVars
<1>4. /\ posted' \in Seq(LogicNodes) /\ Len(posted') = Len(posted) + 1
      /\ \A i \in 1..(Len(posted) + 1) : posted'[i] = IF i <= Len(posted) THEN posted[i] ELSE n
  BY <1>2, <1>3, AppendProperties
<1>5. \A i \in 1..Len(posted) : posted'[i] = posted[i] /\ i \in 1..Len(posted')
  BY <1>2, <1>4
<1>6. posted'[Len(posted')] = n /\ Len(posted') \in 1..Len(posted')
  BY <1>2, <1>4, SMTT(60)
<1>7. Domains'
  <2>1. up' \in [Clients -> Seq(1..Rounds)]
    BY <1>1, <1>3, Functions DEF IInv
  <2> QED
    BY <1>3, <1>4, <2>1 DEF IInv, Domains, TypeOK
<1>8. up'[c] = v /\ \A e \in Clients \ {c} : up'[e] = up[e]
  BY <1>3, Functions DEF IInv
<1>9. PICK p \in 0..Rounds, h \in 0..Rounds, d \in 0..Rounds : Stage(c, p, h, d)
  BY DEF IInv, Staged
<1>10. /\ p \in Nat /\ h \in Nat /\ h <= p /\ p + Len(u) = round[c]
       /\ \A i \in 1..Len(u) : u[i] = p + i
       /\ Logged(posted, c, p) /\ Logged(handled, c, h)
  BY <1>9, Lengths DEF Stage, Routed
<1>11. k = p + 1 /\ p + 1 \in 0..Rounds
  <2>1. 1 \in 1..Len(u)
    BY <1>0
  <2>2. u[1] = p + 1
    BY <1>10, <2>1
  <2>3. k = p + 1
    BY <2>2
  <2>4. k \in 0..Rounds
    BY Lengths
  <2> QED
    BY <2>3, <2>4
<1>12. \A e \in Clients, j \in 1..Rounds :
         (\E i \in 1..Len(posted') : posted'[i] = <<e, j>>)
         <=> (\E i \in 1..Len(posted) : posted[i] = <<e, j>>) \/ (e = c /\ j = k)
  <2> TAKE e \in Clients, j \in 1..Rounds
  <2>1. ASSUME NEW i \in 1..Len(posted'), posted'[i] = <<e, j>>
        PROVE  (\E m \in 1..Len(posted) : posted[m] = <<e, j>>) \/ (e = c /\ j = k)
    <3>1. CASE i \in 1..Len(posted)
      BY <1>5, <2>1, <3>1
    <3>2. CASE i = Len(posted')
      BY <1>6, <2>1, <3>2
    <3> QED
      BY <1>2, <1>4, <3>1, <3>2, SMTT(60)
  <2>2. ASSUME NEW i \in 1..Len(posted), posted[i] = <<e, j>>
        PROVE  \E m \in 1..Len(posted') : posted'[m] = <<e, j>>
    BY <1>5, <2>2
  <2>3. ASSUME e = c, j = k PROVE \E m \in 1..Len(posted') : posted'[m] = <<e, j>>
    BY <1>6, <2>3
  <2> QED
    BY <2>1, <2>2, <2>3
<1>13. HandledPrefix'
  BY <1>2, <1>3, <1>4, <1>5, LenProperties, SMTT(60) DEF HandledPrefix, IInv
<1>14. Ordered'
  <2> SUFFICES ASSUME NEW i \in 1..Len(posted'), NEW j \in 1..Len(posted'), i < j,
                      posted'[i][1] = posted'[j][1]
               PROVE  posted'[i][2] < posted'[j][2]
    BY DEF Ordered
  <2>1. i \in 1..Len(posted) /\ (j \in 1..Len(posted) \/ j = Len(posted'))
    <3>1. PICK l \in Nat : l = Len(posted)
      BY <1>2
    <3>2. i \in 1..(l + 1) /\ j \in 1..(l + 1) /\ Len(posted') = l + 1
      BY <1>4, <3>1
    <3>3. i \in 1..l /\ (j \in 1..l \/ j = l + 1)
      BY <3>2
    <3> QED
      BY <3>1, <3>2, <3>3
  <2>2. CASE j \in 1..Len(posted)
    BY <1>5, <2>1, <2>2 DEF IInv, Ordered
  <2>3. CASE j = Len(posted')
    <3>1. posted[i] \in LogicNodes /\ posted[i][1] = c
      BY <1>2, <1>5, <1>6, <2>1, <2>3, SMTT(60)
    <3>2. PICK m \in 1..Rounds : posted[i] = <<c, m>> /\ posted[i][2] = m
      BY <3>1, SMTT(60) DEF LogicNodes
    <3>3. m <= p
      BY <1>10, <2>1, <3>2 DEF Logged
    <3>4. m < k
      BY <1>10, <1>11, <3>3, SMTT(60)
    <3> QED
      BY <1>5, <1>6, <2>1, <2>3, <3>2, <3>4
  <2> QED
    BY <2>1, <2>2, <2>3
<1>15. Stage(c, p + 1, h, d)'
  <2>1. Routed(c, p + 1, h)'
    <3>1. p + 1 + Len(v) = round[c] /\ h <= p + 1
      <4>1. PICK l \in Nat : l = Len(u) /\ l # 0
        BY <1>0
      <4>2. Len(v) = l - 1 /\ p + l = round[c]
        BY <1>1, <1>10, <4>1
      <4>3. p \in Nat /\ h \in Nat /\ h <= p
        BY <1>10
      <4>4. h <= p + 1
        BY <4>3, Lengths
      <4>5. p + 1 + (l - 1) = p + l
        BY <4>3, Lengths
      <4> QED
        BY <4>2, <4>4, <4>5
    <3>2. \A i \in 1..Len(v) : v[i] = p + 1 + i
      <4> TAKE i \in 1..Len(v)
      <4>1. i + 1 \in 1..Len(u) /\ v[i] = u[i + 1]
        BY <1>0, <1>1
      <4> QED
        BY <1>10, <4>1
    <3>3. Logged(posted', c, p + 1)
      <4> SUFFICES ASSUME NEW j \in 1..Rounds
                   PROVE  (\E i \in 1..Len(posted') : posted'[i] = <<c, j>>) <=> j <= p + 1
        BY DEF Logged
      <4>1. (\E i \in 1..Len(posted) : posted[i] = <<c, j>>) <=> j <= p
        BY <1>10 DEF Logged
      <4>2. j <= p + 1 <=> j <= p \/ j = k
        BY <1>10, <1>11
      <4> QED
        BY <1>12, <4>1, <4>2
    <3>4. Logged(handled', c, h)
      BY <1>3, <1>10
    <3> QED
      BY <1>3, <1>8, <3>1, <3>2, <3>3, <3>4 DEF Routed
  <2>2. (InStep(c) <=> InStep(c)') /\ (NoneRefused(c) <=> NoneRefused(c)')
    BY <1>3 DEF InStep, NoneRefused
  <2>3. Answered(c, h, d) => Answered(c, h, d)'
    BY <1>3 DEF Answered, Unpopped, SeqSum
  <2>4. Stuck(c, h) => Stuck(c, h)'
    BY <1>3 DEF Stuck, Unpopped
  <2>5. Asking(c, d) => Asking(c, d)'
    BY <1>3 DEF Asking
  <2> QED
    BY <1>9, <2>1, <2>2, <2>3, <2>4, <2>5 DEF Stage
<1>16. ASSUME NEW e \in Clients, e # c PROVE (\E q, g, f \in 0..Rounds : Stage(e, q, g, f))'
  <2>1. PICK q \in 0..Rounds, g \in 0..Rounds, f \in 0..Rounds : Stage(e, q, g, f)
    BY DEF IInv, Staged
  <2>2. Logged(posted', e, q) /\ Logged(handled', e, g)
    <3>1. Logged(posted, e, q) /\ Logged(handled, e, g)
      BY <2>1 DEF Stage, Routed
    <3>2. \A j \in 1..Rounds : (\E i \in 1..Len(posted') : posted'[i] = <<e, j>>)
                               <=> (\E i \in 1..Len(posted) : posted[i] = <<e, j>>)
      BY <1>12, <1>16
    <3> QED
      BY <1>3, <3>1, <3>2 DEF Logged
  <2>3. Stage(e, q, g, f)'
    BY <1>3, <1>8, <1>16, <2>1, <2>2, Unaffected
  <2> QED
    BY <2>3
<1>17. Staged'
  <2>1. PICK q \in 0..Rounds : q = p + 1
    BY <1>11
  <2>2. Stage(c, q, h, d)'
    BY <1>15, <2>1
  <2>3. (\E m, g, f \in 0..Rounds : Stage(c, m, g, f))'
    BY <2>2
  <2> QED
    BY <1>16, <2>3, SMTT(60) DEF Staged
<1> QED
  BY <1>7, <1>13, <1>14, <1>17 DEF IInv

(* Bytes can be put together in any order. *)
LEMMA Associative ==
  ASSUME NEW r \in Seq(Byte), NEW s \in Seq(Byte), NEW t \in Seq(Byte)
  PROVE  r \o (s \o t) = (r \o s) \o t
  BY ConcatAssociative, SMTT(60)

(* The kernel has written the front answer of a session. *)
LEMMA WriteKeeps ==
  ASSUME IInv, NEW c \in Clients, Write(c)
  PROVE  IInv'
<1> PICK q \in Seq(1..Rounds) : q = _send_queue[c]
  BY Functions DEF IInv
<1>0. q # <<>> /\ c \notin written
  BY DEF Write
<1> PICK k \in 1..Rounds : k = Head(q) /\ k = q[1]
  <2>1. Head(q) \in 1..Rounds
    BY <1>0, HeadTailProperties
  <2>2. Head(q) = q[1]
    OBVIOUS
  <2> QED
    BY <2>1, <2>2
<1> PICK b \in Seq(Byte) : b = Answer(c, k)
  BY AnswerIs
<1> PICK w \in Seq(Byte) : w = down[c] /\ received[c] \in Seq(Byte)
  BY Functions DEF IInv
<1>1. Len(q) \in Nat \ {0}
  BY <1>0, LenProperties, EmptySeq
<1>2. /\ down' = [down EXCEPT ![c] = w \o b] /\ written' = written \cup {c}
      /\ UNCHANGED <<clientPc, round, replylen, received, short, up>>
      /\ UNCHANGED <<_send_queue, refused, posted, handled, over>>
  BY DEF Write, clientVars, logicVars
<1>3. w \o b \in Seq(Byte)
  BY ConcatProperties
<1>4. down'[c] = w \o b /\ \A e \in Clients \ {c} : down'[e] = down[e]
  BY <1>2, Functions DEF IInv
<1>5. Domains'
  <2>1. down' \in [Clients -> Seq(Byte)]
    BY <1>2, <1>3, Functions DEF IInv
  <2>2. TypeOK'
    BY <1>0, <1>2 DEF IInv, Domains, TypeOK
  <2> QED
    BY <1>2, <2>1, <2>2 DEF IInv, Domains
<1>6. \A e \in Clients \ {c} : e \in written' <=> e \in written
  BY <1>2
<1>7. ASSUME NEW p \in 0..Rounds, NEW h \in 0..Rounds, NEW d \in 0..Rounds, Stage(c, p, h, d)
      PROVE  \E x, g, f \in 0..Rounds : Stage(c, x, g, f)'
  <2>0. d \in Nat /\ h \in Nat /\ h <= Rounds /\ Rounds \in Nat
    BY Lengths
  <2>1. Routed(c, p, h)' /\ (InStep(c) <=> InStep(c)') /\ (NoneRefused(c) <=> NoneRefused(c)')
    BY <1>2, <1>7 DEF Stage, Routed, InStep, NoneRefused
  <2>2. Unpopped(c) = 0 /\ Unpopped(c)' = 1
    BY <1>0, <1>2 DEF Unpopped
  <2>3. CASE NoneRefused(c)
    <3>1. /\ d <= h /\ received[c] \o w = SeqSum(c, d) /\ Len(q) + d = h + 0
          /\ \A i \in 1..Len(q) : q[i] + 0 = d + i
      BY <1>7, <2>2, <2>3 DEF Stage, Answered
    <3>2. Len(q) + d = h
      BY <2>0, <3>1
    <3>3. k = d + 1
      <4>1. 1 \in 1..Len(q)
        BY <1>1
      <4>2. k + 0 = d + 1
        BY <3>1, <4>1
      <4> QED
        BY <4>2, Lengths, SMTT(60)
    <3>4. d + 1 <= h /\ d < Rounds
      BY <1>1, <2>0, <3>2
    <3>5. received[c] \o (w \o b) = SeqSum(c, d + 1)
      <4>1. PICK s \in Seq(Byte) : s = received[c]
        OBVIOUS
      <4>2. s \o (w \o b) = (s \o w) \o b
        BY Associative
      <4> QED
        BY <3>1, <3>3, <3>4, <4>1, <4>2, NextSum
    <3>6. PICK f \in 0..Rounds : f = d + 1 /\ f \in Nat
      BY <2>0, <3>4
    <3>7. \A i \in 1..Len(q) : q[i] + 1 = f + i
      <4> TAKE i \in 1..Len(q)
      <4>1. PICK x \in Nat : x = q[i]
        BY Lengths
      <4>2. x + 0 = d + i
        BY <3>1, <4>1
      <4> QED
        BY <2>0, <3>6, <4>1, <4>2, SMTT(60)
    <3>8. Answered(c, h, f)'
      <4>1. Len(q) + f = h + 1
        <5>1. PICK l \in Nat : l = Len(q)
          BY <1>1
        <5>2. l + d = h /\ f = d + 1
          BY <3>2, <3>6, <5>1
        <5>3. l + f = h + 1
          BY <2>0, <5>2
        <5> QED
          BY <5>1, <5>3
      <4>2. (received[c] \o down[c] = SeqSum(c, f))'
        BY <1>2, <1>4, <3>5, <3>6 DEF SeqSum
      <4> QED
        BY <1>2, <2>2, <3>4, <3>6, <3>7, <4>1, <4>2 DEF Answered
    <3>9. Asking(c, d) => Asking(c, f)'
      <4>1. round[c] <= d + 1 => round[c] <= f + 1
        <5>1. PICK r \in Nat : r = round[c]
          BY Functions, Lengths DEF IInv
        <5> QED
          BY <2>0, <3>6, <5>1
      <4> QED
        BY <1>2, <4>1 DEF Asking
    <3>10. Stage(c, p, h, f)'
      BY <1>7, <2>1, <2>3, <3>8, <3>9 DEF Stage
    <3> QED
      BY <3>10
  <2>4. CASE ~NoneRefused(c)
    <3>1. ~Stuck(c, h)
      BY <1>1, <2>2 DEF Stuck
    <3>2. Stage(c, p, h, d)'
      BY <1>7, <2>1, <2>4, <3>1 DEF Stage
    <3> QED
      BY <3>2
  <2> QED
    BY <2>3, <2>4
<1>8. /\ \A e \in Clients \ {c} : e \in short' <=> e \in short
      /\ refused' = refused /\ UNCHANGED <<posted, handled, over>>
  BY <1>2
<1> QED
  BY <1>2, <1>4, <1>5, <1>6, <1>7, <1>8, OneConnection

(* HandleWrite pops the answer that was written. *)
LEMMA HandleWriteKeeps ==
  ASSUME IInv, NEW c \in Clients, HandleWrite(c)
  PROVE  IInv'
<1> PICK q \in Seq(1..Rounds) : q = _send_queue[c]
  BY Functions DEF IInv
<1> PICK v : v = Tail(q)
  OBVIOUS
<1>0. q # <<>> /\ c \in written
  BY DEF HandleWrite, IInv, Domains, TypeOK
<1>1. /\ v \in Seq(1..Rounds) /\ Len(v) = Len(q) - 1 /\ Len(q) \in Nat \ {0}
      /\ \A i \in 1..Len(v) : v[i] = q[i + 1]
  BY <1>0, HeadTailProperties, LenProperties, EmptySeq
<1>2. /\ _send_queue' = [_send_queue EXCEPT ![c] = v] /\ written' = written \ {c}
      /\ UNCHANGED <<clientPc, round, replylen, received, short, up, down>>
      /\ UNCHANGED <<refused, posted, handled, over>>
  BY DEF HandleWrite, Pop, clientVars, logicVars
<1>3. _send_queue'[c] = v /\ \A e \in Clients \ {c} : _send_queue'[e] = _send_queue[e]
  BY <1>2, Functions DEF IInv
<1>4. \A e \in Clients \ {c} : e \in written' <=> e \in written
  BY <1>2
<1>5. Domains'
  <2>1. _send_queue' \in [Clients -> Seq(1..Rounds)]
    BY <1>1, <1>2, Functions DEF IInv
  <2>2. written' \subseteq {e \in Clients : _send_queue'[e] # <<>>}
    BY <1>2, <1>3 DEF IInv, Domains, TypeOK
  <2>3. TypeOK'
    BY <1>2, <2>2 DEF IInv, Domains, TypeOK
  <2> QED
    BY <1>2, <2>1, <2>3 DEF IInv, Domains
<1>6. ASSUME NEW p \in 0..Rounds, NEW h \in 0..Rounds, NEW d \in 0..Rounds, Stage(c, p, h, d)
      PROVE  Stage(c, p, h, d)'
  <2>0. d \in Nat /\ h \in Nat /\ h <= Rounds /\ Rounds \in Nat
    BY Lengths
  <2>1. Routed(c, p, h)' /\ (InStep(c) <=> InStep(c)') /\ (NoneRefused(c) <=> NoneRefused(c)')
    BY <1>2, <1>6 DEF Stage, Routed, InStep, NoneRefused
  <2>2. Unpopped(c) = 1 /\ Unpopped(c)' = 0
    BY <1>0, <1>2 DEF Unpopped
  <2>3. PICK l \in Nat : l = Len(q) /\ Len(v) = l - 1 /\ l - 1 \in Nat
    BY <1>1
  <2>4. ASSUME Answered(c, h, d) PROVE Answered(c, h, d)'
    <3>1. /\ d <= h /\ l + d = h + 1
          /\ \A i \in 1..l : q[i] + 1 = d + i
      BY <2>2, <2>3, <2>4 DEF Answered
    <3>2. Len(v) + d = h + 0
      BY <2>0, <2>3, <3>1
    <3>3. \A i \in 1..Len(v) : v[i] + 0 = d + i
      <4> TAKE i \in 1..Len(v)
      <4>1. i + 1 \in 1..l /\ v[i] = q[i + 1] /\ i \in Nat
        BY <1>1, <2>3
      <4>2. PICK x \in Nat : x = q[i + 1]
        <5>1. i + 1 \in 1..Len(q)
          BY <2>3, <4>1
        <5> QED
          BY <5>1, Lengths
      <4>3. x + 1 = d + (i + 1)
        BY <3>1, <4>1, <4>2
      <4>4. x + 0 = d + i
        BY <2>0, <4>1, <4>3
      <4> QED
        BY <4>1, <4>2, <4>4, Zenon
    <3>4. (received[c] \o down[c] = SeqSum(c, d))'
      BY <1>2, <2>4 DEF Answered, SeqSum
    <3> QED
      BY <1>3, <2>2, <3>1, <3>2, <3>3, <3>4 DEF Answered
  <2>5. Stuck(c, h) => Stuck(c, h)'
    <3>1. Len(q) = 1 => Len(v) = 0
      BY <2>3
    <3> QED
      BY <1>2, <1>3, <2>2, <3>1 DEF Stuck
  <2>6. Asking(c, d) => Asking(c, d)'
    BY <1>2 DEF Asking
  <2> QED
    BY <1>6, <2>1, <2>4, <2>5, <2>6 DEF Stage
<1>7. /\ \A e \in Clients \ {c} : e \in short' <=> e \in short
      /\ refused' = refused /\ UNCHANGED <<posted, handled, over>>
  BY <1>2
<1> QED
  BY <1>2, <1>3, <1>4, <1>5, <1>6, <1>7, OneConnection

(* What a receive moves, and that a client still in step got all it asked for. *)
LEMMA Receives ==
  ASSUME Domains, NEW c \in Clients, NEW room \in Nat, NEW n \in Nat, Receive(c, room, n)
  PROVE  /\ n \in 0..Len(down[c]) /\ Len(down[c]) \in Nat
         /\ received' \in [Clients -> Seq(Byte)] /\ down' \in [Clients -> Seq(Byte)]
         /\ short' \subseteq Clients
         /\ received'[c] \o down'[c] = received[c] \o down[c]
         /\ Len(received'[c]) = Len(received[c]) + n
         /\ \A i \in 1..n : Take(down[c], n)[i] = down[c][i]
         /\ Len(Take(down[c], n)) = n /\ Take(down[c], n) \in Seq(Byte)
         /\ InStep(c)' => InStep(c) /\ n = room
         /\ down[c] = <<>> => room = 0
         /\ \A e \in Clients \ {c} :
              /\ received'[e] = received[e] /\ down'[e] = down[e]
              /\ (e \in short' <=> e \in short)
<1> PICK r \in Seq(Byte), w \in Seq(Byte) : r = received[c] /\ w = down[c]
  BY Functions
<1>1. Len(w) \in Nat
  BY LenProperties
<1>2. n \in 0..Len(w) /\ (w = <<>> => room = 0) /\ n <= room
  <2>1. w = <<>> => Len(w) = 0
    BY EmptySeq
  <2>2. IF room = 0 THEN n = 0 ELSE n \in 1..Min2(room, Len(w))
    BY DEF Receive
  <2>3. CASE room = 0
    BY <1>1, <2>2, <2>3
  <2>4. CASE room # 0
    <3>1. PICK l \in Nat : l = Len(w)
      BY <1>1
    <3>2. Min2(room, l) \in Nat /\ Min2(room, l) <= l /\ Min2(room, l) <= room
      BY DEF Min2
    <3>3. n \in 1..Min2(room, l)
      BY <2>2, <2>4, <3>1
    <3> QED
      BY <2>1, <3>1, <3>2, <3>3
  <2> QED
    BY <2>3, <2>4
<1>3. /\ Take(w, n) \in Seq(Byte) /\ Drop(w, n) \in Seq(Byte) /\ r \o Take(w, n) \in Seq(Byte)
      /\ Len(Take(w, n)) = n /\ Len(r \o Take(w, n)) = Len(r) + n
      /\ (r \o Take(w, n)) \o Drop(w, n) = r \o w
      /\ \A i \in 1..n : Take(w, n)[i] = w[i]
  <2>1. PICK x \in 0..Len(w) : x = n
    BY <1>2
  <2>2. Take(w, x) \in Seq(Byte) /\ Drop(w, x) \in Seq(Byte) /\ r \o Take(w, x) \in Seq(Byte)
    BY TakeDrop
  <2>3. Len(Take(w, x)) = x /\ Len(r \o Take(w, x)) = Len(r) + x
    BY TakeDrop
  <2>4. (r \o Take(w, x)) \o Drop(w, x) = r \o w
    BY TakeDrop
  <2>5. \A i \in 1..x : Take(w, x)[i] = w[i]
    BY TakeDrop, SMTT(60)
  <2> QED
    BY <2>1, <2>2, <2>3, <2>4, <2>5
<1>4. /\ received' = [received EXCEPT ![c] = r \o Take(w, n)]
      /\ down' = [down EXCEPT ![c] = Drop(w, n)]
      /\ short' = IF n < room THEN short \cup {c} ELSE short
  BY DEF Receive
<1>5. /\ received'[c] = r \o Take(w, n) /\ down'[c] = Drop(w, n)
      /\ \A e \in Clients \ {c} : received'[e] = received[e] /\ down'[e] = down[e]
  BY <1>4, Functions
<1>6. received' \in [Clients -> Seq(Byte)] /\ down' \in [Clients -> Seq(Byte)]
  BY <1>3, <1>4, Functions
<1>7. /\ short' \subseteq Clients
      /\ InStep(c)' => InStep(c) /\ n = room
      /\ \A e \in Clients \ {c} : e \in short' <=> e \in short
  <2>1. short \subseteq Clients
    BY DEF Domains
  <2>2. CASE n < room
    BY <1>4, <2>1, <2>2 DEF InStep
  <2>3. CASE ~(n < room)
    <3>1. n = room
      BY <1>2, <2>3
    <3> QED
      BY <1>4, <2>1, <2>3, <3>1 DEF InStep
  <2> QED
    BY <2>2, <2>3
<1> QED
  BY <1>1, <1>2, <1>3, <1>5, <1>6, <1>7

(* A client that receives keeps the stage of its requests. *)
LEMMA ReceiveStage ==
  ASSUME IInv, NEW c \in Clients, NEW room \in Nat, NEW n \in Nat, Receive(c, room, n),
         UNCHANGED <<round, up, sessionVars, logicVars>>,
         NEW p, NEW h, NEW d, Stage(c, p, h, d), ~Stuck(c, h),
         InStep(c)' /\ NoneRefused(c) => Asking(c, d)'
  PROVE  Stage(c, p, h, d)'
<1> USE DEF sessionVars, logicVars
<1>1. Routed(c, p, h)' /\ (NoneRefused(c) <=> NoneRefused(c)')
  BY DEF Stage, Routed, NoneRefused
<1>2. received'[c] \o down'[c] = received[c] \o down[c] /\ (InStep(c)' => InStep(c))
  BY Receives DEF IInv
<1>3. Answered(c, h, d) => Answered(c, h, d)'
  BY <1>2 DEF Answered, Unpopped, SeqSum
<1> QED
  BY <1>1, <1>2, <1>3 DEF Stage

(* Where a client in step is when it receives the head of an answer. *)
LEMMA AtHead ==
  ASSUME IInv, NEW c \in Clients, NEW p \in 0..Rounds, NEW h \in 0..Rounds, NEW d \in 0..Rounds,
         Stage(c, p, h, d), InStep(c), NoneRefused(c), clientPc[c] = "head",
         HeadLen \in 0..Len(down[c])
  PROVE  /\ round[c] \in 1..Rounds
         /\ \A i \in 1..HeadLen : down[c][i] = <<c, round[c], i>>
<1> PICK r \in Nat : r = round[c] /\ r <= Rounds
  BY Lengths, Functions DEF IInv
<1> PICK a \in Nat : a = AnswerLen /\ HeadLen \in Nat \ {0} /\ HeadLen < a /\ a # 0
  BY Lengths
<1>0. a \in Nat \ {0} /\ d \in Nat /\ h \in Nat /\ p \in Nat
  BY Lengths
<1>1. /\ Asking(c, d) /\ received[c] \o down[c] = SeqSum(c, d)
      /\ d <= h /\ h <= p /\ p + Len(up[c]) = r
  BY DEF Stage, Answered, Routed
<1>2. r > 0 /\ Len(received[c]) = (r - 1) * a
  BY <1>1 DEF Asking
<1>3. PICK q \in Nat : r = q + 1 /\ Len(received[c]) = q * a
  <2>1. r - 1 \in Nat /\ r = (r - 1) + 1
    BY <1>2, SMTT(60)
  <2> QED
    BY <1>2, <2>1
<1>4. d <= r
  <2>1. PICK l \in Nat : l = Len(up[c])
    <3>1. up[c] \in Seq(1..Rounds)
      BY Functions DEF IInv
    <3> QED
      BY <3>1, LenProperties
  <2> QED
    BY <1>0, <1>1, <2>1
<1>5. PICK m \in Nat, n \in Nat : m = q * a /\ n = Len(down[c]) /\ m + n = d * a
  BY <1>1, <1>3, Received DEF IInv
<1>6. d = r
  <2>1. n >= 1
    BY <1>5
  <2>2. q * a < d * a
    <3>1. PICK x \in Nat : x = d * a
      BY <1>5
    <3>2. m < x
      <4>1. m + n = x
        BY <1>5, <3>1
      <4> QED
        BY <2>1, <4>1
    <3> QED
      BY <1>5, <3>1, <3>2
  <2>3. q < d
    BY <1>0, <2>2, Multiples
  <2> QED
    BY <1>0, <1>3, <1>4, <2>3
<1>7. PICK s \in Seq(Byte), w \in Seq(Byte) : s = received[c] /\ w = down[c]
  BY Functions DEF IInv
<1>8. \A i \in 1..HeadLen : w[i] = <<c, r, i>>
  <2> TAKE i \in 1..HeadLen
  <2>1. i \in 1..a /\ i \in 1..n /\ r \in 1..d
    BY <1>2, <1>5, <1>6, SMTT(60)
  <2>2. SeqSum(c, d)[(r - 1) * a + i] = <<c, r, i>>
    BY <2>1, SeqSumIs, ZenonT(60)
  <2>3. (r - 1) * a + i = m + i /\ m + i \in 1..(m + n) /\ ~(m + i <= m) /\ (m + i) - m = i
    <3>1. r - 1 = q /\ (r - 1) * a = m
      BY <1>3, <1>5
    <3>2. PICK j \in Nat : j = i /\ j >= 1 /\ j <= n
      BY <2>1
    <3>3. m + j \in 1..(m + n) /\ ~(m + j <= m) /\ (m + j) - m = j
      BY <3>2
    <3> QED
      BY <3>1, <3>2, <3>3
  <2>4. (s \o w)[m + i] = w[i]
    <3>1. Len(s) = m /\ Len(w) = n
      BY <1>3, <1>5, <1>7
    <3>2. \A j \in 1..(Len(s) + Len(w)) :
            (s \o w)[j] = IF j <= Len(s) THEN s[j] ELSE w[j - Len(s)]
      BY ConcatProperties
    <3> QED
      BY <2>3, <3>1, <3>2
  <2> QED
    BY <1>1, <1>7, <2>2, <2>3, <2>4
<1>9. r \in 1..Rounds
  BY <1>2, Lengths
<1> QED
  BY <1>7, <1>8, <1>9

(* A client in step receives the whole head of its answer, and recognises it. *)
LEMMA ReceiveHeadKeeps ==
  ASSUME IInv, NEW c \in Clients, ReceiveHead(c), UNCHANGED <<sessionVars, logicVars>>
  PROVE  IInv'
<1> PICK n \in 1..HeadLen :
      /\ Receive(c, HeadLen, n)
      /\ IF IsHead(c, Take(down[c], n))
         THEN replylen' = [replylen EXCEPT ![c] = BodyLen] /\ Goto(c, "body")
         ELSE \E len \in 0..MaxLength :
                /\ replylen' = [replylen EXCEPT ![c] = len]
                /\ Goto(c, "body") \/ Goto(c, "failed")
  BY DEF ReceiveHead
<1>0. n \in Nat /\ HeadLen \in Nat \ {0}
  BY Lengths
<1>1. clientPc[c] = "head" /\ UNCHANGED <<round, up>>
  BY DEF ReceiveHead
<1>2. UNCHANGED <<_send_queue, written, refused, posted, handled, over>>
  BY DEF sessionVars, logicVars
<1>3. PICK len \in 0..MaxLength \cup {BodyLen}, x \in {"body", "failed"} :
        /\ replylen' = [replylen EXCEPT ![c] = len] /\ clientPc' = [clientPc EXCEPT ![c] = x]
        /\ IsHead(c, Take(down[c], n)) => len = BodyLen /\ x = "body"
  BY DEF Goto
<1>4. /\ replylen'[c] = len /\ clientPc'[c] = x
      /\ \A e \in Clients \ {c} : clientPc'[e] = clientPc[e] /\ replylen'[e] = replylen[e]
  BY <1>3, Functions DEF IInv
<1>5. /\ n \in 0..Len(down[c]) /\ Len(down[c]) \in Nat
      /\ received' \in [Clients -> Seq(Byte)] /\ down' \in [Clients -> Seq(Byte)]
      /\ short' \subseteq Clients
      /\ Len(received'[c]) = Len(received[c]) + n
      /\ \A i \in 1..n : Take(down[c], n)[i] = down[c][i]
      /\ Len(Take(down[c], n)) = n /\ Take(down[c], n) \in Seq(Byte)
      /\ InStep(c)' => InStep(c) /\ n = HeadLen
      /\ down[c] # <<>>
      /\ \A e \in Clients \ {c} :
           /\ received'[e] = received[e] /\ down'[e] = down[e] /\ (e \in short' <=> e \in short)
  <2>1. PICK m \in Nat : m = HeadLen /\ m # 0
    BY <1>0
  <2>2. Receive(c, m, n) /\ Domains
    BY <2>1 DEF IInv
  <2>3. /\ n \in 0..Len(down[c]) /\ Len(down[c]) \in Nat
        /\ received' \in [Clients -> Seq(Byte)] /\ down' \in [Clients -> Seq(Byte)]
        /\ short' \subseteq Clients
    BY <1>0, <2>2, Receives
  <2>4. /\ Len(received'[c]) = Len(received[c]) + n
        /\ Len(Take(down[c], n)) = n /\ Take(down[c], n) \in Seq(Byte)
    BY <1>0, <2>2, Receives, ZenonT(60)
  <2>8. \A i \in 1..n : Take(down[c], n)[i] = down[c][i]
    <3>1. PICK w \in Seq(Byte) : w = down[c]
      BY <2>2, Functions
    <3>2. PICK k \in 0..Len(w) : k = n
      BY <2>3, <3>1
    <3>3. \A i \in 1..k : Take(w, k)[i] = w[i]
      BY TakeDrop
    <3> QED
      BY <3>1, <3>2, <3>3
  <2>5. InStep(c)' => InStep(c) /\ n = m
    BY <1>0, <2>2, Receives
  <2>6. down[c] # <<>>
    BY <1>0, <2>1, <2>2, Receives
  <2>7. \A e \in Clients \ {c} :
          /\ received'[e] = received[e] /\ down'[e] = down[e]
          /\ (e \in short' <=> e \in short)
    BY <1>0, <2>2, Receives
  <2> QED
    BY <2>1, <2>3, <2>4, <2>5, <2>6, <2>7, <2>8
<1>6. Domains'
  <2>1. /\ clientPc' \in [Clients -> {"idle", "send", "head", "body", "done", "failed"}]
        /\ replylen' \in [Clients -> 0..MaxLength \cup {BodyLen}]
    BY <1>3, Functions DEF IInv
  <2> QED
    BY <1>1, <1>2, <1>5, <2>1 DEF IInv, Domains, TypeOK
<1>7. ASSUME NEW p \in 0..Rounds, NEW h \in 0..Rounds, NEW d \in 0..Rounds, Stage(c, p, h, d)
      PROVE  Stage(c, p, h, d)'
  <2>1. ~Stuck(c, h)
    BY <1>5 DEF Stuck
  <2>2. ASSUME InStep(c)', NoneRefused(c) PROVE Asking(c, d)'
    <3>1. InStep(c) /\ n = HeadLen
      BY <1>5, <2>2
    <3>2. Asking(c, d)
      BY <1>7, <2>2, <3>1 DEF Stage
    <3>3. /\ round[c] \in 1..Rounds
          /\ \A i \in 1..HeadLen : down[c][i] = <<c, round[c], i>>
      BY <1>1, <1>5, <1>7, <2>2, <3>1, AtHead
    <3>4. IsHead(c, Take(down[c], n))
      <4> PICK r \in 1..Rounds : r = round[c]
        BY <3>3
      <4> PICK b \in Seq(Byte) : b = Answer(c, r)
        BY AnswerIs
      <4>1. Len(b) = AnswerLen /\ \A i \in 1..AnswerLen : b[i] = <<c, r, i>>
        BY AnswerIs
      <4>2. HeadLen \in 0..Len(b) /\ \A i \in 1..HeadLen : i \in 1..AnswerLen
        BY <4>1, Lengths
      <4>3. Len(Take(b, HeadLen)) = HeadLen /\ Take(b, HeadLen) \in Seq(Byte)
        BY <4>2, TakeDrop
      <4>4. \A i \in 1..HeadLen : Take(b, HeadLen)[i] = b[i]
        BY <4>2, TakeDrop, SMTT(60)
      <4>5. \A i \in 1..HeadLen : Take(b, HeadLen)[i] = Take(down[c], n)[i]
        <5> TAKE i \in 1..HeadLen
        <5>1. Take(b, HeadLen)[i] = <<c, r, i>>
          BY <4>1, <4>2, <4>4
        <5>2. Take(down[c], n)[i] = down[c][i]
          BY <1>5, <3>1
        <5>3. down[c][i] = <<c, r, i>>
          BY <3>3
        <5> QED
          BY <5>1, <5>2, <5>3
      <4>6. PICK s \in Seq(Byte), t \in Seq(Byte) :
              /\ s = Take(b, HeadLen) /\ t = Take(down[c], n)
              /\ Len(s) = Len(t) /\ \A i \in 1..Len(s) : s[i] = t[i]
        BY <1>5, <3>1, <4>3, <4>5
      <4>7. s = t
        BY <4>6, SeqEqual
      <4>8. Take(down[c], n) = Take(Answer(c, r), HeadLen)
        BY <4>6, <4>7
      <4> QED
        BY <4>8 DEF IsHead
    <3>5. replylen'[c] = BodyLen /\ clientPc'[c] = "body"
      BY <1>3, <1>4, <3>4
    <3>6. round'[c] > 0 /\ Len(received'[c]) = (round'[c] - 1) * AnswerLen + HeadLen
      BY <1>1, <1>5, <3>1, <3>2 DEF Asking
    <3> QED
      BY <3>5, <3>6 DEF Asking
  <2> QED
    BY <1>0, <1>1, <1>7, <2>1, <2>2, ReceiveStage
<1> QED
  BY <1>1, <1>2, <1>4, <1>5, <1>6, <1>7, OneConnection

(* A client in step receives the whole body. *)
LEMMA ReceiveBodyKeeps ==
  ASSUME IInv, NEW c \in Clients, ReceiveBody(c), UNCHANGED <<sessionVars, logicVars>>
  PROVE  IInv'
<1> PICK n \in 0..replylen[c] : Receive(c, replylen[c], n)
  BY DEF ReceiveBody
<1> PICK room \in Nat : room = replylen[c]
  <2>1. replylen[c] \in 0..MaxLength \cup {BodyLen}
    BY Functions DEF IInv
  <2>2. replylen[c] \in Nat
    BY <2>1, Lengths
  <2> QED
    BY <2>2
<1>0. n \in Nat
  OBVIOUS
<1>1. /\ clientPc[c] = "body" /\ UNCHANGED <<round, up>>
      /\ clientPc' = [clientPc EXCEPT ![c] = "send"] /\ replylen' = [replylen EXCEPT ![c] = 0]
  BY DEF ReceiveBody, Goto
<1>2. UNCHANGED <<_send_queue, written, refused, posted, handled, over>>
  BY DEF sessionVars, logicVars
<1>3. /\ clientPc'[c] = "send"
      /\ \A e \in Clients \ {c} : clientPc'[e] = clientPc[e] /\ replylen'[e] = replylen[e]
  BY <1>1, Functions DEF IInv
<1>4. /\ received' \in [Clients -> Seq(Byte)] /\ down' \in [Clients -> Seq(Byte)]
      /\ short' \subseteq Clients
      /\ Len(received'[c]) = Len(received[c]) + n
      /\ InStep(c)' => InStep(c) /\ n = room
      /\ \A e \in Clients \ {c} :
           /\ received'[e] = received[e] /\ down'[e] = down[e] /\ (e \in short' <=> e \in short)
  BY <1>0, Receives, ZenonT(60) DEF IInv
<1>5. Domains'
  <2>1. clientPc' \in [Clients -> {"idle", "send", "head", "body", "done", "failed"}]
    BY <1>1, Functions DEF IInv
  <2>2. replylen' \in [Clients -> 0..MaxLength \cup {BodyLen}]
    <3>1. 0 \in 0..MaxLength
      BY Lengths
    <3> QED
      BY <1>1, <3>1, Functions DEF IInv
  <2> QED
    BY <1>1, <1>2, <1>4, <2>1, <2>2 DEF IInv, Domains, TypeOK
<1>6. ASSUME NEW p \in 0..Rounds, NEW h \in 0..Rounds, NEW d \in 0..Rounds, Stage(c, p, h, d)
      PROVE  Stage(c, p, h, d)'
  <2>1. ~Stuck(c, h)
    BY <1>1 DEF Stuck
  <2>2. ASSUME InStep(c)', NoneRefused(c) PROVE Asking(c, d)'
    <3>1. InStep(c) /\ n = room
      BY <1>4, <2>2
    <3>2. /\ round[c] > 0 /\ room = BodyLen
          /\ Len(received[c]) = (round[c] - 1) * AnswerLen + HeadLen
      BY <1>1, <1>6, <2>2, <3>1 DEF Stage, Asking
    <3>3. Len(received'[c]) = round[c] * AnswerLen
      <4> PICK a \in Nat : a = AnswerLen /\ a # 0 /\ a = HeadLen + BodyLen
        BY Lengths
      <4> PICK r \in Nat : r = round[c] /\ r > 0
        BY <3>2, Lengths, Functions DEF IInv
      <4> PICK q \in Nat : r = q + 1 /\ r - 1 = q
        <5>1. r - 1 \in Nat /\ r = (r - 1) + 1
          OBVIOUS
        <5> QED
          BY <5>1
      <4>1. q * a \in Nat /\ r * a = q * a + a
        BY Multiples
      <4>2. PICK m \in Nat : m = q * a
        BY <4>1
      <4>3. Len(received'[c]) = (m + HeadLen) + BodyLen
        BY <1>4, <3>1, <3>2, <4>2
      <4>4. (m + HeadLen) + BodyLen = m + a
        BY Lengths
      <4> QED
        BY <4>1, <4>2, <4>3, <4>4
    <3> QED
      BY <1>1, <1>3, <3>3 DEF Asking
  <2> QED
    BY <1>0, <1>1, <1>6, <2>1, <2>2, ReceiveStage
<1> QED
  BY <1>1, <1>2, <1>3, <1>4, <1>5, <1>6, OneConnection

(* The next request of a client is the one after those handled. *)
LEMMA NextHandled ==
  ASSUME IInv, NEW c \in Clients, NEW p \in 0..Rounds, NEW h \in 0..Rounds, NEW k \in 1..Rounds,
         Routed(c, p, h), Len(handled) + 1 \in 1..Len(posted), posted[Len(handled) + 1] = <<c, k>>
  PROVE  k = h + 1 /\ k <= p
<1> PICK m \in Nat : m = Len(handled)
  BY LenProperties DEF IInv, Domains
<1> PICK l \in Nat : l = Len(posted)
  BY LenProperties DEF IInv, Domains
<1>0. /\ m + 1 \in 1..l /\ posted[m + 1] = <<c, k>> /\ posted[m + 1][1] = c /\ posted[m + 1][2] = k
      /\ p \in Nat /\ h \in Nat /\ h <= p /\ p <= Rounds /\ Rounds \in Nat
  BY Lengths DEF Routed
<1>1. \A i, j \in 1..l : i < j /\ posted[i][1] = posted[j][1] => posted[i][2] < posted[j][2]
  BY DEF IInv, Ordered
<1>2. \A i \in 1..m : handled[i] = posted[i] /\ i \in 1..l
  BY <1>0 DEF IInv, HandledPrefix
<1>3. \A j \in 1..Rounds : (\E i \in 1..l : posted[i] = <<c, j>>) <=> j <= p
  BY DEF Routed, Logged
<1>4. \A j \in 1..Rounds : (\E i \in 1..m : handled[i] = <<c, j>>) <=> j <= h
  BY DEF Routed, Logged
<1>5. k <= p
  BY <1>0, <1>3
<1>6. k > h
  <2> SUFFICES ASSUME k <= h PROVE FALSE
    BY <1>0
  <2>1. PICK i \in 1..m : handled[i] = <<c, k>>
    BY <1>4
  <2>2. posted[i] = <<c, k>> /\ posted[i][1] = c /\ posted[i][2] = k /\ i \in 1..l /\ i < m + 1
    BY <1>2, <2>1
  <2> QED
    BY <1>0, <1>1, <2>2
<1>7. k <= h + 1
  <2> SUFFICES ASSUME k > h + 1 PROVE FALSE
    BY <1>0
  <2>1. PICK j \in 1..Rounds : j = h + 1 /\ j < k /\ j <= p
    BY <1>0, <1>5
  <2>2. PICK i \in 1..l : posted[i] = <<c, j>>
    BY <1>3, <2>1
  <2>3. posted[i][1] = c /\ posted[i][2] = j
    BY <2>2
  <2>4. i \in 1..m
    <3> SUFFICES ASSUME i > m PROVE FALSE
      OBVIOUS
    <3>1. i # m + 1
      BY <1>0, <2>1, <2>3
    <3>2. m + 1 < i
      BY <3>1
    <3>3. k < j
      BY <1>0, <1>1, <2>3, <3>2
    <3> QED
      BY <2>1, <3>3
  <2>5. handled[i] = <<c, j>>
    BY <1>2, <2>2, <2>4
  <2>6. j <= h
    BY <1>4, <2>4, <2>5
  <2> QED
    BY <1>0, <2>1, <2>6
<1> QED
  BY <1>0, <1>5, <1>6, <1>7

(* A step of the worker: the answer to a request is queued at its session, *)
(* or dropped.                                                             *)
LEMMA Dispatched ==
  ASSUME IInv, Dispatch
  PROVE  \E c \in Clients, k \in 1..Rounds :
           /\ ~over /\ Len(handled) + 1 \in 1..Len(posted) /\ posted[Len(handled) + 1] = <<c, k>>
           /\ handled' = Append(handled, <<c, k>>)
           /\ UNCHANGED <<clientPc, round, replylen, received, short, up, down, written>>
           /\ UNCHANGED <<posted, over>>
           /\ \/ Full(c) /\ refused' = refused \cup {<<c, k>>} /\ UNCHANGED _send_queue
              \/ /\ ~Full(c) /\ UNCHANGED refused
                 /\ _send_queue' = [_send_queue EXCEPT ![c] = Append(_send_queue[c], k)]
<1> PICK m \in Nat : m = Len(handled)
  BY LenProperties DEF IInv, Domains
<1> PICK l \in Nat : l = Len(posted)
  BY LenProperties DEF IInv, Domains
<1>1. ~over /\ m < l /\ handled' = Append(handled, posted[m + 1]) /\ UNCHANGED <<posted, over>>
  BY DEF Dispatch, Logic!Deliver
<1>2. m + 1 \in 1..l
  BY <1>1
<1>3. posted[m + 1] \in LogicNodes
  BY <1>2 DEF IInv, Domains
<1>4. PICK c \in Clients, k \in 1..Rounds : posted[m + 1] = <<c, k>>
  BY <1>3 DEF LogicNodes
<1>5. Len(handled') = m + 1
  <2>1. handled \in Seq(LogicNodes)
    BY DEF IInv, Domains
  <2> QED
    BY <1>1, <1>3, <2>1, AppendProperties
<1>6. SessionSend(posted[m + 1][1], posted[m + 1][2])
  BY <1>5 DEF Dispatch
<1>7. SessionSend(c, k)
  BY <1>4, <1>6
<1>8. UNCHANGED <<clientPc, round, replylen, received, short, up, down>>
  BY DEF Dispatch, clientVars
<1> QED
  BY <1>1, <1>2, <1>4, <1>7, <1>8 DEF SessionSend

(* The logs after a step of the worker. *)
LEMMA HandledLog ==
  ASSUME IInv, NEW c \in Clients, NEW k \in 1..Rounds, NEW p \in 0..Rounds, NEW h \in 0..Rounds,
         Len(handled) + 1 \in 1..Len(posted), posted[Len(handled) + 1] = <<c, k>>,
         handled' = Append(handled, <<c, k>>), UNCHANGED posted, k = h + 1
  PROVE  /\ handled' \in Seq(LogicNodes) /\ HandledPrefix' /\ Ordered'
         /\ \A e \in Clients \ {c}, g \in 0..Rounds :
              Logged(handled, e, g) => Logged(handled', e, g)
         /\ Logged(handled, c, h) => Logged(handled', c, h + 1)
<1> PICK m \in Nat : m = Len(handled)
  BY LenProperties DEF IInv, Domains
<1> PICK l \in Nat : l = Len(posted)
  BY LenProperties DEF IInv, Domains
<1> PICK n \in LogicNodes : n = <<c, k>>
  <2>1. <<c, k>> \in LogicNodes
    BY DEF LogicNodes
  <2> QED
    BY <2>1
<1>1. handled \in Seq(LogicNodes)
  BY DEF IInv, Domains
<1>2. /\ handled' \in Seq(LogicNodes) /\ Len(handled') = m + 1
      /\ \A i \in 1..(m + 1) : handled'[i] = IF i <= m THEN handled[i] ELSE n
  BY <1>1, AppendProperties, SMTT(60)
<1>3. HandledPrefix'
  <2>1. m + 1 <= l /\ \A i \in 1..m : handled[i] = posted[i]
    BY DEF IInv, HandledPrefix
  <2>2. \A i \in 1..(m + 1) : handled'[i] = posted[i]
    <3> TAKE i \in 1..(m + 1)
    <3>1. CASE i \in 1..m
      BY <1>2, <2>1, <3>1
    <3>2. CASE i = m + 1
      <4>1. handled'[m + 1] = n
        BY <1>2
      <4>2. posted'[m + 1] = n
        OBVIOUS
      <4> QED
        BY <3>2, <4>1, <4>2
    <3> QED
      BY <3>1, <3>2
  <2> QED
    BY <1>2, <2>1, <2>2 DEF HandledPrefix
<1>4. Ordered'
  BY DEF IInv, Ordered
<1>5. \A e \in Clients, j \in 1..Rounds :
        (\E i \in 1..(m + 1) : handled'[i] = <<e, j>>)
        <=> (\E i \in 1..m : handled[i] = <<e, j>>) \/ (e = c /\ j = k)
  <2> TAKE e \in Clients, j \in 1..Rounds
  <2>1. \A i \in 1..m : handled'[i] = handled[i] /\ i \in 1..(m + 1)
    BY <1>2
  <2>2. handled'[m + 1] = <<c, k>> /\ m + 1 \in 1..(m + 1)
    BY <1>2
  <2>3. \A i \in 1..(m + 1) : i \in 1..m \/ i = m + 1
    OBVIOUS
  <2>4. ASSUME NEW i \in 1..(m + 1), handled'[i] = <<e, j>>
        PROVE  (\E o \in 1..m : handled[o] = <<e, j>>) \/ (e = c /\ j = k)
    <3>1. CASE i \in 1..m
      BY <2>1, <2>4, <3>1
    <3>2. CASE i = m + 1
      BY <2>2, <2>4, <3>2
    <3> QED
      BY <2>3, <3>1, <3>2
  <2>5. ASSUME NEW i \in 1..m, handled[i] = <<e, j>>
        PROVE  \E o \in 1..(m + 1) : handled'[o] = <<e, j>>
    BY <2>1, <2>5
  <2>6. ASSUME e = c, j = k PROVE \E o \in 1..(m + 1) : handled'[o] = <<e, j>>
    BY <2>2, <2>6
  <2> QED
    BY <2>4, <2>5, <2>6
<1>6. ASSUME NEW e \in Clients \ {c}, NEW g \in 0..Rounds, Logged(handled, e, g)
      PROVE  Logged(handled', e, g)
  <2>1. \A j \in 1..Rounds : (\E i \in 1..(m + 1) : handled'[i] = <<e, j>>)
                            <=> (\E i \in 1..m : handled[i] = <<e, j>>)
    BY <1>5
  <2> QED
    BY <1>2, <1>6, <2>1 DEF Logged
<1>7. ASSUME Logged(handled, c, h) PROVE Logged(handled', c, h + 1)
  <2> SUFFICES ASSUME NEW j \in 1..Rounds
               PROVE  (\E i \in 1..Len(handled') : handled'[i] = <<c, j>>) <=> j <= h + 1
    BY DEF Logged
  <2>1. j <= h + 1 <=> j <= h \/ j = k
    BY Lengths
  <2>2. (\E i \in 1..m : handled[i] = <<c, j>>) <=> j <= h
    BY <1>7 DEF Logged
  <2>3. (\E i \in 1..(m + 1) : handled'[i] = <<c, j>>)
        <=> (\E i \in 1..m : handled[i] = <<c, j>>) \/ j = k
    BY <1>5
  <2>4. Len(handled') = m + 1
    BY <1>2
  <2> QED
    BY <2>1, <2>2, <2>3, <2>4
<1> QED
  BY <1>2, <1>3, <1>4, <1>6, <1>7

(* The answer put in the queue is the next one. *)
LEMMA AnswerQueued ==
  ASSUME IInv, NEW c \in Clients, NEW h \in 0..Rounds, NEW d \in 0..Rounds,
         h + 1 \in 1..Rounds, Answered(c, h, d),
         UNCHANGED <<received, down, written>>,
         _send_queue' = [_send_queue EXCEPT ![c] = Append(_send_queue[c], h + 1)]
  PROVE  Answered(c, h + 1, d)'
<1> PICK k \in 1..Rounds : k = h + 1
  OBVIOUS
<1> PICK q \in Seq(1..Rounds) : q = _send_queue[c]
  BY Functions DEF IInv
<1> PICK l \in Nat : l = Len(q)
  BY LenProperties
<1> PICK u \in {0, 1} : u = Unpopped(c)
  BY DEF Unpopped
<1> PICK v : v = Append(q, k)
  OBVIOUS
<1>0. h \in Nat /\ d \in Nat
  BY Lengths
<1>1. _send_queue'[c] = v /\ Unpopped(c)' = u
  BY Functions DEF IInv, Unpopped
<1>2. /\ Len(v) = l + 1
      /\ \A i \in 1..(l + 1) : v[i] = IF i <= l THEN q[i] ELSE k
  BY AppendProperties
<1>3. d <= h /\ l + d = h + u /\ \A i \in 1..l : q[i] + u = d + i
  BY DEF Answered
<1>4. d <= h + 1 /\ l + 1 + d = h + 1 + u /\ k + u = d + (l + 1)
  BY <1>0, <1>3
<1>5. \A i \in 1..(l + 1) : v[i] + u = d + i
  <2> TAKE i \in 1..(l + 1)
  <2>1. CASE i \in 1..l
    BY <1>2, <1>3, <2>1
  <2>2. CASE i = l + 1
    BY <1>2, <1>4, <2>2
  <2> QED
    BY <2>1, <2>2, SMTT(60)
<1>6. (received[c] \o down[c] = SeqSum(c, d))'
  BY DEF Answered, SeqSum
<1> QED
  BY <1>1, <1>2, <1>4, <1>5, <1>6 DEF Answered

(* A client in step can lose an answer only where not even one may wait. *)
LEMMA AnswerDropped ==
  ASSUME IInv, NEW c \in Clients, NEW p \in 0..Rounds, NEW h \in 0..Rounds,
         NEW d \in 0..Rounds, Stage(c, p, h, d), InStep(c), NoneRefused(c),
         h + 1 <= p, ~over, Full(c)
  PROVE  /\ MAX_SENDQUE_SIZE = 0 /\ clientPc[c] = "head"
         /\ h + 1 = round[c] /\ down[c] = <<>> /\ Len(_send_queue[c]) = Unpopped(c)
<1> PICK q \in Seq(1..Rounds) : q = _send_queue[c]
  BY Functions DEF IInv
<1> PICK l \in Nat : l = Len(q)
  BY LenProperties
<1> PICK u \in {0, 1} : u = Unpopped(c)
  BY DEF Unpopped
<1> PICK r \in Nat : r = round[c]
  BY Functions, Lengths DEF IInv
<1> PICK a \in Nat \ {0} : a = AnswerLen
  BY Lengths
<1>0. h \in Nat /\ d \in Nat /\ p \in Nat
  BY Lengths
<1>1. r <= d + 1 /\ (clientPc[c] \in {"send", "done", "body"} => r = d)
  BY Behind
<1>2. d <= h /\ l + d = h + u /\ received[c] \o down[c] = SeqSum(c, d) /\ Asking(c, d)
  BY DEF Stage, Answered
<1>3. p <= r
  <2>1. up[c] \in Seq(1..Rounds)
    BY Functions DEF IInv
  <2>2. PICK n \in Nat : n = Len(up[c])
    BY <2>1, LenProperties
  <2>3. p + n = r
    BY <2>2 DEF Stage, Routed
  <2> QED
    BY <1>0, <2>3
<1>4. h = d /\ r = h + 1 /\ l = u
  BY <1>0, <1>1, <1>2, <1>3, SMTT(60)
<1>5. MAX_SENDQUE_SIZE = 0
  <2>1. PICK x \in Nat : x = MAX_SENDQUE_SIZE
    BY Lengths
  <2>2. l > x
    BY <2>1 DEF Full
  <2> QED
    BY <1>4, <2>1, <2>2
<1>6. clientPc[c] = "head"
  <2>1. clientPc[c] \in {"idle", "send", "head", "body", "done", "failed"}
    BY Functions DEF IInv
  <2>2. r # d /\ r # 0
    BY <1>0, <1>4
  <2>3. clientPc[c] \notin {"send", "done", "body"}
    BY <1>1, <2>2
  <2>4. clientPc[c] # "idle" /\ clientPc[c] # "failed"
    BY <1>2, <2>2 DEF Asking
  <2> QED
    BY <2>1, <2>3, <2>4
<1>7. down[c] = <<>>
  <2>1. PICK m \in Nat, n \in Nat : m = Len(received[c]) /\ n = Len(down[c]) /\ m + n = d * a
    BY <1>2, Received DEF IInv
  <2>2. m = (r - 1) * a
    BY <1>2, <1>6, <2>1 DEF Asking
  <2>3. r - 1 = d
    BY <1>0, <1>4
  <2>4. PICK x \in Nat : x = d * a
    BY <1>0
  <2>5. n = 0
    <3>1. m + n = x /\ m = x
      BY <2>1, <2>2, <2>3, <2>4
    <3> QED
      BY <3>1
  <2>6. down[c] \in Seq(Byte)
    BY Functions DEF IInv
  <2> QED
    BY <2>1, <2>5, <2>6, EmptySeq
<1> QED
  BY <1>4, <1>5, <1>6, <1>7

(* A request is handled after it was sent. *)
LEMMA Unhandled ==
  ASSUME IInv, NEW c \in Clients, NEW p \in 0..Rounds, NEW h \in 0..Rounds,
         Routed(c, p, h), h + 1 <= p
  PROVE  h # round[c]
<1>1. up[c] \in Seq(1..Rounds)
  BY Functions DEF IInv
<1>2. PICK n \in Nat : n = Len(up[c])
  BY <1>1, LenProperties
<1>3. p + n = round[c] /\ p \in Nat /\ h \in Nat
  BY <1>2, Lengths DEF Routed
<1> QED
  BY <1>3

(* A step of the worker. *)
LEMMA DispatchKeeps ==
  ASSUME IInv, Dispatch
  PROVE  IInv'
<1> PICK c \in Clients, k \in 1..Rounds :
           /\ ~over /\ Len(handled) + 1 \in 1..Len(posted) /\ posted[Len(handled) + 1] = <<c, k>>
           /\ handled' = Append(handled, <<c, k>>)
           /\ UNCHANGED <<clientPc, round, replylen, received, short, up, down, written>>
           /\ UNCHANGED <<posted, over>>
           /\ \/ Full(c) /\ refused' = refused \cup {<<c, k>>} /\ UNCHANGED _send_queue
              \/ /\ ~Full(c) /\ UNCHANGED refused
                 /\ _send_queue' = [_send_queue EXCEPT ![c] = Append(_send_queue[c], k)]
  BY Dispatched
<1>1. PICK p \in 0..Rounds, h \in 0..Rounds, d \in 0..Rounds : Stage(c, p, h, d)
  BY DEF IInv, Staged
<1>2. k = h + 1 /\ k <= p
  BY <1>1, NextHandled DEF Stage
<1>3. /\ handled' \in Seq(LogicNodes) /\ HandledPrefix' /\ Ordered'
      /\ \A e \in Clients \ {c}, g \in 0..Rounds :
              Logged(handled, e, g) => Logged(handled', e, g)
      /\ Logged(handled, c, h) => Logged(handled', c, h + 1)
  BY <1>2, HandledLog
<1>4. /\ \A e \in Clients \ {c} : _send_queue'[e] = _send_queue[e]
      /\ \A e \in Clients \ {c}, j \in 1..Rounds : <<e, j>> \in refused' <=> <<e, j>> \in refused
  BY Functions DEF IInv
<1>5. Domains'
  <2>1. _send_queue' \in [Clients -> Seq(1..Rounds)]
    <3>1. _send_queue \in [Clients -> Seq(1..Rounds)] /\ _send_queue[c] \in Seq(1..Rounds)
      BY Functions DEF IInv
    <3>2. Append(_send_queue[c], k) \in Seq(1..Rounds)
      BY <3>1, AppendProperties
    <3> QED
      BY <3>1, <3>2
  <2>2. written' \subseteq {e \in Clients : _send_queue'[e] # <<>>}
    <3>1. written \subseteq {e \in Clients : _send_queue[e] # <<>>}
      BY DEF IInv, Domains, TypeOK
    <3>2. _send_queue[c] # <<>> => _send_queue'[c] # <<>>
      <4>1. _send_queue[c] \in Seq(1..Rounds) /\ _send_queue'[c] \in Seq(1..Rounds)
        BY <2>1, Functions DEF IInv
      <4>2. _send_queue'[c] = _send_queue[c] \/ _send_queue'[c] = Append(_send_queue[c], k)
        BY Functions DEF IInv
      <4>3. Append(_send_queue[c], k) # <<>>
        BY <4>1, AppendProperties, EmptySeq, SMTT(60)
      <4> QED
        BY <4>2, <4>3
    <3> QED
      BY <1>4, <3>1, <3>2
  <2>3. refused' \subseteq LogicNodes
    <3>1. <<c, k>> \in LogicNodes /\ refused \subseteq LogicNodes
      BY DEF LogicNodes, IInv, Domains, TypeOK
    <3> QED
      BY <3>1
  <2>4. TypeOK'
    BY <2>2, <2>3 DEF IInv, Domains, TypeOK
  <2> QED
    BY <1>3, <2>1, <2>4 DEF IInv, Domains
<1>6. PICK g \in 0..Rounds : g = h + 1
  BY <1>2
<1>7. Stage(c, p, g, d)'
  <2>1. Routed(c, p, g)'
    BY <1>1, <1>2, <1>3, <1>6 DEF Stage, Routed
  <2>2. InStep(c) <=> InStep(c)'
    BY DEF InStep
  <2>3. CASE Full(c) /\ refused' = refused \cup {<<c, k>>} /\ UNCHANGED _send_queue
    <3>1. ~NoneRefused(c)'
      BY <2>3 DEF NoneRefused
    <3>2. ASSUME InStep(c), NoneRefused(c) PROVE Stuck(c, g)'
      <4>1. /\ MAX_SENDQUE_SIZE = 0 /\ clientPc[c] = "head"
            /\ h + 1 = round[c] /\ down[c] = <<>> /\ Len(_send_queue[c]) = Unpopped(c)
        BY <1>1, <1>2, <2>3, <3>2, AnswerDropped
      <4> QED
        BY <1>6, <2>3, <4>1 DEF Stuck, Unpopped
    <3>3. ASSUME InStep(c), ~NoneRefused(c) PROVE FALSE
      <4>1. h = round[c]
        BY <1>1, <3>3 DEF Stage, Stuck
      <4> QED
        BY <1>1, <1>2, <4>1, Unhandled DEF Stage
    <3> QED
      BY <2>1, <2>2, <3>1, <3>2, <3>3 DEF Stage
  <2>4. CASE /\ ~Full(c) /\ UNCHANGED refused
             /\ _send_queue' = [_send_queue EXCEPT ![c] = Append(_send_queue[c], k)]
    <3>1. NoneRefused(c) <=> NoneRefused(c)'
      BY <2>4 DEF NoneRefused
    <3>2. NoneRefused(c) => Answered(c, g, d)'
      <4>1. NoneRefused(c) => Answered(c, h, d)
        BY <1>1 DEF Stage
      <4> QED
        BY <1>2, <1>6, <2>4, <4>1, AnswerQueued
    <3>3. Asking(c, d) => Asking(c, d)'
      BY DEF Asking
    <3>4. ASSUME InStep(c), ~NoneRefused(c) PROVE FALSE
      <4>1. h = round[c]
        BY <1>1, <3>4 DEF Stage, Stuck
      <4> QED
        BY <1>1, <1>2, <4>1, Unhandled DEF Stage
    <3> QED
      BY <1>1, <2>1, <2>2, <3>1, <3>2, <3>3, <3>4 DEF Stage
  <2> QED
    BY <2>3, <2>4
<1>8. ASSUME NEW e \in Clients, e # c PROVE (\E q, o, f \in 0..Rounds : Stage(e, q, o, f))'
  <2>1. PICK q \in 0..Rounds, o \in 0..Rounds, f \in 0..Rounds : Stage(e, q, o, f)
    BY DEF IInv, Staged
  <2>2. Logged(posted', e, q) /\ Logged(handled', e, o)
    <3>1. Logged(posted, e, q) /\ Logged(handled, e, o)
      BY <2>1 DEF Stage, Routed
    <3> QED
      BY <1>3, <1>8, <3>1
  <2>3. Stage(e, q, o, f)'
    BY <1>4, <1>8, <2>1, <2>2, Unaffected
  <2> QED
    BY <2>3
<1>9. Staged'
  <2>1. (\E q, o, f \in 0..Rounds : Stage(c, q, o, f))'
    BY <1>7
  <2> QED
    BY <1>8, <2>1 DEF Staged
<1> QED
  BY <1>3, <1>5, <1>9 DEF IInv

(* The end of the server leaves every connection where it is, and so does a *)
(* stuttering step.                                                         *)
LEMMA EndKeeps ==
  ASSUME IInv, ServerEnds \/ UNCHANGED vars
  PROVE  IInv'
<1>1. /\ UNCHANGED <<clientPc, round, replylen, received, short, up, down>>
      /\ UNCHANGED <<_send_queue, written, refused, posted, handled>> /\ (over => over')
  BY DEF ServerEnds, Logic!Break, vars, clientVars, sessionVars, logicVars
<1>2. Domains' /\ HandledPrefix' /\ Ordered'
  BY <1>1 DEF IInv, Domains, TypeOK, HandledPrefix, Ordered
<1>3. ASSUME NEW e \in Clients PROVE (\E p, h, d \in 0..Rounds : Stage(e, p, h, d))'
  <2>1. PICK p \in 0..Rounds, h \in 0..Rounds, d \in 0..Rounds : Stage(e, p, h, d)
    BY DEF IInv, Staged
  <2>2. Logged(posted', e, p) /\ Logged(handled', e, h)
    BY <1>1, <2>1 DEF Stage, Routed
  <2>3. Stage(e, p, h, d)'
    BY <1>1, <2>1, <2>2, Unaffected
  <2> QED
    BY <2>3
<1> QED
  BY <1>2, <1>3 DEF IInv, Staged

(* Every step of a client keeps the invariant. *)
LEMMA ClientKeeps ==
  ASSUME IInv, NEW c \in Clients, Client(c)
  PROVE  IInv'
<1>1. UNCHANGED <<sessionVars, logicVars>>
  BY DEF Client
<1>2. CASE Connect(c)
  BY <1>1, <1>2, ConnectKeeps
<1>3. CASE Send(c)
  BY <1>1, <1>3, DoneKeeps, AskKeeps
<1>4. CASE ReceiveHead(c)
  BY <1>1, <1>4, ReceiveHeadKeeps
<1>5. CASE ReceiveBody(c)
  BY <1>1, <1>5, ReceiveBodyKeeps
<1>6. CASE ClientFails(c)
  BY <1>1, <1>6, FailKeeps
<1> QED
  BY <1>2, <1>3, <1>4, <1>5, <1>6 DEF Client

(* Every step keeps the invariant. *)
LEMMA StepKeeps ==
  ASSUME IInv, [Next]_vars
  PROVE  IInv'
<1>1. CASE \E c \in Clients : Client(c)
  BY <1>1, ClientKeeps
<1>2. CASE \E c \in Clients : HandleRead(c)
  BY <1>2, HandleReadKeeps
<1>3. CASE \E c \in Clients : Write(c)
  BY <1>3, WriteKeeps
<1>4. CASE \E c \in Clients : HandleWrite(c)
  BY <1>4, HandleWriteKeeps
<1>5. CASE Dispatch
  BY <1>5, DispatchKeeps
<1>6. CASE ServerEnds
  BY <1>6, EndKeeps
<1>7. CASE UNCHANGED vars
  BY <1>7, EndKeeps
<1> QED
  BY <1>1, <1>2, <1>3, <1>4, <1>5, <1>6, <1>7 DEF Next

(* The inductive invariant holds in every state. *)
LEMMA Inductive == Spec => []IInv
<1>1. Init => IInv
  BY InitHolds
<1>2. IInv /\ [Next]_vars => IInv'
  BY StepKeeps
<1> QED
  BY <1>1, <1>2, PTL DEF Spec

(* What the client has received and what it has not are the first answers *)
(* to it, as many as were written.                                        *)
LEMMA FirstBytes ==
  ASSUME NEW c \in Clients, NEW d \in 0..Rounds, NEW bytes, bytes = SeqSum(c, d)
  PROVE  bytes = Take(SeqSum(c, Rounds), Len(bytes))
<1> PICK a \in Nat \ {0} : a = AnswerLen
  BY Lengths
<1> PICK n \in Nat : n = d * a
  BY Lengths
<1>1. /\ bytes \in Seq(Byte) /\ Len(bytes) = n
      /\ \A i \in 1..n : bytes[i] = SeqSum(c, Rounds)[i]
  BY SeqSumIs
<1>2. SeqSum(c, Rounds) \in Seq(Byte) /\ Len(SeqSum(c, Rounds)) = Rounds * a
  <2>1. Rounds \in 0..Rounds
    BY Lengths
  <2> QED
    BY <2>1, SeqSumIs
<1>3. n <= Rounds * a
  BY Lengths, Multiples
<1>4. n \in 0..Len(SeqSum(c, Rounds))
  BY <1>2, <1>3, Lengths
<1> PICK s \in Seq(Byte) : s = SeqSum(c, Rounds)
  BY <1>2
<1> PICK t : t = Take(s, n)
  OBVIOUS
<1>5. t \in Seq(Byte) /\ Len(t) = n /\ \A i \in 1..n : t[i] = s[i]
  <2>1. n \in 0..Len(s)
    BY <1>4
  <2> QED
    BY <2>1, TakeDrop
<1>6. bytes = t
  BY <1>1, <1>5, SeqEqual
<1> QED
  BY <1>1, <1>6

(* Where the client is about to send, everything asked for has come. *)
LEMMA AllCame ==
  ASSUME IInv, NEW c \in Clients, NEW p \in 0..Rounds, NEW h \in 0..Rounds,
         NEW d \in 0..Rounds, Stage(c, p, h, d), InStep(c), clientPc[c] = "send"
  PROVE  received[c] = SeqSum(c, round[c]) /\ up[c] = <<>> /\ down[c] = <<>>
<1> PICK r \in Nat : r = round[c] /\ r \in 0..Rounds
  BY Functions, Lengths DEF IInv
<1> PICK a \in Nat \ {0} : a = AnswerLen
  BY Lengths
<1> PICK n \in Nat : n = Len(up[c]) /\ up[c] \in Seq(1..Rounds)
  BY Functions, LenProperties DEF IInv
<1>1. NoneRefused(c)
  BY DEF Stage, Stuck
<1>2. r = d /\ r \in Nat
  BY <1>1, Behind
<1>3. d <= h /\ received[c] \o down[c] = SeqSum(c, d) /\ Asking(c, d)
  BY <1>1 DEF Stage, Answered
<1>4. h <= p /\ p + n = r
  BY DEF Stage, Routed
<1>5. n = 0
  BY <1>2, <1>3, <1>4, Lengths
<1>6. up[c] = <<>>
  BY <1>5, EmptySeq
<1>7. received[c] \in Seq(Byte) /\ down[c] \in Seq(Byte)
  BY Functions DEF IInv
<1>8. down[c] = <<>>
  <2>1. PICK m \in Nat, l \in Nat : m = Len(received[c]) /\ l = Len(down[c]) /\ m + l = d * a
    BY <1>3, Received DEF IInv
  <2>2. m = d * a
    BY <1>2, <1>3, <2>1 DEF Asking
  <2>3. PICK x \in Nat : x = d * a
    BY <1>2
  <2>4. l = 0
    <3>1. m + l = x /\ m = x
      BY <2>1, <2>2, <2>3
    <3> QED
      BY <3>1
  <2> QED
    BY <1>7, <2>1, <2>4, EmptySeq
<1>9. received[c] = SeqSum(c, d)
  BY <1>3, <1>7, <1>8, ConcatEmptySeq
<1> QED
  BY <1>2, <1>6, <1>8, <1>9

(* A client in step has two answers at most in its session's queue: the one *)
(* it waits for, behind one written and not yet taken from the queue.       *)
LEMMA TwoAtMost ==
  ASSUME IInv, NEW c \in Clients, NEW p \in 0..Rounds, NEW h \in 0..Rounds,
         NEW d \in 0..Rounds, Stage(c, p, h, d), InStep(c)
  PROVE  Len(_send_queue[c]) <= 2
<1> PICK l \in Nat : l = Len(_send_queue[c])
  BY Functions, LenProperties DEF IInv
<1> PICK u \in {0, 1} : u = Unpopped(c)
  BY DEF Unpopped
<1> PICK r \in Nat : r = round[c]
  BY Functions, Lengths DEF IInv
<1> PICK n \in Nat : n = Len(up[c])
  BY Functions, LenProperties DEF IInv
<1>1. CASE ~NoneRefused(c)
  <2>1. l = u
    BY <1>1 DEF Stage, Stuck
  <2> QED
    BY <2>1
<1>2. CASE NoneRefused(c)
  <2>1. r <= d + 1
    BY <1>2, Behind
  <2>2. l + d = h + u /\ h <= p /\ p + n = r
    BY <1>2 DEF Stage, Answered, Routed
  <2>3. h \in Nat /\ d \in Nat /\ p \in Nat
    BY Lengths
  <2> QED
    BY <2>1, <2>2, <2>3
<1> QED
  BY <1>1, <1>2

(* What the invariant says of the clients in step. *)
LEMMA InvConsistent == IInv => Consistent
<1> SUFFICES ASSUME IInv PROVE Consistent
  OBVIOUS
<1>1. TypeOK
  BY DEF IInv, Domains
<1>2. ASSUME NEW c \in Clients, InStep(c)
      PROVE  /\ Len(_send_queue[c]) <= 2
             /\ MAX_SENDQUE_SIZE > 0 => \A k \in 1..Rounds : <<c, k>> \notin refused
             /\ clientPc[c] = "send" =>
                  /\ received[c] = SeqSum(c, round[c])
                  /\ up[c] = <<>> /\ down[c] = <<>>
  <2>1. PICK p \in 0..Rounds, h \in 0..Rounds, d \in 0..Rounds : Stage(c, p, h, d)
    BY DEF IInv, Staged
  <2>2. Len(_send_queue[c]) <= 2
    BY <1>2, <2>1, TwoAtMost
  <2>3. MAX_SENDQUE_SIZE > 0 => NoneRefused(c)
    <3>1. ~NoneRefused(c) => MAX_SENDQUE_SIZE = 0
      BY <1>2, <2>1 DEF Stage, Stuck
    <3> QED
      BY <3>1
  <2>4. clientPc[c] = "send" =>
          received[c] = SeqSum(c, round[c]) /\ up[c] = <<>> /\ down[c] = <<>>
    BY <1>2, <2>1, AllCame
  <2> QED
    BY <2>2, <2>3, <2>4 DEF NoneRefused
<1> QED
  BY <1>1, <1>2 DEF Consistent, Lockstep

(* What the invariant says of the bytes of every client. *)
LEMMA InvOwnAnswers == IInv => OwnAnswers
<1> SUFFICES ASSUME IInv, NEW c \in Clients, NoneRefused(c)
             PROVE  received[c] \o down[c]
                      = Take(SeqSum(c, Rounds), Len(received[c] \o down[c]))
  BY DEF OwnAnswers, NoneRefused
<1>1. PICK p \in 0..Rounds, h \in 0..Rounds, d \in 0..Rounds : Stage(c, p, h, d)
  BY DEF IInv, Staged
<1>2. received[c] \o down[c] = SeqSum(c, d)
  BY <1>1 DEF Stage, Answered
<1> QED
  BY <1>2, FirstBytes

(* Clients, sessions and the shared queue agree, for any number of clients *)
(* and rounds: a client whose receives all return what they asked for has  *)
(* everything it asked for when it asks again, never more than two answers *)
(* in its session's queue, and none refused.                               *)
THEOREM ClientsInStep == Spec => []Consistent
  BY Inductive, InvConsistent, PTL

(* What a client has received and is about to receive are the answers to   *)
(* its own requests, in their order, none twice, whatever the other        *)
(* clients do and however its receives are cut.                            *)
THEOREM OwnAnswersHold == Spec => []OwnAnswers
  BY Inductive, InvOwnAnswers, PTL
=============================================================================
