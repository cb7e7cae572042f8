-------------------------- MODULE FrameStream_proofs --------------------------
(***************************************************************************)
(* Proofs about FrameStream, for any envelopes, any MAX_FRAME and any      *)
(* number of frames: bytes in arbitrary pieces become a queue of whole     *)
(* frames.                                                                 *)
(***************************************************************************)
EXTENDS FrameStream, SequenceTheorems, TLAPS

Byte == 0..255

\* Lengths that fit a signed word.
Word == {n \in Nat : n <= 2147483647}

----------------------------------------------------------------------------
(* The length before a frame.                                              *)

LEMMA BodyIs ==
  ASSUME NEW body \in Body
  PROVE  /\ body \in Seq(Byte) /\ Len(body) \in Nat /\ Len(body) >= 1
         /\ Len(body) <= MaxFrame => Len(body) \in Word
<1>1. body \in Seq(Byte) /\ body # <<>>
  BY SMT, FrameAssumption DEF Byte
<1>2. Len(body) \in Nat /\ Len(body) >= 1
  BY <1>1
<1>3. Len(body) <= MaxFrame => Len(body) \in Word
  BY <1>2, SMT, FrameAssumption DEF Word
<1> QED
  BY <1>1, <1>2, <1>3

\* struct.pack gives four bytes ...
LEMMA PackIs ==
  ASSUME NEW n \in Word
  PROVE  Pack(n) \in Seq(Byte) /\ Len(Pack(n)) = 4
<1>1. /\ n \div 16777216 \in Byte /\ (n \div 65536) % 256 \in Byte
      /\ (n \div 256) % 256 \in Byte /\ n % 256 \in Byte
  BY SMT DEF Byte, Word
<1> HIDE DEF Byte
<1> QED
  BY <1>1, SMT DEF Pack

\* ... from which struct.unpack finds the length again.
LEMMA UnpackPack ==
  ASSUME NEW n \in Word
  PROVE  Unpack(Pack(n)) = n
<1>1. 16777216 * (n \div 16777216) + 65536 * ((n \div 65536) % 256)
      + 256 * ((n \div 256) % 256) + (n % 256) = n
  BY SMT DEF Word
<1> QED
  BY <1>1, SMT DEF Pack, Unpack

----------------------------------------------------------------------------
(* The inductive invariant.                                                *)

\* Where the frame j begins, or will begin.
Begin(j) == IF j <= Len(sent) THEN starts[j] ELSE Len(line)

\* The frame i stands on the line, from its length to its last byte.
FrameAt(i) ==
  /\ Len(sent[i]) <= MaxFrame
  /\ Begin(i + 1) = starts[i] + 4 + Len(sent[i]) /\ Begin(i + 1) <= Len(line)
  /\ SubSeq(line, starts[i] + 1, starts[i] + 4) = Pack(Len(sent[i]))
  /\ SubSeq(line, starts[i] + 5, starts[i] + 4 + Len(sent[i])) = sent[i]

Layout ==
  /\ line \in Seq(Byte) /\ sent \in Seq(Body) /\ starts \in Seq(Nat)
  /\ Len(starts) = Len(sent)
  /\ Begin(1) = 0
  /\ \A i \in 1..Len(sent) : FrameAt(i)

Progress ==
  /\ written \in Nat /\ written <= Len(line) /\ taken \in Nat /\ taken <= written
  /\ sender \in {"open", "closed"}

\* What recv_frame has in hand is the beginning of the length, or of the envelope,
\* of the next frame.
Reading ==
  /\ rpc \in {"header", "body", "failed"}
  /\ want \in Nat /\ have \in Nat /\ have <= taken
  /\ Receiving => have < want
  /\ Len(got) <= Len(sent) /\ got = SubSeq(sent, 1, Len(got))
  /\ rpc = "header" => want = 4 /\ taken - have = Begin(Len(got) + 1)
  /\ rpc = "body" =>
       /\ Len(got) < Len(sent) /\ want = Len(sent[Len(got) + 1])
       /\ taken - have = starts[Len(got) + 1] + 4

IInv == Layout /\ Progress /\ Reading /\ got \in Seq(Body)

LEMMA TypesFollow == IInv => TypeOK
  BY DEF IInv, Layout, Progress, Reading, TypeOK, Byte

----------------------------------------------------------------------------
(* Sending.                                                                *)

LEMMA Joined ==
  ASSUME NEW B, NEW s \in Seq(B), NEW t \in Seq(B)
  PROVE  s \o t \in Seq(B) /\ Len(s \o t) = Len(s) + Len(t)
  BY SMT

\* `new` is s, then the four bytes p, then b.
Frames(new, s, p, b) ==
  /\ new \in Seq(Byte) /\ Len(new) = Len(s) + 4 + Len(b)
  /\ SubSeq(new, Len(s) + 1, Len(s) + 4) = p
  /\ SubSeq(new, Len(s) + 5, Len(s) + 4 + Len(b)) = b
  /\ \A m, n \in 1..Len(s) : SubSeq(new, m, n) = SubSeq(s, m, n)

LEMMA Appended ==
  ASSUME NEW s \in Seq(Byte), NEW p \in Seq(Byte), Len(p) = 4,
         NEW b \in Seq(Byte), Len(b) >= 1
  PROVE  Frames((s \o p) \o b, s, p, b)
<1> DEFINE new == (s \o p) \o b
           t == p \o b
           L == Len(s)
<1>1. new = s \o t
  <2>1. (s \o p) \o b = s \o (p \o b)
    BY SMTT(60), ConcatAssociative
  <2> QED
    BY <2>1
<1>2. L \in Nat /\ Len(b) \in Nat
  OBVIOUS
<1>3. t \in Seq(Byte) /\ Len(t) = 4 + Len(b)
  <2>1. (p \o b) \in Seq(Byte) /\ Len(p \o b) = Len(p) + Len(b)
    BY ConcatProperties, ZenonT(60)
  <2> QED
    BY <2>1
<1>4. SubSeq(t, 1, 4) = p
  <2>1. 1 \in 1..Len(p) /\ 4 \in 1..Len(p)
    OBVIOUS
  <2>2. SubSeq(t, 1, 4) = SubSeq(p, 1, 4)
    BY <2>1, SubSeqOfConcat1
  <2>3. SubSeq(p, 1, 4) = p
    BY SubSeqFull
  <2> QED
    BY <2>2, <2>3
<1>5. SubSeq(t, 5, 4 + Len(b)) = b
  <2> DEFINE n == 4 + Len(b)
  <2>1. 5 \in (Len(p) + 1)..(Len(p) + Len(b)) /\ n \in (Len(p) + 1)..(Len(p) + Len(b))
    BY <1>2
  <2>2. 5 - Len(p) = 1 /\ n - Len(p) = Len(b)
    BY <1>2
  <2> HIDE DEF n
  <2>3. SubSeq(t, 5, n) = SubSeq(b, 5 - Len(p), n - Len(p))
    BY <2>1, SubSeqOfConcat2
  <2>4. SubSeq(b, 1, Len(b)) = b
    BY SubSeqFull
  <2> QED
    BY <2>2, <2>3, <2>4 DEF n
<1> HIDE DEF t, L, new
<1>6. new \in Seq(Byte) /\ Len(new) = L + 4 + Len(b)
  <2>1. new \in Seq(Byte) /\ Len(new) = L + Len(t)
    <3>1. s \o t \in Seq(Byte) /\ Len(s \o t) = Len(s) + Len(t)
      BY <1>3, Joined
    <3> QED
      BY <1>1, <3>1 DEF L
  <2>2. Len(new) = L + 4 + Len(b)
    BY <1>2, <1>3, <2>1
  <2> QED
    BY <2>1, <2>2
<1>7. \A m, n \in 1..L : SubSeq(new, m, n) = SubSeq(s, m, n)
  BY <1>1, <1>3, SubSeqOfConcat1 DEF L
<1>8. ASSUME NEW m \in 1..Len(t), NEW n \in 1..Len(t)
      PROVE  SubSeq(new, L + m, L + n) = SubSeq(t, m, n)
  <2> DEFINE x == L + m
             y == L + n
  <2>1. x \in (L + 1)..(L + Len(t)) /\ y \in (L + 1)..(L + Len(t)) /\ x - L = m /\ y - L = n
    BY <1>2, <1>3
  <2> HIDE DEF x, y
  <2>2. SubSeq(new, x, y) = SubSeq(t, x - L, y - L)
    BY <1>1, <1>3, <2>1, SubSeqOfConcat2 DEF L
  <2> QED
    BY <2>1, <2>2 DEF x, y
<1>9. SubSeq(new, L + 1, L + 4) = p
  <2>1. 1 \in 1..Len(t) /\ 4 \in 1..Len(t)
    BY <1>2, <1>3
  <2>2. SubSeq(new, L + 1, L + 4) = SubSeq(t, 1, 4)
    BY <1>8, <2>1
  <2> QED
    BY <1>4, <2>2
<1>10. SubSeq(new, L + 5, L + 4 + Len(b)) = b
  <2>1. 5 \in 1..Len(t) /\ 4 + Len(b) \in 1..Len(t) /\ L + (4 + Len(b)) = L + 4 + Len(b)
    BY <1>2, <1>3
  <2>2. SubSeq(new, L + 5, L + (4 + Len(b))) = SubSeq(t, 5, 4 + Len(b))
    BY <1>8, <2>1
  <2> QED
    BY <1>5, <2>1, <2>2
<1> QED
  BY <1>6, <1>7, <1>9, <1>10 DEF L, new, Frames

\* A frame is put behind what is on the line.
LEMMA SendFrameStep ==
  ASSUME IInv, NEW body \in Body, SendFrame(body)
  PROVE  IInv'
<1> PICK N, L : N = Len(sent) /\ L = Len(line)
  OBVIOUS
<1> DEFINE pack == Pack(Len(body))
<1>1. /\ line' = line \o pack \o body /\ Len(body) <= MaxFrame
      /\ sent' = Append(sent, body) /\ starts' = Append(starts, Len(line))
      /\ UNCHANGED <<written, sender, taken, rpc, want, have, got>>
  BY DEF SendFrame, Fits, recvVars
<1>2. /\ body \in Seq(Byte) /\ Len(body) \in Nat /\ Len(body) >= 1
      /\ pack \in Seq(Byte) /\ Len(pack) = 4
  BY <1>1, BodyIs, PackIs
<1>3. line \in Seq(Byte) /\ L \in Nat /\ N \in Nat /\ sent \in Seq(Body) /\ starts \in Seq(Nat)
      /\ Len(starts) = N
  BY DEF IInv, Layout
<1> HIDE DEF pack
<1> DEFINE longer == (line \o pack) \o body
<1>4. line' = longer
  BY <1>1
<1>5. Frames(longer, line, pack, body)
  <2>1. /\ line \in Seq(Byte) /\ pack \in Seq(Byte) /\ Len(pack) = 4
        /\ body \in Seq(Byte) /\ Len(body) >= 1
    BY <1>2, <1>3
  <2> QED
    BY <2>1, Appended, Zenon
<1> HIDE DEF longer
<1>6. /\ line' \in Seq(Byte) /\ Len(line') = L + 4 + Len(body)
      /\ SubSeq(line', L + 1, L + 4) = pack
      /\ SubSeq(line', L + 5, L + 4 + Len(body)) = body
      /\ \A m, n \in 1..L : SubSeq(line', m, n) = SubSeq(line, m, n)
  BY <1>4, <1>5 DEF Frames
<1>7. /\ sent' \in Seq(Body) /\ Len(sent') = N + 1 /\ sent'[N + 1] = body
      /\ starts' \in Seq(Nat) /\ Len(starts') = N + 1 /\ starts'[N + 1] = L
      /\ \A i \in 1..N : sent'[i] = sent[i] /\ starts'[i] = starts[i]
  BY <1>1, <1>3, AppendProperties
<1>8. /\ \A j \in 1..(N + 1) : Begin(j)' = Begin(j)
      /\ Begin(N + 2)' = L + 4 + Len(body)
  BY <1>3, <1>6, <1>7 DEF Begin
<1>9. ASSUME NEW i \in 1..N PROVE FrameAt(i)'
  <2>1. FrameAt(i) /\ starts[i] \in Nat /\ sent[i] \in Body
    BY <1>3 DEF IInv, Layout
  <2>2. Len(sent[i]) \in Nat /\ Len(sent[i]) >= 1
    BY <2>1, BodyIs
  <2>3. Begin(i + 1) = starts[i] + 4 + Len(sent[i]) /\ Begin(i + 1) <= L
    BY <2>1 DEF FrameAt
  <2>4. /\ starts[i] + 1 \in 1..L /\ starts[i] + 4 \in 1..L
        /\ starts[i] + 5 \in 1..L /\ starts[i] + 4 + Len(sent[i]) \in 1..L
    <3> DEFINE a == starts[i]
               k == Len(sent[i])
    <3>1. a \in Nat /\ k \in Nat /\ k >= 1 /\ a + 4 + k <= L
      BY <2>1, <2>2, <2>3
    <3> HIDE DEF a, k
    <3>2. a + 1 \in 1..L /\ a + 4 \in 1..L /\ a + 5 \in 1..L /\ a + 4 + k \in 1..L
      BY <1>3, <3>1
    <3> QED
      BY <3>2 DEF a, k
  <2>5. SubSeq(line', starts[i] + 1, starts[i] + 4) = SubSeq(line, starts[i] + 1, starts[i] + 4)
    BY <1>6, <2>4
  <2>6. SubSeq(line', starts[i] + 5, starts[i] + 4 + Len(sent[i]))
          = SubSeq(line, starts[i] + 5, starts[i] + 4 + Len(sent[i]))
    BY <1>6, <2>4
  <2>7. Begin(i + 1)' = Begin(i + 1) /\ sent'[i] = sent[i] /\ starts'[i] = starts[i]
    BY <1>3, <1>7, <1>8
  <2>8. Begin(i + 1)' <= Len(line')
    BY SMTT(30), <1>2, <1>3, <1>6, <2>1, <2>2, <2>3, <2>7
  <2> QED
    BY <2>1, <2>5, <2>6, <2>7, <2>8 DEF FrameAt
<1>10. FrameAt(N + 1)'
  <2>1. Begin((N + 1) + 1)' = L + 4 + Len(body)
    BY <1>3, <1>8
  <2>2. sent'[N + 1] = body /\ starts'[N + 1] = L
    BY <1>7
  <2>3. Len(body) <= MaxFrame
    BY <1>1
  <2> QED
    BY <1>6, <2>1, <2>2, <2>3 DEF FrameAt, pack
<1>11. Layout'
  <2>1. Begin(1)' = 0
    BY <1>3, <1>8 DEF IInv, Layout
  <2>2. 1..Len(sent') = (1..N) \union {N + 1}
    BY <1>3, <1>7
  <2> QED
    BY <1>6, <1>7, <1>9, <1>10, <2>1, <2>2 DEF Layout
<1>12. Progress'
  BY <1>1, <1>2, <1>3, <1>5 DEF IInv, Progress
<1>13. Reading'
  <2>1. Reading /\ got \in Seq(Body) /\ Len(got) \in Nat /\ Len(got) <= N
    BY DEF IInv, Reading
  <2>2. SubSeq(sent', 1, Len(got)) = SubSeq(sent, 1, Len(got))
    <3>1. CASE Len(got) = 0
      BY <1>3, <1>7, <3>1, SubSeqEmpty
    <3>2. CASE Len(got) >= 1
      <4>1. sent' = sent \o <<body>>
        BY <1>1, <1>3, AppendIsConcat
      <4>2. <<body>> \in Seq(Body) /\ 1 \in 1..Len(sent) /\ Len(got) \in 1..Len(sent)
        BY <1>3, <2>1, <3>2
      <4> QED
        BY <1>3, <4>1, <4>2, SubSeqOfConcat1
    <3> QED
      BY <2>1, <3>1, <3>2
  <2>3. Begin(Len(got) + 1)' = Begin(Len(got) + 1)
    BY <1>1, <1>3, <1>8, <2>1
  <2>4. rpc = "body" => sent'[Len(got) + 1] = sent[Len(got) + 1]
                        /\ starts'[Len(got) + 1] = starts[Len(got) + 1]
    <3>1. rpc = "body" => Len(got) + 1 \in 1..N
      BY <1>3 DEF IInv, Reading
    <3> QED
      BY <1>7, <3>1
  <2>5. /\ rpc' = rpc /\ want' = want /\ have' = have /\ taken' = taken /\ got' = got
        /\ Len(sent') = N + 1
    BY <1>1, <1>3, <1>7
  <2>6. Len(got') <= Len(sent') /\ got' = SubSeq(sent', 1, Len(got'))
    BY <1>3, <2>1, <2>2, <2>5 DEF Reading
  <2>7. rpc' = "header" => want' = 4 /\ taken' - have' = Begin(Len(got) + 1)'
    BY <2>1, <2>3, <2>5 DEF Reading
  <2>8. rpc' = "body" => /\ Len(got') < Len(sent') /\ want' = Len(sent'[Len(got') + 1])
                         /\ taken' - have' = starts'[Len(got') + 1] + 4
    BY <1>3, <2>1, <2>4, <2>5 DEF Reading
  <2> QED
    BY SMTT(30), <2>1, <2>5, <2>6, <2>7, <2>8 DEF Reading, Receiving
<1> QED
  BY <1>1, <1>11, <1>12, <1>13 DEF IInv

\* send_frame refuses, writes some of its bytes, or the sender goes away.
LEMMA SendOtherStep ==
  ASSUME IInv, (\E body \in Body : SendTooLarge(body)) \/ Write \/ Close
  PROVE  IInv'
<1>1. /\ UNCHANGED <<line, sent, starts, taken, rpc, want, have, got>>
      /\ written' \in Nat /\ written <= written' /\ written' <= Len(line)
      /\ sender' \in {"open", "closed"}
  BY DEF IInv, Layout, Progress, SendTooLarge, Write, Close, recvVars
<1>2. Layout'
  <2>1. \A j : Begin(j)' = Begin(j)
    BY <1>1 DEF Begin
  <2>2. \A i : FrameAt(i) => FrameAt(i)'
    BY <1>1, <2>1 DEF FrameAt
  <2> QED
    BY <1>1, <2>1, <2>2 DEF IInv, Layout
<1>3. Progress'
  BY <1>1 DEF IInv, Progress
<1>4. Reading'
  <2>1. \A j : Begin(j)' = Begin(j)
    BY <1>1 DEF Begin
  <2>2. Begin(Len(got) + 1)' = Begin(Len(got) + 1)
    BY <1>1, <2>1
  <2> QED
    BY <1>1, <2>2 DEF IInv, Reading, Receiving
<1> QED
  BY <1>1, <1>2, <1>3, <1>4 DEF IInv

----------------------------------------------------------------------------
(* Receiving.                                                              *)

\* recv_frame leaves the line as it is.
LEMMA LayoutStays ==
  ASSUME Layout, UNCHANGED <<line, sent, starts>>
  PROVE  Layout' /\ \A j : Begin(j)' = Begin(j)
<1>1. \A j : Begin(j)' = Begin(j)
  BY DEF Begin
<1>2. \A i : FrameAt(i) => FrameAt(i)'
  BY <1>1 DEF FrameAt
<1> QED
  BY <1>1, <1>2 DEF Layout

\* _recv_exact has a piece, and not yet all it was asked for.
LEMMA RecvPartStep ==
  ASSUME IInv, RecvPart
  PROVE  IInv'
<1>1. PICK n \in 1..(written - taken) :
        Piece(n) /\ have + n # want /\ taken' = taken + n /\ have' = have + n
  BY DEF RecvPart
<1>2. UNCHANGED <<line, written, sender, sent, starts, rpc, want, got>>
  BY DEF RecvPart, sendVars
<1>3. Layout' /\ \A j : Begin(j)' = Begin(j)
  BY <1>2, LayoutStays DEF IInv
<1>4. Progress'
  BY <1>1, <1>2 DEF IInv, Progress
<1>5. Reading'
  <2>1. Begin(Len(got) + 1)' = Begin(Len(got) + 1)
    BY <1>2, <1>3
  <2>2. n \in Nat /\ n <= want - have /\ Receiving
    BY <1>1 DEF Piece, Asks
  <2>3. taken' - have' = taken - have /\ have' < want' /\ have' \in Nat /\ have' <= taken'
    BY <1>1, <1>2, <2>2 DEF IInv, Progress, Reading
  <2> QED
    BY <1>2, <2>1, <2>3 DEF IInv, Reading, Receiving
<1> QED
  BY <1>2, <1>3, <1>4, <1>5 DEF IInv

\* The connection ends or falls silent.
LEMMA RecvFailsStep ==
  ASSUME IInv, RecvFails
  PROVE  IInv'
<1>1. /\ UNCHANGED <<line, written, sender, sent, starts, taken, want, have, got>>
      /\ rpc' = "failed"
  BY DEF RecvFails, sendVars
<1>2. Layout'
  BY <1>1, LayoutStays DEF IInv
<1>3. Progress' /\ Reading'
  BY <1>1 DEF IInv, Progress, Reading, Receiving
<1> QED
  BY <1>1, <1>2, <1>3 DEF IInv

\* The four bytes that complete a header are the length of the next frame sent.
LEMMA HeaderRead ==
  ASSUME IInv, rpc = "header", NEW n \in Nat, taken + n <= written, have + n = want
  PROVE  /\ Len(got) + 1 \in 1..Len(sent)
         /\ taken + n = starts[Len(got) + 1] + 4
         /\ Unpack(Buffer(n)) = Len(sent[Len(got) + 1])
<1> PICK g, N, L : g = Len(got) + 1 /\ N = Len(sent) /\ L = Len(line)
  OBVIOUS
<1>1. /\ g \in Nat /\ g >= 1 /\ N \in Nat /\ L \in Nat /\ g <= N + 1
      /\ have \in Nat /\ taken \in Nat /\ want = 4 /\ taken - have = Begin(g) /\ taken + n <= L
  <2>1. Len(got) \in Nat /\ N \in Nat /\ L \in Nat
    BY DEF IInv, Layout
  <2> QED
    BY <2>1 DEF IInv, Progress, Reading
<1>2. g <= N
  <2>1. CASE g = N + 1
    <3>1. Begin(g) = L
      BY <1>1, <2>1 DEF Begin
    <3> QED
      BY <1>1, <3>1
  <2> QED
    BY <1>1, <2>1
<1>3. Begin(g) = starts[g] /\ g \in 1..N
  BY <1>1, <1>2 DEF Begin
<1>4. FrameAt(g) /\ starts[g] \in Nat /\ sent[g] \in Body
  BY <1>3 DEF IInv, Layout
<1>5. taken - have = starts[g] /\ taken + n = starts[g] + 4
  BY <1>1, <1>3, <1>4
<1>6. Buffer(n) = SubSeq(line, starts[g] + 1, starts[g] + 4)
  BY <1>5 DEF Buffer
<1>7. Buffer(n) = Pack(Len(sent[g])) /\ Len(sent[g]) <= MaxFrame
  BY <1>4, <1>6 DEF FrameAt
<1>8. Len(sent[g]) \in Word
  BY <1>4, <1>7, BodyIs
<1>9. Unpack(Buffer(n)) = Len(sent[g])
  BY <1>7, <1>8, UnpackPack
<1> QED
  BY <1>3, <1>5, <1>9

LEMMA RecvHeaderStep ==
  ASSUME IInv, RecvHeader
  PROVE  IInv'
<1>1. PICK n \in 1..(written - taken) :
        /\ Piece(n) /\ have + n = want /\ taken' = taken + n /\ have' = 0
        /\ want' = Unpack(Buffer(n))
        /\ rpc' = IF Accepts(Unpack(Buffer(n))) THEN "body" ELSE "too_large"
  BY DEF RecvHeader
<1>2. /\ UNCHANGED <<line, written, sender, sent, starts, got>>
      /\ rpc = "header"
  BY DEF RecvHeader, sendVars
<1> PICK g : g = Len(got) + 1
  OBVIOUS
<1>3. n \in Nat /\ taken + n <= written
  BY <1>1 DEF Piece
<1>4. g \in 1..Len(sent) /\ taken + n = starts[g] + 4 /\ want' = Len(sent[g])
  BY <1>1, <1>2, <1>3, HeaderRead
<1>5. Len(sent[g]) <= MaxFrame /\ sent[g] \in Body /\ starts[g] \in Nat
  <2>1. FrameAt(g) /\ sent[g] \in Body /\ starts[g] \in Nat
    BY <1>4 DEF IInv, Layout
  <2> QED
    BY <2>1 DEF FrameAt
<1>6. Len(sent[g]) \in Nat /\ Len(sent[g]) >= 1
  BY <1>5, BodyIs
<1>7. rpc' = "body"
  BY <1>1, <1>4, <1>5 DEF Accepts
<1>8. Layout'
  BY <1>2, LayoutStays DEF IInv
<1>9. Progress'
  BY <1>1, <1>2, <1>3 DEF IInv, Progress
<1>10. Reading'
  <2>1. Len(got) \in Nat /\ Len(got) < Len(sent)
    BY <1>4 DEF IInv
  <2>2. /\ taken' - have' = starts[g] + 4 /\ have' < want' /\ have' <= taken' /\ want' \in Nat
        /\ have' \in Nat
    BY <1>1, <1>4, <1>5, <1>6
  <2>3. got = SubSeq(sent, 1, Len(got))
    BY DEF IInv, Reading
  <2> QED
    BY <1>2, <1>4, <1>7, <2>1, <2>2, <2>3 DEF Reading, Receiving
<1> QED
  BY <1>2, <1>8, <1>9, <1>10 DEF IInv

\* The bytes that complete a body are the next frame sent.
LEMMA BodyRead ==
  ASSUME IInv, rpc = "body", NEW n \in Nat, taken + n <= written, have + n = want
  PROVE  /\ Len(got) + 1 \in 1..Len(sent)
         /\ taken + n = Begin((Len(got) + 1) + 1)
         /\ Buffer(n) = sent[Len(got) + 1]
<1> PICK g : g = Len(got) + 1
  OBVIOUS
<1>1. /\ g \in 1..Len(sent) /\ want = Len(sent[g]) /\ taken - have = starts[g] + 4
      /\ taken \in Nat /\ have \in Nat
  <2>1. Len(got) \in Nat
    BY DEF IInv
  <2> QED
    BY <2>1 DEF IInv, Reading, Progress
<1>2. FrameAt(g) /\ starts[g] \in Nat /\ sent[g] \in Body
  <2>1. Layout
    BY DEF IInv
  <2> QED
    BY SMTT(30), <1>1, <2>1 DEF Layout
<1>3. Len(sent[g]) \in Nat
  BY <1>2, BodyIs
<1>4. taken + n = starts[g] + 4 + Len(sent[g]) /\ taken - have + 1 = starts[g] + 5
  <2> DEFINE a == starts[g]
             k == Len(sent[g])
  <2>1. /\ a \in Nat /\ k \in Nat /\ taken \in Nat /\ have \in Nat
        /\ have + n = k /\ taken - have = a + 4
    BY <1>1, <1>2, <1>3
  <2> HIDE DEF a, k
  <2>2. taken + n = a + 4 + k /\ taken - have + 1 = a + 5
    BY <2>1
  <2> QED
    BY <2>2 DEF a, k
<1>5. Buffer(n) = SubSeq(line, starts[g] + 5, starts[g] + 4 + Len(sent[g]))
  BY <1>4 DEF Buffer
<1>6. Buffer(n) = sent[g] /\ taken + n = Begin(g + 1)
  BY <1>2, <1>4, <1>5 DEF FrameAt
<1> QED
  BY <1>1, <1>6

LEMMA RecvBodyStep ==
  ASSUME IInv, RecvBody
  PROVE  IInv' /\ got' = Append(got, sent[Len(got) + 1]) /\ Len(got) + 1 \in 1..Len(sent)
<1>1. PICK n \in 1..(written - taken) :
        Piece(n) /\ have + n = want /\ taken' = taken + n /\ got' = Append(got, Buffer(n))
  BY DEF RecvBody
<1>2. /\ UNCHANGED <<line, written, sender, sent, starts>>
      /\ rpc = "body" /\ rpc' = "header" /\ want' = 4 /\ have' = 0
  BY DEF RecvBody, sendVars
<1> PICK g : g = Len(got) + 1
  OBVIOUS
<1>3. n \in Nat /\ taken + n <= written
  BY <1>1 DEF Piece
<1>4. g \in 1..Len(sent) /\ taken + n = Begin(g + 1) /\ Buffer(n) = sent[g]
  BY <1>1, <1>2, <1>3, BodyRead
<1>5. /\ got \in Seq(Body) /\ sent \in Seq(Body) /\ got = SubSeq(sent, 1, Len(got))
      /\ Len(got) \in Nat /\ sent[g] \in Body
  BY <1>4 DEF IInv, Layout, Reading
<1>6. got' = Append(got, sent[g]) /\ got' \in Seq(Body) /\ Len(got') = g
  BY <1>1, <1>4, <1>5, AppendProperties
<1>7. got' = SubSeq(sent, 1, g)
  <2>1. 1 \in 1..Len(sent) /\ g \in 1..Len(sent) /\ g - 1 = Len(got)
    BY <1>4, <1>5
  <2>2. SubSeq(sent, 1, g) = SubSeq(sent, 1, g - 1) \o <<sent[g]>>
    BY <1>4, <1>5, <2>1, SubSeqRecursiveSecond
  <2>3. Append(got, sent[g]) = got \o <<sent[g]>>
    BY <1>5, AppendIsConcat
  <2> QED
    BY <1>5, <1>6, <2>1, <2>2, <2>3
<1>8. Layout' /\ \A j : Begin(j)' = Begin(j)
  BY <1>2, LayoutStays DEF IInv
<1>9. Progress'
  BY <1>1, <1>2, <1>3 DEF IInv, Progress
<1>10. Reading'
  <2>1. Begin(Len(got) + 1)' = Begin(g + 1)
    BY <1>6, <1>8
  <2>2. taken' - have' = Begin(g + 1) /\ have' <= taken' /\ have' < want' /\ taken' \in Nat
    BY <1>1, <1>2, <1>3, <1>4 DEF IInv, Progress
  <2>3. Len(got') <= Len(sent') /\ got' = SubSeq(sent', 1, Len(got'))
    BY <1>2, <1>4, <1>6, <1>7
  <2> QED
    BY <1>2, <2>1, <2>2, <2>3 DEF Reading, Receiving
<1> QED
  BY <1>4, <1>6, <1>8, <1>9, <1>10 DEF IInv

----------------------------------------------------------------------------
(* The invariant, and the queue.                                           *)

LEMMA Initially == Init => IInv
<1> SUFFICES ASSUME Init PROVE IInv
  OBVIOUS
<1>1. <<>> \in Seq(Byte) /\ <<>> \in Seq(Body) /\ <<>> \in Seq(Nat) /\ Len(<<>>) = 0
  OBVIOUS
<1>2. Begin(1) = 0
  BY <1>1 DEF Init, Begin
<1>3. SubSeq(sent, 1, 0) = <<>>
  BY SubSeqEmpty
<1>4. Layout
  BY <1>1, <1>2 DEF Init, Layout
<1>5. Progress
  BY <1>1 DEF Init, Progress
<1>6. Reading
  BY <1>1, <1>2, <1>3 DEF Init, Reading, Receiving
<1> QED
  BY <1>1, <1>4, <1>5, <1>6 DEF Init, IInv

LEMMA Stutters ==
  ASSUME IInv, UNCHANGED vars
  PROVE  IInv'
<1>1. UNCHANGED <<line, written, sender, taken, rpc, want, have, got, sent, starts>>
  BY DEF vars
<1>2. Layout' /\ \A j : Begin(j)' = Begin(j)
  BY <1>1, LayoutStays DEF IInv
<1>3. Begin(Len(got) + 1)' = Begin(Len(got) + 1)
  BY <1>1, <1>2
<1>4. Progress' /\ Reading'
  BY <1>1, <1>3 DEF IInv, Progress, Reading, Receiving
<1> QED
  BY <1>1, <1>2, <1>4 DEF IInv

LEMMA Inductive == IInv /\ [Next]_vars => IInv'
<1> SUFFICES ASSUME IInv, [Next]_vars PROVE IInv'
  OBVIOUS
<1>1. ASSUME NEW body \in Body, SendFrame(body) PROVE IInv'
  BY <1>1, SendFrameStep
<1>2. ASSUME NEW body \in Body, SendTooLarge(body) PROVE IInv'
  BY <1>2, SendOtherStep
<1>3. CASE Write \/ Close
  BY <1>3, SendOtherStep
<1>4. CASE RecvPart
  BY <1>4, RecvPartStep
<1>5. CASE RecvHeader
  BY <1>5, RecvHeaderStep
<1>6. CASE RecvBody
  BY <1>6, RecvBodyStep
<1>7. CASE RecvFails
  BY <1>7, RecvFailsStep
<1>8. CASE UNCHANGED vars
  BY <1>8, Stutters
<1> QED
  BY <1>1, <1>2, <1>3, <1>4, <1>5, <1>6, <1>7, <1>8 DEF Next, Recv

\* Every reachable state has the whole frames on the line, one behind the other,
\* and recv_frame somewhere inside the next of them.
THEOREM Invariant == Spec => []IInv
<1>1. Init => IInv
  BY Initially
<1>2. IInv /\ [Next]_vars => IInv'
  BY Inductive
<1> QED
  BY <1>1, <1>2, PTL DEF Spec

\* recv never takes more than sendall wrote, nor more than is asked for, for every
\* MAX_FRAME and every way of cutting the stream.
THEOREM TypeCorrect == Spec => []TypeOK
<1>1. IInv => TypeOK
  BY TypesFollow
<1> QED
  BY <1>1, Invariant, PTL

\* What is waiting, after another frame is sent.
LEMMA Waiting ==
  ASSUME NEW s \in Seq(Body), NEW b \in Body, NEW g \in Nat, g <= Len(s)
  PROVE  SubSeq(Append(s, b), g + 1, Len(Append(s, b))) = Append(SubSeq(s, g + 1, Len(s)), b)
<1> DEFINE a == Append(s, b)
           n == Len(s) + 1
           w == SubSeq(s, g + 1, Len(s))
<1>1. a \in Seq(Body) /\ Len(a) = n /\ a[n] = b /\ a = s \o <<b>> /\ n - 1 = Len(s)
  BY AppendProperties, AppendIsConcat
<1>2. w \in Seq(Body)
  OBVIOUS
<1>3. g + 1 \in 1..Len(a) /\ n \in g + 1..Len(a)
  BY <1>1
<1> HIDE DEF a, w
<1>4. SubSeq(a, g + 1, n) = SubSeq(a, g + 1, n - 1) \o <<a[n]>>
  BY <1>1, <1>3, SubSeqRecursiveSecond
<1>5. SubSeq(a, g + 1, Len(s)) = w
  <2>1. CASE g = Len(s)
    BY <2>1, SubSeqEmpty DEF w
  <2>2. CASE g < Len(s)
    <3>1. g + 1 \in 1..Len(s) /\ Len(s) \in 1..Len(s) /\ <<b>> \in Seq(Body)
      BY <2>2
    <3> QED
      BY <1>1, <3>1, SubSeqOfConcat1 DEF w
  <2> QED
    BY <2>1, <2>2
<1>6. SubSeq(a, g + 1, n) = w \o <<b>> /\ Append(w, b) = w \o <<b>>
  BY <1>1, <1>2, <1>4, <1>5, AppendIsConcat
<1> QED
  BY <1>1, <1>6 DEF a, w

\* A sender's step puts a frame at the end of the queue, or nothing.
LEMMA SenderRefines ==
  ASSUME IInv, UNCHANGED <<rpc, got>>,
         sent' = sent \/ \E body \in Body : sent' = Append(sent, body)
  PROVE  [Queue!Next]_(Queue!vars)
<1> PICK g : g = Len(got)
  OBVIOUS
<1>1. sent \in Seq(Body) /\ g \in Nat /\ g <= Len(sent)
  BY DEF IInv, Layout, Reading
<1>2. CASE sent' = sent \/ ~Receiving
  BY <1>2 DEF Queue!vars, Receiving
<1>3. ASSUME Receiving, NEW body \in Body, sent' = Append(sent, body)
      PROVE  Queue!Send
  <2>1. /\ sent' \in Seq(Body) /\ Len(sent') = Len(sent) + 1 /\ sent'[Len(sent) + 1] = body
    BY <1>1, <1>3, AppendProperties
  <2>2. SubSeq(sent', g + 1, Len(sent')) = Append(SubSeq(sent, g + 1, Len(sent)), body)
    BY <1>1, <1>3, Waiting
  <2> QED
    BY <1>3, <2>2 DEF Queue!Send, Receiving
<1> QED
  BY <1>2, <1>3 DEF Queue!Next

\* Every step of the bytes is a step of the queue, or none.
LEMMA Refines == IInv /\ [Next]_vars => [Queue!Next]_(Queue!vars)
<1> SUFFICES ASSUME IInv, [Next]_vars PROVE [Queue!Next]_(Queue!vars)
  OBVIOUS
<1>1. ASSUME NEW body \in Body, SendFrame(body) PROVE [Queue!Next]_(Queue!vars)
  BY <1>1, SenderRefines DEF SendFrame, recvVars
<1>2. ASSUME NEW body \in Body, SendTooLarge(body) PROVE [Queue!Next]_(Queue!vars)
  BY <1>2, SenderRefines DEF SendTooLarge, recvVars
<1>3. CASE Write \/ Close
  BY <1>3, SenderRefines DEF Write, Close, recvVars
<1>4. CASE RecvPart
  BY <1>4, SenderRefines DEF RecvPart, sendVars
<1>5. CASE RecvHeader
  <2>1. IInv'
    BY <1>5, RecvHeaderStep
  <2>2. rpc = "header" /\ rpc' \in {"body", "too_large"} /\ UNCHANGED <<sent, got>>
    BY <1>5 DEF RecvHeader, sendVars
  <2>3. Receiving /\ Receiving'
    BY <2>1, <2>2 DEF IInv, Reading, Receiving
  <2> QED
    BY <2>2, <2>3 DEF Queue!vars
<1>6. CASE RecvBody
  <2> PICK g : g = Len(got)
    OBVIOUS
  <2>1. got' = Append(got, sent[g + 1]) /\ g + 1 \in 1..Len(sent) /\ g \in Nat
    BY <1>6, RecvBodyStep DEF IInv
  <2>2. rpc = "body" /\ rpc' = "header" /\ sent' = sent /\ sent \in Seq(Body) /\ got \in Seq(Body)
    BY <1>6 DEF RecvBody, sendVars, IInv, Layout
  <2>3. sent[g + 1] \in Body /\ Len(got') = g + 1
    BY <2>1, <2>2, AppendProperties
  <2>4. Len(sent) \in g + 1..Len(sent)
    BY <2>1, <2>2
  <2>5. /\ Head(SubSeq(sent, g + 1, Len(sent))) = sent[g + 1]
        /\ Tail(SubSeq(sent, g + 1, Len(sent))) = SubSeq(sent, (g + 1) + 1, Len(sent))
    BY <2>1, <2>2, <2>4, HeadTailOfSubSeq
  <2>6. SubSeq(sent, g + 1, Len(sent)) # <<>>
    BY <2>1, <2>2
  <2>7. Queue!Receive
    BY SMTT(30), <2>1, <2>2, <2>3, <2>5, <2>6 DEF Queue!Receive, Receiving
  <2> QED
    BY <2>7 DEF Queue!Next
<1>7. CASE RecvFails
  <2>1. Receiving /\ ~Receiving' /\ got' = got
    BY <1>7 DEF RecvFails, Receiving, sendVars
  <2>2. Queue!Break
    BY <2>1 DEF Queue!Break
  <2> QED
    BY <2>2 DEF Queue!Next
<1>8. CASE UNCHANGED vars
  BY <1>8 DEF vars, Queue!vars, Receiving
<1> QED
  BY <1>1, <1>2, <1>3, <1>4, <1>5, <1>6, <1>7, <1>8 DEF Next, Recv

\* recv_frame returns the frames send_frame was given, whole and in order, until the
\* connection ends, whatever pieces the bytes come in and however large MAX_FRAME is.
THEOREM FramesAreAQueue == Spec => ImplementsQueue
<1>1. Init => Queue!Init
  <2> SUFFICES ASSUME Init PROVE Queue!Init
    OBVIOUS
  <2>1. SubSeq(sent, Len(got) + 1, Len(sent)) = <<>>
    BY SubSeqEmpty DEF Init
  <2> QED
    BY <2>1 DEF Init, Queue!Init, Receiving
<1>2. IInv /\ [Next]_vars => [Queue!Next]_(Queue!vars)
  BY Refines
<1> QED
  BY <1>1, <1>2, Invariant, PTL DEF Spec, ImplementsQueue, Queue!Spec
=============================================================================
