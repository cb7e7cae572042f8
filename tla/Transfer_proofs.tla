--------------------------- MODULE Transfer_proofs ---------------------------
(***************************************************************************)
(* Proofs about a transfer as a whole: that joining the chunks of a file   *)
(* gives the file, for every length and chunk size; that a command meets   *)
(* its handler's frames one after the other; and that an alarm therefore   *)
(* never comes from the protocol itself.                                   *)
(***************************************************************************)
EXTENDS FileSession_proofs, WellFoundedInduction

----------------------------------------------------------------------------
(* Induction over data, by way of the least counterexample.                *)

\* A set of natural numbers has a least element.
LEMMA Least ==
  ASSUME NEW T, T \subseteq Nat, T # {}
  PROVE  \E m \in T : \A n \in T : m <= n
<1> DEFINE R == OpToRel(<, Nat)
<1>1. IsWellFoundedOn(R, Nat)
  BY NatLessThanWellFounded
<1>2. \A i, j \in Nat : i < j => <<i, j>> \in R
  BY DEF OpToRel
<1> HIDE DEF R
<1>3. PICK m \in T : \A n \in T : ~ (<<n, m>> \in R)
  BY <1>1, WFMin
<1>4. ASSUME NEW n \in T PROVE m <= n
  <2>1. ~(n < m)
    BY <1>2, <1>3
  <2> QED
    BY <2>1
<1> QED
  BY <1>4

\* FlattenSeq is what one gets by appending one part after the other.
LEMMA FlattenIs ==
  ASSUME NEW n \in Nat \ {0}, NEW D,
         NEW parts \in [1..n -> Seq(D)], NEW whole \in [1..n -> Seq(D)],
         whole[1] = parts[1],
         \A i \in 2..n : whole[i] = whole[i - 1] \o parts[i]
  PROVE  FlattenSeq(parts) = whole[n]
<1> DEFINE Part(g, i) == IF i = 1 THEN parts[i] ELSE g[i - 1] \o parts[i]
           Eq(g) == g = [i \in 1..n |-> Part(g, i)]
<1>1. \A i \in 1..n : whole[i] = Part(whole, i)
  <2> TAKE i \in 1..n
  <2>1. i = 1 \/ i \in 2..n
    OBVIOUS
  <2> QED
    BY <2>1
<1>2. Eq(whole)
  <2>1. whole = [i \in 1..n |-> whole[i]]
    OBVIOUS
  <2> QED
    BY <1>1, <2>1, Zenon
<1>3. ASSUME NEW g, Eq(g) PROVE g = whole
  <2> DEFINE T == {i \in 1..n : g[i] # whole[i]}
  <2>1. g = [i \in 1..n |-> g[i]] /\ whole = [i \in 1..n |-> whole[i]]
    BY <1>3
  <2>2. \A i \in 1..n : g[i] = IF i = 1 THEN parts[i] ELSE g[i - 1] \o parts[i]
    BY <1>3
  <2>3. \A i \in 1..n : whole[i] = IF i = 1 THEN parts[i] ELSE whole[i - 1] \o parts[i]
    BY <1>1
  <2> HIDE DEF Eq
  <2>4. ASSUME T # {} PROVE FALSE
    <3>1. T \subseteq Nat
      OBVIOUS
    <3>2. PICK m \in T : \A k \in T : m <= k
      BY <2>4, <3>1, Least
    <3>3. m \in 1..n /\ g[m] # whole[m]
      OBVIOUS
    <3>4. CASE m = 1
      BY <2>2, <2>3, <3>3, <3>4
    <3>5. CASE m # 1
      <4>1. m - 1 \in 1..n /\ ~(m <= m - 1)
        BY <3>3, <3>5
      <4>2. g[m - 1] = whole[m - 1]
        BY <3>2, <4>1
      <4>3. g[m] = g[m - 1] \o parts[m]
        BY <2>2, <3>3, <3>5, Zenon
      <4>4. whole[m] = whole[m - 1] \o parts[m]
        BY <2>3, <3>3, <3>5, Zenon
      <4> QED
        BY <3>3, <4>2, <4>3, <4>4, Zenon
    <3> QED
      BY <3>4, <3>5
  <2> QED
    BY <2>1, <2>4, Zenon
<1>4. FlattenSeq(parts) = (CHOOSE g : Eq(g))[n]
  <2>1. Len(parts) = n
    OBVIOUS
  <2> QED
    BY <2>1 DEF FlattenSeq
<1> HIDE DEF Eq
<1>5. Eq(CHOOSE g : Eq(g))
  BY <1>2
<1> QED
  BY <1>3, <1>4, <1>5

----------------------------------------------------------------------------
(* Chunking.                                                               *)

\* The chunks reach over the file, the last one ends with it, and all before the
\* last are full.
LEMMA ChunksCover ==
  ASSUME NEW data, data \in Seq(Nat)
  PROVE  LET n == TotalChunks(data) IN
           /\ n \in Nat \ {0} /\ Len(data) <= n * ChunkSize
           /\ \A i \in 1..(n - 1) : i * ChunkSize <= Len(data)
<1> DEFINE L == Len(data)
           k == (L + ChunkSize - 1) \div ChunkSize
<1>1. L \in Nat /\ ChunkSize \in Nat \ {0}
  BY ChunkSizeAssumption
<1> HIDE DEF L
<1>2. k \in Nat /\ L <= k * ChunkSize /\ k * ChunkSize < L + ChunkSize
  BY <1>1
<1>3. TotalChunks(data) = IF k = 0 THEN 1 ELSE k
  BY DEF TotalChunks, L
<1> HIDE DEF k
<1>4. \A i, j \in Nat : i < j => i * ChunkSize + ChunkSize <= j * ChunkSize
  BY <1>1
<1> DEFINE n == TotalChunks(data)
<1>5. n \in Nat \ {0} /\ L <= n * ChunkSize
  BY <1>1, <1>2, <1>3
<1>6. ASSUME NEW i \in 1..(n - 1) PROVE i * ChunkSize <= L
  <2>1. k = n /\ i \in Nat /\ i < k
    BY <1>2, <1>3, <1>5
  <2>2. i * ChunkSize + ChunkSize <= k * ChunkSize
    BY <1>2, <1>4, <2>1, Zenon
  <2>3. i * ChunkSize \in Nat
    BY <1>1, <2>1
  <2>4. k * ChunkSize \in Nat
    BY <1>1, <1>2
  <2> QED
    BY <1>1, <1>2, <2>2, <2>3, <2>4
<1> QED
  BY <1>5, <1>6 DEF L

\* The client that has every chunk of a file, by index, joins them to exactly that
\* file: empty, shorter than a chunk, a multiple of one or anything else
\* (Server._send_file against Client._recv_transfer).
THEOREM JoinUndoesChunk ==
  ASSUME NEW data, data \in Seq(Nat), NEW chunks,
         \A i \in 0..(TotalChunks(data) - 1) : chunks[i] = Chunk(data, i)
  PROVE  Join(chunks, TotalChunks(data)) = data
<1> DEFINE n == TotalChunks(data)
           L == Len(data)
           End(i) == IF i * ChunkSize < L THEN i * ChunkSize ELSE L
           parts == [i \in 1..n |-> chunks[i - 1]]
           whole == [i \in 1..n |-> SubSeq(data, 1, End(i))]
<1>1. /\ n \in Nat \ {0} /\ L \in Nat /\ ChunkSize \in Nat \ {0}
      /\ L <= n * ChunkSize
      /\ \A i \in 1..(n - 1) : i * ChunkSize <= L
  BY ChunksCover, ChunkSizeAssumption
<1> HIDE DEF n
<1>2. \A i \in Nat : i * ChunkSize \in Nat /\ (i + 1) * ChunkSize = i * ChunkSize + ChunkSize
  BY <1>1
<1>3. \A i \in 0..n : End(i) \in 0..L
  BY <1>1, <1>2
<1>4. \A i \in 1..n : parts[i] = SubSeq(data, (i - 1) * ChunkSize + 1, End(i))
  <2> TAKE i \in 1..n
  <2>1. i - 1 \in 0..(n - 1) /\ (i - 1) + 1 = i
    BY <1>1
  <2>2. chunks[i - 1] = Chunk(data, i - 1)
    BY <2>1 DEF n
  <2> QED
    BY <2>1, <2>2 DEF Chunk
<1>5. \A i \in 1..n : (i - 1) * ChunkSize \in 0..End(i) /\ End(i - 1) = (i - 1) * ChunkSize
  <2> TAKE i \in 1..n
  <2>1. CASE i = 1
    <3>1. (i - 1) * ChunkSize = 0
      BY <1>1, <2>1
    <3> QED
      BY <1>1, <1>3, <3>1
  <2>2. CASE i # 1
    <3>1. i - 1 \in 1..(n - 1) /\ i - 1 \in Nat
      BY <1>1, <2>2
    <3>2. (i - 1) * ChunkSize <= L /\ (i - 1) * ChunkSize \in Nat
      BY <1>1, <1>2, <3>1
    <3>3. i * ChunkSize = (i - 1) * ChunkSize + ChunkSize
      BY <1>2, <3>1
    <3> HIDE DEF L
    <3> QED
      BY <1>1, <3>2, <3>3
  <2> QED
    BY <2>1, <2>2
<1>6. parts \in [1..n -> Seq(Nat)] /\ whole \in [1..n -> Seq(Nat)]
  <2>1. \A i \in 1..n : SubSeq(data, 1, End(i)) \in Seq(Nat)
    <3> TAKE i \in 1..n
    <3>1. End(i) \in 0..L
      BY <1>3
    <3>2. \A j \in 1..End(i) : data[j] \in Nat
      BY <3>1
    <3> HIDE DEF End
    <3> QED
      BY <1>1, <3>1, <3>2, SubSeqProperties
  <2>2. \A i \in 1..n : SubSeq(data, (i - 1) * ChunkSize + 1, End(i)) \in Seq(Nat)
    <3> TAKE i \in 1..n
    <3>1. End(i) \in 0..L /\ (i - 1) * ChunkSize \in Nat
      BY <1>3, <1>5
    <3> DEFINE a == (i - 1) * ChunkSize + 1
    <3>2. a \in Int /\ a >= 1 /\ \A j \in a..End(i) : data[j] \in Nat
      <4>1. a \in Int /\ a >= 1
        BY <3>1
      <4> HIDE DEF a, End
      <4>2. \A j \in a..End(i) : j \in 1..Len(data)
        BY <1>1, <3>1, <4>1
      <4> QED
        BY <4>1, <4>2
    <3> HIDE DEF End, a
    <3>3. SubSeq(data, a, End(i)) \in Seq(Nat)
      BY <1>1, <3>1, <3>2, SubSeqProperties
    <3> QED
      BY <3>3 DEF a
  <2> HIDE DEF End
  <2> QED
    BY <1>4, <2>1, <2>2
<1>7. whole[1] = parts[1]
  <2>1. 1 \in 1..n /\ (1 - 1) * ChunkSize + 1 = 1
    BY <1>1
  <2> HIDE DEF End
  <2> QED
    BY <1>4, <2>1
<1>8. \A i \in 2..n : whole[i] = whole[i - 1] \o parts[i]
  <2> TAKE i \in 2..n
  <2> DEFINE e == End(i - 1)
  <2>1. i \in 1..n /\ i - 1 \in 1..n
    BY <1>1
  <2>2. End(i) \in e..L /\ e \in 0..L /\ (i - 1) * ChunkSize + 1 = e + 1
    BY <1>1, <1>3, <1>5, <2>1
  <2>3. whole[i] = SubSeq(data, 1, End(i)) /\ whole[i - 1] = SubSeq(data, 1, e)
    BY <2>1
  <2>4. parts[i] = SubSeq(data, e + 1, End(i))
    BY <1>4, <2>1, <2>2
  <2> HIDE DEF e, End, whole, parts
  <2>5. SubSeq(data, 1, e) \o SubSeq(data, e + 1, End(i)) = SubSeq(data, 1, End(i))
    <3>1. 1 \in 1..(L + 1) /\ e \in (1 - 1)..L
      BY <1>1, <2>2
    <3> QED
      BY <2>2, <3>1, ConcatAdjacentSubSeq DEF L
  <2> QED
    BY <2>3, <2>4, <2>5
<1>9. whole[n] = data
  <2>1. End(n) = L /\ n \in 1..n
    BY <1>1, <1>2
  <2>2. SubSeq(data, 1, L) = data
    BY SubSeqFull
  <2> QED
    BY <2>1, <2>2
<1>10. Join(chunks, n) = FlattenSeq(parts)
  BY DEF Join
<1> HIDE DEF parts, whole
<1> QED
  BY <1>1, <1>6, <1>7, <1>8, <1>9, <1>10, FlattenIs DEF n

----------------------------------------------------------------------------
(* The transfer, frame by frame.  The frames the handler sends a command   *)
(* are numbered: 0 the handshake response, 1 the answer, 2 TRANSFER_START, *)
(* 3, 4, ... the chunks, and the one after the last chunk TRANSFER_DONE.   *)

\* The number of the frame the command waits for, and of the next one its
\* handler will send.
Place(s) ==
  CASE cpc[s] = "await_resp"  -> 0
    [] cpc[s] = "await_reply" -> 1
    [] cpc[s] = "await_start" -> 2
    [] OTHER -> 3 + cli[s].got

Sent(s) ==
  CASE spc[s] \in {"tls", "await_init"} -> 0
    [] spc[s] \in {"await_request", "consent"} -> 1
    [] spc[s] = "approved" -> 2
    [] OTHER -> 3 + srv[s].idx

ChunksOf(s) == TotalChunks(srv[s].data)

\* The handshake response and the announcement of session s.
RespOf(s) ==
  BuildEnvelope(srv[s].me, "HANDSHAKE_RESP",
    [eph |-> Eph("r", s), nonce |-> Rand("r", s),
     tsig |-> Sign(srv[s].me, Transcript(ClientOf[s], srv[s].me, Eph("i", s), Eph("r", s),
                                         Rand("i", s), Rand("r", s)))])

StartOf(s) == TransferStart(s, srv[s].file, srv[s].data)

\* m is what the handler sends session s as frame n; the first three may be
\* errors or denials instead.
IsFrame(s, m, n) ==
  \/ n \in 0..2 /\ m.type \in {"ERROR", "FILE_DENY"}
  \/ n = 0 /\ m = RespOf(s)
  \/ n = 1 /\ m.type = "FILE_APPROVE"
  \/ /\ n = 2 /\ srv[s].data \in Content
     /\ m = BuildEnvelope(srv[s].me, "TRANSFER_START", StartOf(s))
  \/ /\ n >= 3 /\ n < 3 + ChunksOf(s) /\ m.type = "CHUNK"
     /\ m.payload = [chunk_index |-> n - 3, data |-> ChunkOf(s, n - 3)]
     /\ srv[s].keys = HandlerKeys(s)
  \/ n >= 3 /\ n = 3 + ChunksOf(s) /\ m.type = "TRANSFER_DONE"

\* m is on its way to the command of session s, to be met as frame n.
OnItsWay(s, m, n) == \E k \in 1..Len(s2c[s]) : m = s2c[s][k] /\ n = Place(s) + k - 1

\* The frames on their way are the next ones, in order, and none is missing.
InStep(s) ==
  cpc[s] \in Awaiting =>
    /\ spc[s] # "none"
    /\ \A m, n : OnItsWay(s, m, n) => IsFrame(s, m, n)
    /\ spc[s] # "done" => Place(s) + Len(s2c[s]) = Sent(s)

\* The chunks a command has collected are the first ones of the file its handler
\* read, which stays the same from the announcement on.
Collected(s) ==
  /\ cpc[s] \in {"idle", "await_resp", "await_reply", "await_start"} =>
       cli[s].start = None /\ cli[s].got = 0 /\ DOMAIN cli[s].chunks = {}
  /\ cpc[s] \in {"await_reply", "await_start", "await_chunk", "await_done"} =>
       cli[s].keys = CommandKeys(s)
  /\ cpc[s] \in {"await_chunk", "await_done"} =>
       /\ cli[s].start = StartOf(s) /\ srv[s].data \in Content
       /\ DOMAIN cli[s].chunks = 0..(cli[s].got - 1)
       /\ \A i \in 0..(cli[s].got - 1) : cli[s].chunks[i] = Chunk(srv[s].data, i)
  /\ cpc[s] = "await_chunk" => cli[s].got < ChunksOf(s)
  /\ cpc[s] = "await_done" => cli[s].got = ChunksOf(s)
  /\ cli[s].start # None \/ cpc[s] \in {"await_chunk", "await_done"} =>
       spc[s] \in {"sending", "done"}

\* AlarmHasCause for one session.
Explained(s) ==
  cpc[s] = "security" \/ (cpc[s] = "error" /\ cli[s].start # None) =>
    \/ srv[s].me # req[s].peer
    \/ FileOwner[req[s].file] \notin req[s].knows
    \/ cli[s].start # None /\ srv[s].data # Shared[req[s].file]

InTransfer(s) == InStep(s) /\ Collected(s) /\ Explained(s)

TransferInv == \A s \in Session : InTransfer(s)

----------------------------------------------------------------------------
(* What the steps of the two ends have in common.                          *)

LEMMA UntouchedTransfer ==
  ASSUME NEW s \in Session, InTransfer(s), Untouched(s)
  PROVE  InTransfer(s)'
<1> USE DEF Untouched
<1>1. /\ Place(s)' = Place(s) /\ Sent(s)' = Sent(s) /\ ChunksOf(s)' = ChunksOf(s)
      /\ StartOf(s)' = StartOf(s)
  BY DEF Place, Sent, ChunksOf, StartOf
<1>2. \A m, n : IsFrame(s, m, n)' = IsFrame(s, m, n)
  BY <1>1 DEF IsFrame, RespOf, ChunkOf, HandlerKeys
<1>3. InStep(s)'
  <2>1. \A m, n : OnItsWay(s, m, n)' = OnItsWay(s, m, n)
    BY <1>1 DEF OnItsWay
  <2> QED
    BY <1>1, <1>2, <2>1 DEF InTransfer, InStep
<1>4. Collected(s)' /\ Explained(s)'
  BY <1>1 DEF InTransfer, Collected, Explained, CommandKeys
<1> QED
  BY <1>3, <1>4 DEF InTransfer

\* Once frame n is sent the handler no longer changes what it was made from.
LEMMA FramesStay ==
  ASSUME NEW s \in Session, NEW m, NEW n \in Nat, IsFrame(s, m, n), n < Sent(s),
         srv'[s].me = srv[s].me,
         \/ Sent(s) \in {0, 1, 2}
         \/ /\ srv'[s].keys = srv[s].keys /\ srv'[s].file = srv[s].file
            /\ srv'[s].data = srv[s].data
  PROVE  IsFrame(s, m, n)'
<1>1. RespOf(s)' = RespOf(s)
  BY DEF RespOf
<1>2. CASE n \in {0, 1}
  BY <1>1, <1>2 DEF IsFrame
<1>3. CASE n \notin {0, 1}
  <2>1. /\ srv'[s].keys = srv[s].keys /\ srv'[s].file = srv[s].file
        /\ srv'[s].data = srv[s].data
    BY <1>3
  <2>2. ChunksOf(s)' = ChunksOf(s) /\ StartOf(s)' = StartOf(s)
    BY <2>1 DEF ChunksOf, StartOf
  <2>3. HandlerKeys(s)' = HandlerKeys(s) /\ \A i : ChunkOf(s, i)' = ChunkOf(s, i)
    BY <2>1 DEF ChunkOf, HandlerKeys
  <2> QED
    BY <1>1, <2>1, <2>2, <2>3 DEF IsFrame
<1> QED
  BY <1>2, <1>3

\* A step of the handler that sends nothing, or the frame that is due, keeps the
\* two ends in step.
LEMMA HandlerInStep ==
  ASSUME Inv, NEW s \in Session, InTransfer(s),
         spc[s] \notin {"none", "done"}, spc'[s] # "none",
         UNCHANGED clientVars, srv'[s].me = srv[s].me,
         \/ Sent(s) \in {0, 1, 2}
         \/ /\ srv'[s].keys = srv[s].keys /\ srv'[s].file = srv[s].file
            /\ srv'[s].data = srv[s].data,
         spc[s] = "sending" => /\ spc'[s] \in {"sending", "done"}
                               /\ srv'[s].file = srv[s].file /\ srv'[s].data = srv[s].data,
         \/ s2c'[s] = s2c[s] /\ (spc'[s] = "done" \/ Sent(s)' = Sent(s))
         \/ \E m, n : /\ n = Sent(s) /\ IsFrame(s, m, n)'
                      /\ s2c'[s] = IF ClientGone(s) THEN s2c[s] ELSE Append(s2c[s], m)
                      /\ spc'[s] = "done" \/ Sent(s)' = Sent(s) + 1
  PROVE  InTransfer(s)'
<1>1. /\ cpc' = cpc /\ cli' = cli /\ req' = req /\ Place(s)' = Place(s)
  BY DEF clientVars, Place
<1>2. Place(s) \in Nat /\ Sent(s) \in Nat
  BY InvSession DEF Typed, Place, Sent
<1>3. InStep(s)'
  <2> SUFFICES ASSUME cpc[s] \in Awaiting
               PROVE  /\ \A m, n : OnItsWay(s, m, n)' => IsFrame(s, m, n)'
                      /\ spc'[s] # "done" => Place(s) + Len(s2c'[s]) = Sent(s)'
    <3>1. /\ cpc'[s] = cpc[s] /\ Awaiting' = Awaiting
          /\ Place(s)' + Len(s2c'[s]) = Place(s) + Len(s2c'[s])
      BY <1>1 DEF Awaiting
    <3> QED
      BY <3>1 DEF InStep
  <2> DEFINE q == s2c[s]
  <2>1. /\ ~ClientGone(s) /\ Place(s) + Len(q) = Sent(s)
        /\ \A m, n : OnItsWay(s, m, n) => IsFrame(s, m, n)
    BY DEF InTransfer, InStep, ClientGone, Awaiting, Outcomes
  <2>2. q \in Seq(Range(q)) /\ Len(q) \in Nat
    BY InvSession DEF Fifo
  <2>3. ASSUME NEW m, NEW n, OnItsWay(s, m, n) PROVE IsFrame(s, m, n)'
    <3>1. n \in Nat /\ n < Sent(s) /\ IsFrame(s, m, n)
      BY <1>2, <2>1, <2>2, <2>3 DEF OnItsWay
    <3> QED
      BY <3>1, FramesStay
  <2>4. CASE s2c'[s] = q /\ (spc'[s] = "done" \/ Sent(s)' = Sent(s))
    <3>1. \A m, n : OnItsWay(s, m, n)' => OnItsWay(s, m, n)
      BY <1>1, <2>4 DEF OnItsWay
    <3> QED
      BY <2>1, <2>3, <2>4, <3>1
  <2>5. CASE \E m, n : /\ n = Sent(s) /\ IsFrame(s, m, n)'
                       /\ s2c'[s] = IF ClientGone(s) THEN s2c[s] ELSE Append(s2c[s], m)
                       /\ spc'[s] = "done" \/ Sent(s)' = Sent(s) + 1
    <3>1. PICK m, n : /\ n = Sent(s) /\ IsFrame(s, m, n)' /\ s2c'[s] = Append(q, m)
                      /\ spc'[s] = "done" \/ Sent(s)' = Sent(s) + 1
      BY <2>1, <2>5
    <3>2. /\ Len(s2c'[s]) = Len(q) + 1 /\ s2c'[s][Len(q) + 1] = m
          /\ \A k \in 1..Len(q) : s2c'[s][k] = q[k]
      <4>1. q \in Seq(Range(q) \union {m})
        BY <2>2
      <4> QED
        BY <3>1, <4>1
    <3>3. ASSUME NEW f, NEW g, OnItsWay(s, f, g)' PROVE IsFrame(s, f, g)'
      <4>1. PICK k \in 1..(Len(q) + 1) : f = s2c'[s][k] /\ g = Place(s) + k - 1
        BY <1>1, <3>2, <3>3 DEF OnItsWay
      <4>2. CASE k \in 1..Len(q)
        <5>1. OnItsWay(s, f, g)
          BY <3>2, <4>1, <4>2 DEF OnItsWay
        <5> QED
          BY <2>3, <5>1
      <4>3. CASE k \notin 1..Len(q)
        <5>1. f = m /\ g = n
          BY <1>2, <2>1, <2>2, <3>1, <3>2, <4>1, <4>3
        <5> QED
          BY <3>1, <5>1
      <4> QED
        BY <4>2, <4>3
    <3>4. spc'[s] # "done" => Place(s) + Len(s2c'[s]) = Sent(s)'
      <4>1. Place(s) + (Len(q) + 1) = Sent(s) + 1
        BY <1>2, <2>1, <2>2
      <4> QED
        BY <3>1, <3>2, <4>1
    <3> QED
      BY <3>3, <3>4
  <2> QED
    BY <2>4, <2>5
<1>4. cli[s].start # None \/ cpc[s] \in {"await_chunk", "await_done"} =>
        /\ spc[s] = "sending" /\ spc'[s] \in {"sending", "done"}
        /\ srv'[s].file = srv[s].file /\ srv'[s].data = srv[s].data
  BY DEF InTransfer, Collected
<1>5. Collected(s)'
  <2>1. CASE cpc[s] \in {"await_chunk", "await_done"}
    <3>1. StartOf(s)' = StartOf(s) /\ ChunksOf(s)' = ChunksOf(s)
      BY <1>4, <2>1 DEF StartOf, TransferStart, ChunksOf
    <3> QED
      BY <1>1, <1>4, <2>1, <3>1 DEF InTransfer, Collected, CommandKeys
  <2>2. CASE cpc[s] \notin {"await_chunk", "await_done"}
    BY <1>1, <1>4, <2>2 DEF InTransfer, Collected, CommandKeys
  <2> QED
    BY <2>1, <2>2
<1>6. Explained(s)'
  BY <1>1, <1>4 DEF InTransfer, Explained
<1> QED
  BY <1>3, <1>5, <1>6 DEF InTransfer

\* The frame ToClient appends.
LEMMA SentFrame ==
  ASSUME Inv, NEW s \in Session, NEW type, NEW payload, ToClient(s, type, payload)
  PROVE  /\ s2c'[s] = IF ClientGone(s) THEN s2c[s]
                      ELSE Append(s2c[s], BuildEnvelope(srv'[s].me, type, payload))
         /\ \A r \in Session : r # s => s2c'[r] = s2c[r]
  BY InvSession DEF ToClient

\* The steps of the handler.
LEMMA HandlerTransfer ==
  ASSUME Inv, NEW s \in Session, InTransfer(s), HandlerStep(s) \/ TlsFails(s) \/ Consent(s)
  PROVE  InTransfer(s)'
<1>1. /\ DOMAIN spc = Session /\ DOMAIN srv = Session /\ Fifo(c2s[s])
      /\ DOMAIN srv[s] = {"me", "keys", "file", "data", "idx"}
      /\ Custody(s) /\ Keyed(s) /\ Begun(s) /\ Typed(s) /\ World
  BY InvSession DEF Typed, Domains
<1>2. /\ spc[s] \in {"tls", "await_init"} => Sent(s) = 0
      /\ spc[s] \in {"await_request", "consent"} => Sent(s) = 1
      /\ spc[s] = "approved" => Sent(s) = 2
      /\ spc[s] = "sending" => Sent(s) = 3 + srv[s].idx
  BY DEF Sent
<1>3. /\ spc'[s] = "await_init" => Sent(s)' = 0
      /\ spc'[s] \in {"await_request", "consent"} => Sent(s)' = 1
      /\ spc'[s] = "approved" => Sent(s)' = 2
      /\ spc'[s] = "sending" => Sent(s)' = 3 + srv'[s].idx
  BY DEF Sent
<1>4. CASE Dispatch(s)
  <2>1. spc[s] = "await_init" /\ UNCHANGED clientVars /\ c2s[s] # <<>>
    BY <1>4 DEF Dispatch
  <2> DEFINE init == Head(c2s[s])
  <2>2. CASE ~Admitted(init)
    <3>1. spc'[s] = "done" /\ srv' = srv /\ ToClient(s, "ERROR", <<>>)
      BY <1>1, <1>4, <2>2 DEF Dispatch
    <3>2. PICK m, n : /\ m = BuildEnvelope(srv'[s].me, "ERROR", <<>>) /\ n = Sent(s)
                      /\ m.type = "ERROR" /\ n = 0
      BY <1>2, <2>1, EnvelopeFields
    <3>3. IsFrame(s, m, n)'
      BY <3>2 DEF IsFrame
    <3>4. s2c'[s] = IF ClientGone(s) THEN s2c[s] ELSE Append(s2c[s], m)
      BY <3>1, <3>2, SentFrame
    <3>5. Sent(s) = 0 /\ n = Sent(s) /\ srv'[s] = srv[s] /\ spc'[s] = "done"
      BY <1>2, <2>1, <3>1, <3>2
    <3> HIDE DEF InTransfer
    <3> QED
      BY <2>1, <3>3, <3>4, <3>5, HandlerInStep
  <2>3. CASE Admitted(init)
    <3>1. /\ init.type = "HANDSHAKE_INIT" /\ init.from = ClientOf[s]
          /\ init.payload[1] = Eph("i", s) /\ init.payload[2] = Rand("i", s)
      BY <1>1, <2>1, <2>3, TakeFrame DEF Admitted, Keyed, Fifo
    <3> DEFINE resp == [eph |-> Eph("r", s), nonce |-> Rand("r", s),
                        tsig |-> Sign(srv[s].me, Transcript(ClientOf[s], srv[s].me, Eph("i", s),
                                                  Eph("r", s), Rand("i", s), Rand("r", s)))]
    <3>2. /\ spc' = [spc EXCEPT ![s] = "await_request"]
          /\ \E keys : srv' = [srv EXCEPT ![s].keys = keys]
          /\ ToClient(s, "HANDSHAKE_RESP", resp)
      BY <1>4, <2>3, <3>1 DEF Dispatch
    <3>3. spc'[s] = "await_request" /\ srv'[s].me = srv[s].me
      BY <1>1, <3>2
    <3>4. PICK m, n : /\ m = BuildEnvelope(srv'[s].me, "HANDSHAKE_RESP", resp)
                      /\ n = Sent(s) /\ n = 0
      BY <1>2, <2>1
    <3>5. IsFrame(s, m, n)'
      BY <3>3, <3>4 DEF IsFrame, RespOf
    <3> HIDE DEF resp
    <3>6. s2c'[s] = IF ClientGone(s) THEN s2c[s] ELSE Append(s2c[s], m)
      BY <3>2, <3>4, SentFrame
    <3>7. Sent(s) \in {0, 1, 2} /\ Sent(s)' = Sent(s) + 1
      BY <1>2, <1>3, <2>1, <3>3
    <3> QED
      BY <2>1, <3>3, <3>4, <3>5, <3>6, <3>7, HandlerInStep
  <2> QED
    BY <2>2, <2>3
<1>5. CASE RecvFileRequest(s)
  <2>1. spc[s] = "await_request" /\ UNCHANGED clientVars
    BY <1>5 DEF RecvFileRequest
  <2>2. CASE /\ spc' = [spc EXCEPT ![s] = "done"] /\ UNCHANGED srv
             /\ \E type \in {"FILE_DENY", "ERROR"} : ToClient(s, type, <<>>)
    <3>1. PICK type \in {"FILE_DENY", "ERROR"} : ToClient(s, type, <<>>)
      BY <2>2
    <3>2. PICK m, n : /\ m = BuildEnvelope(srv'[s].me, type, <<>>) /\ n = Sent(s)
                      /\ m.type = type /\ n = 1
      BY <1>2, <2>1, EnvelopeFields
    <3>3. IsFrame(s, m, n)'
      BY <3>2 DEF IsFrame
    <3>4. spc'[s] = "done"
      BY <1>1, <2>2
    <3>5. s2c'[s] = IF ClientGone(s) THEN s2c[s] ELSE Append(s2c[s], m)
      BY <3>1, <3>2, SentFrame
    <3>6. Sent(s) \in {0, 1, 2}
      BY <1>2, <2>1
    <3> QED
      BY <2>1, <2>2, <3>2, <3>3, <3>4, <3>5, <3>6, HandlerInStep
  <2>3. CASE /\ spc' = [spc EXCEPT ![s] = "consent"] /\ UNCHANGED s2c
             /\ \E f : srv' = [srv EXCEPT ![s].file = f]
    <3>1. spc'[s] = "consent" /\ srv'[s].me = srv[s].me
      BY <1>1, <2>3
    <3> QED
      BY <1>2, <1>3, <2>1, <2>3, <3>1, HandlerInStep
  <2> QED
    BY <1>5, <2>2, <2>3 DEF RecvFileRequest
<1>6. CASE Consent(s)
  <2>1. spc[s] = "consent" /\ UNCHANGED <<srv, clientVars>>
    BY <1>6 DEF Consent, clientVars
  <2>2. PICK allowed \in BOOLEAN :
          /\ spc' = [spc EXCEPT ![s] = IF allowed THEN "approved" ELSE "done"]
          /\ ToClient(s, IF allowed THEN "FILE_APPROVE" ELSE "FILE_DENY", srv[s].file)
    BY <1>6 DEF Consent, AfterConsent
  <2>3. PICK type : type = IF allowed THEN "FILE_APPROVE" ELSE "FILE_DENY"
    OBVIOUS
  <2>4. PICK m, n : /\ m = BuildEnvelope(srv'[s].me, type, srv[s].file)
                    /\ n = Sent(s) /\ m.type = type /\ n = 1
    BY <1>2, <2>1, EnvelopeFields
  <2>5. IsFrame(s, m, n)'
    BY <2>3, <2>4 DEF IsFrame
  <2>6. spc'[s] \in {"approved", "done"}
    BY <1>1, <2>2
  <2>7. s2c'[s] = IF ClientGone(s) THEN s2c[s] ELSE Append(s2c[s], m)
    BY <2>2, <2>3, <2>4, SentFrame
  <2>8. Sent(s) \in {0, 1, 2} /\ (spc'[s] = "done" \/ Sent(s)' = Sent(s) + 1)
    BY <1>2, <1>3, <2>1, <2>6
  <2> QED
    BY <2>1, <2>4, <2>5, <2>6, <2>7, <2>8, HandlerInStep
<1>7. CASE OpenFile(s)
  <2>1. spc[s] = "approved" /\ UNCHANGED clientVars /\ srv[s].idx = 0
    BY <1>1, <1>7 DEF OpenFile, Begun
  <2> DEFINE f == srv[s].file
  <2>2. CASE disk[f] = None
    <3>1. spc'[s] = "done" /\ srv' = srv /\ ToClient(s, "ERROR", <<>>)
      BY <1>1, <1>7, <2>2 DEF OpenFile
    <3>2. PICK m, n : /\ m = BuildEnvelope(srv'[s].me, "ERROR", <<>>) /\ n = Sent(s)
                      /\ m.type = "ERROR" /\ n = 2
      BY <1>2, <2>1, EnvelopeFields
    <3>3. IsFrame(s, m, n)'
      BY <3>2 DEF IsFrame
    <3>4. s2c'[s] = IF ClientGone(s) THEN s2c[s] ELSE Append(s2c[s], m)
      BY <3>1, <3>2, SentFrame
    <3>5. Sent(s) = 2 /\ n = Sent(s) /\ srv'[s] = srv[s] /\ spc'[s] = "done"
      BY <1>2, <2>1, <3>1, <3>2
    <3> HIDE DEF InTransfer
    <3> QED
      BY <2>1, <3>3, <3>4, <3>5, HandlerInStep
  <2>3. CASE disk[f] # None
    <3>1. /\ spc' = [spc EXCEPT ![s] = "sending"] /\ srv' = [srv EXCEPT ![s].data = disk[f]]
          /\ ToClient(s, "TRANSFER_START", TransferStart(s, f, disk[f]))
      BY <1>7, <2>3 DEF OpenFile
    <3>2. /\ spc'[s] = "sending" /\ srv'[s].me = srv[s].me /\ srv'[s].file = f
          /\ srv'[s].data = disk[f] /\ srv'[s].idx = 0
      BY <1>1, <2>1, <3>1
    <3>3. disk[f] \in Content
      BY <1>1, <2>1, <2>3 DEF World, Custody
    <3>4. PICK m, n : /\ m = BuildEnvelope(srv'[s].me, "TRANSFER_START", TransferStart(s, f, disk[f]))
                      /\ n = Sent(s) /\ n = 2
      BY <1>2, <2>1
    <3>5. IsFrame(s, m, n)'
      BY <3>2, <3>3, <3>4 DEF IsFrame, StartOf
    <3>6. s2c'[s] = IF ClientGone(s) THEN s2c[s] ELSE Append(s2c[s], m)
      BY <3>1, <3>4, SentFrame
    <3>7. Sent(s) \in {0, 1, 2} /\ Sent(s)' = Sent(s) + 1
      BY <1>2, <1>3, <2>1, <3>2
    <3> QED
      BY <2>1, <3>2, <3>4, <3>5, <3>6, <3>7, HandlerInStep
  <2> QED
    BY <2>2, <2>3
<1>8. CASE SendChunk(s)
  <2>1. /\ spc[s] = "sending" /\ UNCHANGED <<spc, clientVars>> /\ srv[s].idx < ChunksOf(s)
        /\ srv' = [srv EXCEPT ![s].idx = srv[s].idx + 1]
        /\ ToClient(s, "CHUNK", [chunk_index |-> srv[s].idx, data |-> ChunkOf(s, srv[s].idx)])
    BY <1>8 DEF SendChunk, ChunksOf, ChunkOf, clientVars
  <2>2. /\ srv'[s].me = srv[s].me /\ srv'[s].file = srv[s].file /\ srv'[s].data = srv[s].data
        /\ srv'[s].keys = srv[s].keys /\ srv'[s].idx = srv[s].idx + 1 /\ srv[s].idx \in Nat
    BY <1>1, <2>1 DEF Typed
  <2>3. PICK m, n, i : /\ i = srv[s].idx /\ n = Sent(s)
                       /\ m = BuildEnvelope(srv'[s].me, "CHUNK",
                                [chunk_index |-> i, data |-> ChunkOf(s, i)])
    OBVIOUS
  <2>4. m.type = "CHUNK" /\ m.payload = [chunk_index |-> i, data |-> ChunkOf(s, i)]
    BY <2>3, EnvelopeFields
  <2>5. /\ n = 3 + i /\ n - 3 = i /\ i \in Nat /\ ChunksOf(s)' = ChunksOf(s) /\ i < ChunksOf(s)
        /\ ChunkOf(s, i)' = ChunkOf(s, i)
    BY <1>2, <2>1, <2>2, <2>3 DEF ChunksOf, ChunkOf
  <2>a. srv'[s].keys = HandlerKeys(s)'
    BY <1>1, <2>1, <2>2 DEF Keyed, HandlerKeys
  <2>6. n >= 3 /\ n < 3 + ChunksOf(s)
    <3>1. ChunksOf(s) \in Nat
      <4>1. srv[s].data \in Seq(Nat)
        BY <1>1, <2>1, SessionAssumption DEF Typed, SessionAssumption
      <4> QED
        BY <4>1, ChunksCover DEF ChunksOf
    <3> QED
      BY <2>5, <3>1
  <2>7. IsFrame(s, m, n)'
    BY <2>4, <2>5, <2>6, <2>a DEF IsFrame
  <2>8. Sent(s)' = Sent(s) + 1 /\ spc'[s] = "sending"
    BY <1>2, <1>3, <2>1, <2>2
  <2> QED
    BY <2>1, <2>2, <2>3, <2>7, <2>8, SentFrame, HandlerInStep
<1>9. CASE SendDone(s)
  <2>1. /\ spc[s] = "sending" /\ UNCHANGED <<srv, clientVars>> /\ srv[s].idx = ChunksOf(s)
        /\ spc'[s] = "done" /\ ToClient(s, "TRANSFER_DONE", <<>>) /\ srv[s].idx \in Nat
    BY <1>1, <1>9 DEF SendDone, ChunksOf, clientVars, Typed
  <2>2. PICK m, n : /\ m = BuildEnvelope(srv'[s].me, "TRANSFER_DONE", <<>>)
                    /\ n = Sent(s) /\ m.type = "TRANSFER_DONE"
    BY EnvelopeFields
  <2>3. n >= 3 /\ n = 3 + ChunksOf(s) /\ ChunksOf(s)' = ChunksOf(s)
    BY <1>2, <2>1, <2>2 DEF ChunksOf
  <2>4. IsFrame(s, m, n)'
    BY <2>2, <2>3 DEF IsFrame
  <2> QED
    BY <2>1, <2>2, <2>4, SentFrame, HandlerInStep
<1>10. CASE HandlerIOFails(s) \/ TlsFails(s)
  <2>1. /\ spc[s] \in {"tls", "await_init", "await_request", "approved", "sending"}
        /\ UNCHANGED <<srv, clientVars, s2c>> /\ spc'[s] = "done"
    BY <1>1, <1>10 DEF HandlerIOFails, HandlerRecvFails, HandlerSendFails, TlsFails, clientVars
  <2> QED
    BY <2>1, HandlerInStep
<1>11. CASE TlsDone(s)
  <2>1. /\ spc[s] = "tls" /\ spc'[s] = "await_init" /\ UNCHANGED <<srv, clientVars, s2c>>
    BY <1>1, <1>11 DEF TlsDone
  <2>2. Sent(s) = 0 /\ Sent(s)' = 0
    BY <1>2, <1>3, <2>1
  <2> QED
    BY <2>1, <2>2, HandlerInStep
<1> QED
  BY <1>4, <1>5, <1>6, <1>7, <1>8, <1>9, <1>10, <1>11 DEF HandlerStep

\* The frame a command takes is the one it waits for.
LEMMA NextFrame ==
  ASSUME Inv, NEW s \in Session, InTransfer(s), cpc[s] \in Awaiting, s2c[s] # <<>>
  PROVE  /\ \E m, n : m = Head(s2c[s]) /\ n = Place(s) /\ IsFrame(s, m, n)
         /\ spc[s] # "done" => Sent(s) > Place(s)
<1> DEFINE q == s2c[s]
<1>1. q \in Seq(Range(q))
  BY InvSession DEF Fifo
<1>2. Len(q) \in Nat \ {0} /\ Head(q) = q[1]
  BY <1>1
<1>3. Place(s) \in Nat /\ Sent(s) \in Nat
  BY InvSession DEF Typed, Place, Sent
<1>4. PICK m, n : m = Head(q) /\ n = Place(s)
  OBVIOUS
<1>5. OnItsWay(s, m, n)
  <2>1. 1 \in 1..Len(q) /\ m = q[1] /\ n = Place(s) + 1 - 1
    BY <1>2, <1>3, <1>4
  <2> QED
    BY <2>1 DEF OnItsWay
<1> QED
  BY <1>2, <1>3, <1>4, <1>5 DEF InTransfer, InStep

LEMMA CommandStops ==
  ASSUME Inv, NEW s \in Session, InTransfer(s), cpc[s] \in Awaiting,
         NEW outcome \in Outcomes \union {"dead"}, Finish(s, outcome),
         UNCHANGED <<spc, srv, req, cli>>, Explained(s)'
  PROVE  InTransfer(s)'
<1>1. cpc'[s] = outcome
  BY InvSession, FinishStep
<1>2. outcome \notin Awaiting \union {"idle"}
  BY DEF Outcomes, Awaiting
<1>3. InStep(s)'
  BY <1>1, <1>2 DEF InStep, Awaiting
<1>4. Collected(s)'
  BY <1>1, <1>2 DEF InTransfer, Collected, Awaiting
<1> QED
  BY <1>3, <1>4 DEF InTransfer

\* Stopping in any way but an alarm needs no explanation.
LEMMA QuietStop ==
  ASSUME Inv, NEW s \in Session, InTransfer(s), cpc[s] \in Awaiting,
         NEW outcome \in {"denied", "saved", "offline", "dead", "error"},
         outcome = "error" => cli[s].start = None,
         Finish(s, outcome), UNCHANGED <<spc, srv, req, cli>>
  PROVE  InTransfer(s)'
<1>1. cpc'[s] = outcome
  BY InvSession, FinishStep
<1>2. Explained(s)' /\ outcome \in Outcomes \union {"dead"}
  BY <1>1 DEF Explained, Outcomes
<1> QED
  BY <1>2, CommandStops

LEMMA CommandInStep ==
  ASSUME Inv, NEW s \in Session, InTransfer(s), cpc[s] \in Awaiting, s2c[s] # <<>>,
         NEW pc \in Awaiting, Continue(s, pc), UNCHANGED <<spc, srv, req>>,
         Place(s)' = Place(s) + 1, Collected(s)'
  PROVE  InTransfer(s)'
<1> DEFINE q == s2c[s]
<1>1. DOMAIN s2c = Session /\ DOMAIN cpc = Session /\ q \in Seq(Range(q))
  BY InvSession DEF Fifo, Domains
<1>2. s2c'[s] = Tail(q) /\ cpc'[s] = pc
  BY <1>1 DEF Continue
<1>3. /\ Len(q) \in Nat /\ Len(Tail(q)) = Len(q) - 1
      /\ \A k \in 1..Len(Tail(q)) : Tail(q)[k] = q[k + 1]
  BY <1>1
<1>4. Place(s) \in Nat /\ Sent(s)' = Sent(s)
  BY InvSession DEF Typed, Place, Sent
<1>5. \A m, n : OnItsWay(s, m, n)' => OnItsWay(s, m, n)
  <2> SUFFICES ASSUME NEW m, NEW n, OnItsWay(s, m, n)' PROVE OnItsWay(s, m, n)
    OBVIOUS
  <2>1. PICK k \in 1..Len(Tail(q)) : m = Tail(q)[k] /\ n = Place(s)' + k - 1
    BY <1>2 DEF OnItsWay
  <2>2. k + 1 \in 1..Len(q) /\ m = q[k + 1] /\ n = Place(s) + (k + 1) - 1
    BY <1>3, <1>4, <2>1
  <2> QED
    BY <2>2 DEF OnItsWay
<1>6. \A m, n : IsFrame(s, m, n)' = IsFrame(s, m, n)
  BY DEF IsFrame, RespOf, StartOf, TransferStart, ChunksOf, ChunkOf, HandlerKeys
<1>7. InStep(s)'
  <2>1. \A m, n : OnItsWay(s, m, n)' => IsFrame(s, m, n)'
    BY <1>5, <1>6 DEF InTransfer, InStep
  <2>2. spc'[s] # "done" => Place(s)' + Len(s2c'[s]) = Sent(s)'
    <3>1. spc[s] # "done" => Place(s) + Len(q) = Sent(s)
      BY DEF InTransfer, InStep
    <3>2. Place(s)' + Len(s2c'[s]) = Place(s) + Len(q)
      BY <1>2, <1>3, <1>4
    <3> QED
      BY <1>4, <3>1, <3>2
  <2> QED
    BY <2>1, <2>2 DEF InTransfer, InStep
<1>8. Explained(s)'
  BY <1>2 DEF Explained, Awaiting
<1> QED
  BY <1>7, <1>8 DEF InTransfer

\* A genuine response is refused only by a command that expects another peer.
LEMMA RespTransfer ==
  ASSUME Inv, NEW s \in Session, InTransfer(s), RecvHandshakeResp(s)
  PROVE  InTransfer(s)'
<1>1. /\ cpc[s] = "await_resp" /\ cpc[s] \in Awaiting /\ s2c[s] # <<>>
      /\ UNCHANGED <<spc, srv, req>> /\ Place(s) = 0
  BY DEF RecvHandshakeResp, threadVars, Awaiting, Place
<1>2. cli[s].start = None /\ cli[s].got = 0 /\ DOMAIN cli[s].chunks = {}
  BY <1>1 DEF InTransfer, Collected
<1> DEFINE resp == Head(s2c[s])
<1>3. CASE Finish(s, "error") /\ UNCHANGED cli
  BY <1>1, <1>2, <1>3, QuietStop
<1>4. CASE /\ resp.type = "HANDSHAKE_RESP" /\ Finish(s, "security") /\ UNCHANGED cli
           /\ ~ /\ resp.from = req[s].peer
                /\ VerifyEnvelope(resp, req[s].peer)
                /\ Ed25519Verify(req[s].peer, resp.payload.tsig,
                     Transcript(ClientOf[s], req[s].peer, Eph("i", s), resp.payload.eph,
                                Rand("i", s), resp.payload.nonce))
  <2>1. resp = RespOf(s)
    <3>1. PICK m, n : m = resp /\ n = 0 /\ IsFrame(s, m, n)
      BY <1>1, NextFrame
    <3> QED
      BY <1>4, <3>1 DEF IsFrame
  <2>2. srv[s].me # req[s].peer
    <3>1. /\ RespOf(s).from = srv[s].me
          /\ RespOf(s).payload = [eph |-> Eph("r", s), nonce |-> Rand("r", s),
               tsig |-> Sign(srv[s].me, Transcript(ClientOf[s], srv[s].me, Eph("i", s),
                                                   Eph("r", s), Rand("i", s), Rand("r", s)))]
          /\ VerifyEnvelope(RespOf(s), srv[s].me)
      BY DEF RespOf, BuildEnvelope, VerifyEnvelope, Ed25519Verify
    <3> QED
      BY <1>4, <2>1, <3>1 DEF Ed25519Verify
  <2>3. Explained(s)' /\ "security" \in Outcomes \union {"dead"}
    BY <1>1, <2>2 DEF Explained, Outcomes
  <2> QED
    BY <1>1, <1>4, <2>3, CommandStops
<1>5. CASE /\ resp.type = "HANDSHAKE_RESP" /\ resp.from = req[s].peer
           /\ cli' = [cli EXCEPT ![s].keys =
                Derive(Exchange(Eph("i", s), resp.payload.eph), Rand("i", s),
                       resp.payload.nonce, ClientOf[s], req[s].peer, TRUE)]
           /\ Continue(s, "await_reply")
  <2>1. /\ resp.from = srv[s].me /\ resp.payload.eph = Eph("r", s)
        /\ resp.payload.nonce = Rand("r", s)
    BY <1>1, <1>5, InvSession, WaitingFrame DEF Keyed
  <2>2. /\ cli'[s].keys = CommandKeys(s) /\ cli'[s].start = cli[s].start
        /\ cli'[s].got = cli[s].got /\ cli'[s].chunks = cli[s].chunks
    BY <1>5, <2>1, InvSession DEF CommandKeys, Typed
  <2>3. cpc'[s] = "await_reply" /\ "await_reply" \in Awaiting
    BY <1>1, <1>5, InvSession, ContinueStep DEF Awaiting
  <2>4. Collected(s)'
    BY <1>1, <1>2, <2>2, <2>3 DEF Collected, CommandKeys
  <2>5. Place(s)' = Place(s) + 1
    BY <1>1, <2>3 DEF Place
  <2> QED
    BY <1>1, <1>5, <2>3, <2>4, <2>5, CommandInStep
<1> QED
  BY <1>3, <1>4, <1>5 DEF RecvHandshakeResp

LEMMA ReplyTransfer ==
  ASSUME Inv, NEW s \in Session, InTransfer(s), RecvReply(s)
  PROVE  InTransfer(s)'
<1>1. /\ cpc[s] = "await_reply" /\ cpc[s] \in Awaiting /\ s2c[s] # <<>>
      /\ UNCHANGED <<spc, srv, req, cli>> /\ Place(s) = 1
  BY DEF RecvReply, threadVars, Awaiting, Place
<1>2. /\ cli[s].start = None /\ cli[s].got = 0 /\ DOMAIN cli[s].chunks = {}
      /\ cli[s].keys = CommandKeys(s)
  BY <1>1 DEF InTransfer, Collected
<1>3. CASE \E outcome \in {"denied", "error"} : Finish(s, outcome)
  BY <1>1, <1>2, <1>3, QuietStop
<1>4. CASE Continue(s, "await_start")
  <2>1. cpc'[s] = "await_start" /\ "await_start" \in Awaiting
    BY <1>1, <1>4, InvSession, ContinueStep DEF Awaiting
  <2>2. Collected(s)'
    BY <1>1, <1>2, <2>1 DEF Collected, CommandKeys
  <2>3. Place(s)' = Place(s) + 1
    BY <1>1, <2>1 DEF Place
  <2> QED
    BY <1>1, <1>4, <2>1, <2>2, <2>3, CommandInStep
<1> QED
  BY <1>3, <1>4 DEF RecvReply

\* A file has at least one chunk.
LEMMA SomeChunks ==
  ASSUME NEW s \in Session, srv[s].data \in Content
  PROVE  srv[s].data \in Seq(Nat) /\ ChunksOf(s) \in Nat \ {0}
<1>1. srv[s].data \in Seq(Nat)
  BY SessionAssumption DEF SessionAssumption
<1> QED
  BY <1>1, ChunksCover DEF ChunksOf

\* A genuine announcement is refused only by a command that expects another peer
\* or does not know the owner.
LEMMA StartTransfer ==
  ASSUME Inv, NEW s \in Session, InTransfer(s), RecvTransferStart(s)
  PROVE  InTransfer(s)'
<1>1. /\ cpc[s] = "await_start" /\ cpc[s] \in Awaiting /\ s2c[s] # <<>>
      /\ UNCHANGED <<spc, srv, req>> /\ Place(s) = 2
  BY DEF RecvTransferStart, threadVars, Awaiting, Place
<1>2. /\ cli[s].start = None /\ cli[s].got = 0 /\ DOMAIN cli[s].chunks = {}
      /\ cli[s].keys = CommandKeys(s)
  BY <1>1 DEF InTransfer, Collected
<1> DEFINE env == Head(s2c[s])
<1>3. CASE Finish(s, "error") /\ UNCHANGED cli
  BY <1>1, <1>2, <1>3, QuietStop
<1>4. ASSUME env.type = "TRANSFER_START"
      PROVE  /\ env = BuildEnvelope(srv[s].me, "TRANSFER_START", StartOf(s))
             /\ env.payload = StartOf(s) /\ srv[s].data \in Content
             /\ srv[s].file = req[s].file /\ spc[s] \in {"sending", "done"}
  <2>1. PICK m, n : m = env /\ n = 2 /\ IsFrame(s, m, n)
    BY <1>1, NextFrame
  <2>2. /\ env = BuildEnvelope(srv[s].me, "TRANSFER_START", StartOf(s))
        /\ env.payload = StartOf(s) /\ srv[s].data \in Content
    BY <1>4, <2>1, EnvelopeFields DEF IsFrame
  <2>3. srv[s].file = req[s].file
    <3>1. Announces(env.payload, s)
      BY <1>1, <1>4, InvSession, WaitingFrame DEF Custody
    <3> QED
      BY <2>2, <3>1 DEF Announces, StartOf, TransferStart
  <2>4. spc[s] # "done" => Sent(s) > 2
    BY <1>1, NextFrame
  <2>5. spc[s] \in HandlerStates \ {"none"}
    BY <1>1, InvSession DEF InTransfer, InStep, Domains
  <2> QED
    BY <2>2, <2>3, <2>4, <2>5 DEF Sent, HandlerStates
<1>5. CASE /\ env.type = "TRANSFER_START" /\ Finish(s, "security") /\ UNCHANGED cli
           /\ ~(VerifyEnvelope(env, req[s].peer) /\ ManifestGenuine(s, env.payload))
  <2>1. srv[s].me # req[s].peer \/ FileOwner[req[s].file] \notin req[s].knows
    <3>1. VerifyEnvelope(env, srv[s].me)
      BY <1>4, <1>5 DEF BuildEnvelope, VerifyEnvelope, Ed25519Verify
    <3>2. FileOwner[srv[s].file] \in req[s].knows => ManifestGenuine(s, StartOf(s))
      BY DEF ManifestGenuine, StartOf, TransferStart, Ed25519Verify
    <3> QED
      BY <1>4, <1>5, <3>1, <3>2
  <2>2. Explained(s)' /\ "security" \in Outcomes \union {"dead"}
    BY <1>1, <2>1 DEF Explained, Outcomes
  <2> QED
    BY <1>1, <1>5, <2>2, CommandStops
<1>6. CASE /\ env.type = "TRANSFER_START" /\ cli' = [cli EXCEPT ![s].start = env.payload]
           /\ Continue(s, "await_chunk")
  <2>1. cpc'[s] = "await_chunk" /\ "await_chunk" \in Awaiting
    BY <1>1, <1>6, InvSession, ContinueStep DEF Awaiting
  <2>2. /\ cli'[s].keys = cli[s].keys /\ cli'[s].start = StartOf(s)
        /\ cli'[s].got = 0 /\ DOMAIN cli'[s].chunks = {}
    BY <1>2, <1>4, <1>6, InvSession DEF Typed
  <2>3. /\ ChunksOf(s)' = ChunksOf(s) /\ StartOf(s)' = StartOf(s) /\ 0 < ChunksOf(s)
    BY <1>1, <1>4, <1>6, SomeChunks DEF ChunksOf, StartOf, TransferStart
  <2>4. Collected(s)'
    <3>1. 0..(cli'[s].got - 1) = {}
      BY <2>2
    <3>2. cli'[s].keys = CommandKeys(s)'
      BY <1>1, <1>2, <2>2 DEF CommandKeys
    <3> QED
      BY <1>1, <1>4, <1>6, <2>1, <2>2, <2>3, <3>1, <3>2 DEF Collected
  <2>5. Place(s)' = Place(s) + 1
    BY <1>1, <2>1, <2>2 DEF Place
  <2> QED
    BY <1>1, <1>6, <2>1, <2>4, <2>5, CommandInStep
<1> QED
  BY <1>3, <1>5, <1>6 DEF RecvTransferStart

\* The chunk that is due always authenticates: no alarm here has any cause but a
\* frame that is not the handler's.
LEMMA ChunkTransfer ==
  ASSUME Inv, NEW s \in Session, InTransfer(s), RecvChunk(s)
  PROVE  InTransfer(s)'
<1>1. /\ cpc[s] = "await_chunk" /\ cpc[s] \in Awaiting /\ s2c[s] # <<>>
      /\ UNCHANGED <<spc, srv, req>> /\ Place(s) = 3 + cli[s].got
      /\ cli[s].got \in Nat /\ DOMAIN cli = Session
      /\ DOMAIN cli[s] = {"keys", "start", "chunks", "got"}
  BY InvSession DEF RecvChunk, threadVars, Awaiting, Place, Typed
<1>2. /\ cli[s].start = StartOf(s) /\ srv[s].data \in Content
      /\ cli[s].keys = CommandKeys(s) /\ spc[s] \in {"sending", "done"}
      /\ DOMAIN cli[s].chunks = 0..(cli[s].got - 1)
      /\ \A i \in 0..(cli[s].got - 1) : cli[s].chunks[i] = Chunk(srv[s].data, i)
      /\ cli[s].got < ChunksOf(s)
  BY <1>1 DEF InTransfer, Collected
<1> DEFINE env == Head(s2c[s])
           p == env.payload
           st == cli[s].start
<1>3. PICK got \in Nat : got = cli[s].got
  BY <1>1
<1>4. /\ env.type = "CHUNK" /\ p = [chunk_index |-> got, data |-> ChunkOf(s, got)]
      /\ srv[s].keys = HandlerKeys(s)
  <2>1. PICK m, n : m = env /\ n = 3 + got /\ IsFrame(s, m, n)
    BY <1>1, <1>3, NextFrame
  <2>2. n \notin 0..2 /\ n \notin {0, 1, 2} /\ n # 3 + ChunksOf(s) /\ n - 3 = got
    <3>1. ChunksOf(s) \in Nat
      BY <1>2, SomeChunks
    <3>2. got \in Nat /\ got < ChunksOf(s) /\ n = 3 + got
      BY <1>2, <1>3, <2>1
    <3> HIDE DEF ChunksOf
    <3> QED
      BY <3>1, <3>2
  <2> QED
    BY <2>1, <2>2 DEF IsFrame
<1>5. Decrypts(p.data, cli[s].keys.rx_key, cli[s].keys.rx_nonce, p.chunk_index,
               st.file_id, st.total_chunks, st.id)
  <2>1. /\ cli[s].keys.rx_key = srv[s].keys.tx_key
        /\ cli[s].keys.rx_nonce = srv[s].keys.tx_nonce
    <3>1. Exchange(Eph("i", s), Eph("r", s)) = Exchange(Eph("r", s), Eph("i", s))
      BY DEF Exchange
    <3> QED
      BY <1>2, <1>4, <3>1 DEF HandlerKeys, CommandKeys, Derive
  <2>2. st.file_id = srv[s].file /\ st.total_chunks = TotalChunks(srv[s].data) /\ st.id = s
    BY <1>2 DEF StartOf, TransferStart
  <2> QED
    BY <1>4, <2>1, <2>2 DEF ChunkOf, EncryptChunk, Decrypts
<1>6. /\ cli' = [cli EXCEPT ![s].chunks = WithChunk(@, p.chunk_index, p.data.data),
                            ![s].got = @ + 1]
      /\ Continue(s, IF got + 1 = st.total_chunks THEN "await_done" ELSE "await_chunk")
  BY <1>3, <1>4, <1>5 DEF RecvChunk
<1>7. p.chunk_index = got /\ p.data.data = Chunk(srv[s].data, got)
  BY <1>4 DEF ChunkOf, EncryptChunk
<1>8. /\ cli'[s].keys = cli[s].keys /\ cli'[s].start = cli[s].start /\ cli'[s].got = got + 1
      /\ cli'[s].chunks = WithChunk(cli[s].chunks, got, Chunk(srv[s].data, got))
  BY <1>1, <1>3, <1>6, <1>7
<1>9. /\ DOMAIN cli'[s].chunks = 0..got
      /\ \A i \in 0..got : cli'[s].chunks[i] = Chunk(srv[s].data, i)
  <2>1. DOMAIN cli'[s].chunks = {got} \union 0..(got - 1)
    BY <1>2, <1>3, <1>8 DEF WithChunk
  <2>2. {got} \union 0..(got - 1) = 0..got
    OBVIOUS
  <2>3. \A i \in 0..got : cli'[s].chunks[i] = Chunk(srv[s].data, i)
    BY <1>2, <1>3, <1>8 DEF WithChunk
  <2> QED
    BY <2>1, <2>2, <2>3
<1>10. PICK pc \in {"await_done", "await_chunk"} :
         pc = IF got + 1 = ChunksOf(s) THEN "await_done" ELSE "await_chunk"
  OBVIOUS
<1>11. Continue(s, pc) /\ pc \in Awaiting
  BY <1>2, <1>6, <1>10 DEF StartOf, TransferStart, ChunksOf, Awaiting
<1>12. cpc'[s] = pc
  BY <1>1, <1>11, InvSession, ContinueStep
<1>13. Collected(s)'
  <2>1. ChunksOf(s)' = ChunksOf(s) /\ StartOf(s)' = StartOf(s) /\ CommandKeys(s)' = CommandKeys(s)
    BY <1>1 DEF ChunksOf, StartOf, TransferStart, CommandKeys
  <2>2. /\ pc = "await_chunk" => got + 1 < ChunksOf(s)
        /\ pc = "await_done" => got + 1 = ChunksOf(s)
    BY <1>2, <1>3, <1>10, SomeChunks
  <2>3. cli'[s].got - 1 = got
    BY <1>8
  <2> QED
    BY <1>1, <1>2, <1>8, <1>9, <1>12, <2>1, <2>2, <2>3 DEF Collected
<1>14. Place(s)' = Place(s) + 1
  BY <1>1, <1>3, <1>8, <1>12 DEF Place
<1> QED
  BY <1>1, <1>11, <1>13, <1>14, CommandInStep

\* The hash of the joined chunks is the one announced, unless what was read is
\* not what was shared.
LEMMA DoneTransfer ==
  ASSUME Inv, NEW s \in Session, InTransfer(s), RecvTransferDone(s)
  PROVE  InTransfer(s)'
<1>1. /\ cpc[s] = "await_done" /\ cpc[s] \in Awaiting /\ s2c[s] # <<>>
      /\ UNCHANGED <<spc, srv, req, cli>> /\ Place(s) = 3 + cli[s].got
      /\ cli[s].got \in Nat
  BY InvSession DEF RecvTransferDone, threadVars, Awaiting, Place, Typed
<1>2. /\ cli[s].start = StartOf(s) /\ srv[s].data \in Content
      /\ DOMAIN cli[s].chunks = 0..(cli[s].got - 1)
      /\ \A i \in 0..(cli[s].got - 1) : cli[s].chunks[i] = Chunk(srv[s].data, i)
      /\ cli[s].got = ChunksOf(s) /\ StartOf(s).total_chunks = ChunksOf(s)
  BY <1>1 DEF InTransfer, Collected, StartOf, TransferStart, ChunksOf
<1> DEFINE data == Join(cli[s].chunks, cli[s].start.total_chunks)
<1>3. Head(s2c[s]).type = "TRANSFER_DONE"
  <2>1. PICK m, n : m = Head(s2c[s]) /\ n = 3 + ChunksOf(s) /\ IsFrame(s, m, n)
    BY <1>1, <1>2, NextFrame
  <2>2. n \notin 0..2 /\ n \notin {0, 1, 2} /\ ~(n < 3 + ChunksOf(s))
    BY <1>2, <2>1, SomeChunks
  <2> QED
    BY <2>1, <2>2 DEF IsFrame
<1>4. data = srv[s].data
  <2>1. \A i \in 0..(TotalChunks(srv[s].data) - 1) : cli[s].chunks[i] = Chunk(srv[s].data, i)
    BY <1>2 DEF ChunksOf
  <2>2. srv[s].data \in Seq(Nat)
    BY <1>2, SomeChunks
  <2> QED
    BY <1>2, <2>1, <2>2, JoinUndoesChunk DEF ChunksOf
<1>5. CASE Finish(s, "security") /\ ~Intact(data, cli[s].start)
  <2>1. srv[s].data # Shared[req[s].file]
    <3>1. Announces(cli[s].start, s)
      BY <1>1, InvSession DEF Custody
    <3> QED
      BY <1>4, <1>5, <3>1 DEF Announces, Intact
  <2>2. cli[s].start # None
    <3>1. srv[s].file \in FileId
      <4>1. Announces(cli[s].start, s)
        BY <1>1, InvSession DEF Custody
      <4> QED
        BY <1>2, <4>1 DEF Announces, StartOf, TransferStart
    <3> QED
      BY <1>2, <3>1, AnnouncementAssumption DEF StartOf
  <2>3. Explained(s)' /\ "security" \in Outcomes \union {"dead"}
    BY <1>1, <2>1, <2>2 DEF Explained, Outcomes
  <2> QED
    BY <1>1, <1>5, <2>3, CommandStops
<1>6. CASE Finish(s, "saved")
  BY <1>1, <1>6, QuietStop
<1>7. DOMAIN cli[s].chunks = 0..(cli[s].start.total_chunks - 1)
  BY <1>2
<1> QED
  BY <1>3, <1>5, <1>6, <1>7 DEF RecvTransferDone

----------------------------------------------------------------------------
(* Every step keeps it.                                                    *)

\* A step of one session leaves the others as they were.
LEMMA OthersUntouched ==
  ASSUME Inv, NEW r \in Session, NEW s \in Session, r # s,
         \/ RequestFile(r) \/ ClientStep(r) \/ ClientDies(r)
         \/ HandlerStep(r) \/ TlsFails(r) \/ Consent(r)
  PROVE  Untouched(s)
<1>1. /\ DOMAIN s2c = Session /\ DOMAIN c2s = Session /\ DOMAIN srv = Session
      /\ DOMAIN cli = Session /\ Domains
  BY InvSession
<1>2. ASSUME NEW type, NEW payload, ToClient(r, type, payload)
      PROVE  s2c'[s] = s2c[s]
  BY <1>1, <1>2, SentFrame
<1>3. ASSUME NEW type, NEW payload, ToServer(r, type, payload)
      PROVE  c2s'[s] = c2s[s]
  BY <1>1, <1>3 DEF ToServer
<1>4. ASSUME NEW outcome, Finish(r, outcome) \/ Continue(r, outcome)
      PROVE  s2c'[s] = s2c[s] /\ cpc'[s] = cpc[s]
  BY <1>1, <1>4 DEF Finish, Continue, Domains
<1>5. ASSUME RequestFile(r)
      PROVE  Untouched(s)
  BY <1>1, <1>3, <1>5 DEF RequestFile, Untouched, Domains
<1>6. ASSUME \/ RecvHandshakeResp(r) \/ RecvReply(r) \/ RecvTransferStart(r) \/ RecvChunk(r)
             \/ RecvTransferDone(r) \/ ClientIOFails(r) \/ ClientDies(r)
      PROVE  Untouched(s)
  <2>1. UNCHANGED <<spc, srv, req, approved>>
    BY <1>6 DEF RecvHandshakeResp, RecvReply, RecvTransferStart, RecvChunk,
       RecvTransferDone, ClientIOFails, ClientDies, threadVars
  <2>2. \E outcome : Finish(r, outcome) \/ Continue(r, outcome)
    BY <1>6 DEF RecvHandshakeResp, RecvReply, RecvTransferStart, RecvChunk,
       RecvTransferDone, ClientIOFails, ClientDies
  <2>3. c2s'[s] = c2s[s] /\ cli'[s] = cli[s]
    BY <1>1, <1>3, <1>6 DEF RecvHandshakeResp, RecvReply, RecvTransferStart, RecvChunk,
       RecvTransferDone, ClientIOFails, ClientDies
  <2> QED
    BY <1>4, <2>1, <2>2, <2>3 DEF Untouched
<1>7. ASSUME HandlerStep(r) \/ TlsFails(r) \/ Consent(r)
      PROVE  Untouched(s)
  <2>1. UNCHANGED <<cpc, req, cli>> /\ (s \in approved => s \in approved')
    BY <1>7 DEF HandlerStep, TlsDone, TlsFails, Consent, Dispatch, RecvFileRequest, OpenFile,
       SendChunk, SendDone, HandlerIOFails, clientVars
  <2>2. spc'[s] = spc[s]
    BY <1>1, <1>7 DEF HandlerStep, TlsDone, TlsFails, Consent, Dispatch, RecvFileRequest,
       OpenFile, SendChunk, SendDone, HandlerIOFails, Domains
  <2>3. srv'[s] = srv[s] /\ c2s'[s] = c2s[s]
    BY <1>1, <1>7 DEF HandlerStep, TlsDone, TlsFails, Consent, Dispatch, RecvFileRequest,
       OpenFile, SendChunk, SendDone, HandlerIOFails, Domains
  <2>4. s2c'[s] = s2c[s]
    BY <1>2, <1>7 DEF HandlerStep, TlsDone, TlsFails, Consent, Dispatch, RecvFileRequest,
       OpenFile, SendChunk, SendDone, HandlerIOFails
  <2> QED
    BY <2>1, <2>2, <2>3, <2>4 DEF Untouched
<1> QED
  BY <1>5, <1>6, <1>7 DEF ClientStep

\* A command starts in step with its handler: neither has sent anything.
LEMMA AskTransfer ==
  ASSUME Inv, NEW s \in Session, InTransfer(s), RequestFile(s)
  PROVE  InTransfer(s)'
<1>1. /\ cpc[s] = "idle" /\ UNCHANGED <<cli, s2c>> /\ s2c[s] = <<>>
      /\ cli[s].start = None /\ cli[s].got = 0 /\ DOMAIN cli[s].chunks = {}
  BY InvSession DEF RequestFile, Begun, InTransfer, Collected
<1>2. \/ cpc'[s] \in {"refused", "offline", "dead"}
      \/ cpc'[s] = "await_resp" /\ spc'[s] = "tls"
  BY InvSession DEF RequestFile, Domains
<1>3. InStep(s)'
  <2>1. CASE cpc'[s] \in {"refused", "offline", "dead"}
    BY <2>1 DEF InStep, Awaiting
  <2>2. CASE cpc'[s] = "await_resp" /\ spc'[s] = "tls"
    <3>1. Len(s2c'[s]) = 0 /\ \A m, n : ~OnItsWay(s, m, n)'
      BY <1>1 DEF OnItsWay
    <3>2. Place(s)' = 0 /\ Sent(s)' = 0
      BY <2>2 DEF Place, Sent
    <3> QED
      BY <2>2, <3>1, <3>2 DEF InStep
  <2> QED
    BY <1>2, <2>1, <2>2
<1>4. Collected(s)' /\ Explained(s)'
  BY <1>1, <1>2 DEF Collected, Explained
<1> QED
  BY <1>3, <1>4 DEF InTransfer

\* Stopping the server cuts a connection after some frame.
LEMMA StopTransfer ==
  ASSUME Inv, NEW s \in Session, InTransfer(s), StopServe
  PROVE  InTransfer(s)'
<1>1. /\ UNCHANGED <<srv, cpc, req, cli>> /\ s2c'[s] \in {<<>>, s2c[s]}
      /\ spc'[s] = IF spc[s] = "none" THEN "none" ELSE "done"
  BY DEF StopServe, clientVars
<1>2. /\ Place(s)' = Place(s) /\ ChunksOf(s)' = ChunksOf(s) /\ StartOf(s)' = StartOf(s)
      /\ CommandKeys(s)' = CommandKeys(s)
  BY <1>1 DEF Place, ChunksOf, StartOf, TransferStart, CommandKeys
<1>3. \A m, n : IsFrame(s, m, n)' = IsFrame(s, m, n)
  BY <1>1, <1>2 DEF IsFrame, RespOf, ChunkOf, HandlerKeys
<1>4. \A m, n : OnItsWay(s, m, n)' => OnItsWay(s, m, n)
  BY <1>1, <1>2 DEF OnItsWay
<1>5. InStep(s)'
  BY <1>1, <1>3, <1>4 DEF InTransfer, InStep
<1>6. Collected(s)' /\ Explained(s)'
  BY <1>1, <1>2 DEF InTransfer, Collected, Explained
<1> QED
  BY <1>5, <1>6 DEF InTransfer

LEMMA TransferNext == Inv /\ TransferInv /\ [Next]_vars => TransferInv'
<1> SUFFICES ASSUME Inv, TransferInv, [Next]_vars, NEW s \in Session
             PROVE  InTransfer(s)'
  BY DEF TransferInv
<1>1. InTransfer(s)
  BY DEF TransferInv
<1>2. ASSUME NEW r \in Session,
             \/ RequestFile(r) \/ ClientStep(r) \/ ClientDies(r)
             \/ HandlerStep(r) \/ TlsFails(r) \/ Consent(r)
      PROVE  InTransfer(s)'
  <2>1. CASE r # s
    BY <1>1, <1>2, <2>1, OthersUntouched, UntouchedTransfer
  <2>2. CASE ClientIOFails(s) \/ ClientDies(s)
    <3>1. PICK outcome \in {"offline", "dead"} :
            /\ Finish(s, outcome) /\ cpc[s] \in Awaiting /\ UNCHANGED <<spc, srv, req, cli>>
      BY <2>2 DEF ClientIOFails, ClientDies, RecvFails, threadVars
    <3> QED
      BY <1>1, <3>1, QuietStop
  <2> QED
    BY <1>1, <1>2, <2>1, <2>2, AskTransfer, RespTransfer, ReplyTransfer, StartTransfer,
       ChunkTransfer, DoneTransfer, HandlerTransfer DEF ClientStep
<1>3. CASE StopServe
  BY <1>1, <1>3, StopTransfer
<1>4. CASE \/ StartServe \/ \E c \in Client : ChangeContact(c)
           \/ \E c \in Client \ Unsettled : SaveContact(c)
           \/ \E f \in FileId : EditFile(f)
           \/ UNCHANGED vars
  <2>1. Untouched(s)
    BY <1>4 DEF StartServe, ChangeContact, SaveContact, EditFile, threadVars, clientVars, vars,
       Untouched
  <2> QED
    BY <1>1, <2>1, UntouchedTransfer
<1> QED
  BY <1>2, <1>3, <1>4 DEF Next

LEMMA TransferInit == Init => TransferInv
<1> SUFFICES ASSUME Init, NEW s \in Session PROVE InTransfer(s)
  BY DEF TransferInv
<1>1. cpc[s] = "idle" /\ cli[s] = NoCli
  BY DEF Init
<1>2. InStep(s) /\ Explained(s)
  BY <1>1 DEF InStep, Explained, Awaiting
<1>3. DOMAIN cli[s].chunks = {} /\ cli[s].start = None /\ cli[s].got = 0
  BY <1>1 DEF NoCli
<1>4. Collected(s)
  BY <1>1, <1>3 DEF Collected
<1> QED
  BY <1>2, <1>4 DEF InTransfer

\* Whenever a request ends with a [SECURITY] alarm, or breaks off once chunks are
\* due, the bytes read differ from those shared, another peer answered, or the
\* owner is not a contact: for every file, chunk size and number of connections,
\* and wherever connections and the server fail.
THEOREM AlarmsHaveCause == Spec => []AlarmHasCause
<1>1. TransferInv => AlarmHasCause
  BY DEF TransferInv, InTransfer, Explained, AlarmHasCause
<1> QED
  BY <1>1, TransferInit, TransferNext, Invariance, PTL DEF Spec
=============================================================================
