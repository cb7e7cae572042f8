------------------------- MODULE FileSession_proofs -------------------------
(***************************************************************************)
(* Proofs about FileSession, for every number of connections, clients and  *)
(* files, every content and every chunk size.                              *)
(***************************************************************************)
EXTENDS FileSession, SequenceTheorems, TLAPS

----------------------------------------------------------------------------
(* Queues.  Range(q) is the set of frames in q.                            *)

\* The empty queue is well formed and holds nothing.
LEMMA EmptyQueue == <<>> \in Seq(Range(<<>>)) /\ Range(<<>>) = {}
  BY DEF Range

\* Appending a frame adds that frame and nothing else.
LEMMA AppendFrame ==
  ASSUME NEW q, q \in Seq(Range(q)), NEW m
  PROVE  /\ Append(q, m) \in Seq(Range(Append(q, m)))
         /\ Range(Append(q, m)) = Range(q) \union {m}
<1> DEFINE T == Range(q) \union {m}
           r == Append(q, m)
<1>1. q \in Seq(T) /\ m \in T
  OBVIOUS
<1>2. /\ r \in Seq(T) /\ Len(r) = Len(q) + 1
      /\ \A i \in 1..Len(q) : r[i] = q[i]
      /\ r[Len(q) + 1] = m
  BY <1>1
<1>3. DOMAIN r = 1..(Len(q) + 1) /\ DOMAIN q = 1..Len(q) /\ Len(q) \in Nat
  BY <1>1, <1>2
<1>4. Range(r) = T
  BY <1>2, <1>3 DEF Range
<1> QED
  BY <1>2, <1>4

\* The frame at the head was in the queue, and so is what is left behind it.
LEMMA TakeFrame ==
  ASSUME NEW q, q \in Seq(Range(q)), q # <<>>
  PROVE  /\ Tail(q) \in Seq(Range(Tail(q)))
         /\ Range(Tail(q)) \subseteq Range(q)
         /\ Head(q) \in Range(q)
<1>1. /\ Tail(q) \in Seq(Range(q)) /\ Len(Tail(q)) = Len(q) - 1
      /\ \A i \in 1..Len(Tail(q)) : Tail(q)[i] = q[i + 1]
      /\ Len(q) \in Nat /\ Len(q) # 0 /\ DOMAIN q = 1..Len(q)
      /\ DOMAIN Tail(q) = 1..Len(Tail(q))
      /\ Head(q) = q[1]
  OBVIOUS
<1>2. Range(Tail(q)) \subseteq Range(q)
  BY <1>1 DEF Range
<1>3. \A i \in 1..Len(Tail(q)) : Tail(q)[i] \in Range(Tail(q))
  BY <1>1 DEF Range
<1>4. Tail(q) \in Seq(Range(Tail(q)))
  <2>1. Tail(q) \in [1..Len(Tail(q)) -> Range(q)] /\ Len(Tail(q)) \in Nat
    BY <1>1, LenProperties
  <2>2. Tail(q) \in [1..Len(Tail(q)) -> Range(Tail(q))]
    BY <1>3, <2>1
  <2> QED
    BY <2>1, <2>2, SeqDef
<1>5. Head(q) \in Range(q)
  BY <1>1 DEF Range
<1> QED
  BY <1>2, <1>4, <1>5

----------------------------------------------------------------------------
(* The invariant, session by session.                                      *)

Fifo(q) == q \in Seq(Range(q))

\* The part of the type invariant that speaks of one session.
Typed(s) ==
  /\ DOMAIN srv[s] = {"me", "keys", "file", "data", "idx"}
  /\ srv[s].me \in ServerKey \union {None}
  /\ srv[s].file \in FileId \union {None}
  /\ srv[s].data \in Content \union {None}
  /\ srv[s].idx \in Nat
  /\ spc[s] = "sending" => srv[s].data \in Content
  /\ DOMAIN cli[s] = {"keys", "start", "chunks", "got"}
  /\ cli[s].got \in Nat
  /\ Fifo(c2s[s]) /\ Fifo(s2c[s])

\* A command that has not run has no connection, and nothing is sent before
\* the handler gets to it.
Begun(s) ==
  /\ cpc[s] = "idle" =>
       /\ spc[s] = "none" /\ c2s[s] = <<>> /\ s2c[s] = <<>>
       /\ cli[s].start = None /\ cli[s].keys = None /\ srv[s].keys = None
  /\ spc[s] \notin {"sending", "done"} => srv[s].idx = 0
  /\ spc[s] \in {"tls", "await_init"} => srv[s].keys = None

\* p announces what session s asked for, as its owner published it.
Announces(p, s) ==
  /\ p.file_id = req[s].file /\ p.file_id \in FileId
  /\ p.sha256 = Sha256(Shared[p.file_id])

\* The file a session asked for is the file every later step is about.
Custody(s) ==
  /\ cpc[s] \in Awaiting => req[s].file \in FileId
  /\ \A m \in Range(c2s[s]) : m.type = "FILE_REQUEST" => m.payload = req[s].file
  /\ spc[s] \in {"consent", "approved", "sending"} =>
       srv[s].file = req[s].file /\ srv[s].file \in FileId
  /\ \A m \in Range(s2c[s]) : m.type = "TRANSFER_START" => Announces(m.payload, s)
  /\ cpc[s] \in {"await_chunk", "await_done"} => Announces(cli[s].start, s)

\* Whatever of a file is on its way was approved on that session.
Consented(s) ==
  /\ spc[s] \in {"approved", "sending"} => s \in approved
  /\ \A m \in Range(s2c[s]) : m.type \in {"TRANSFER_START", "CHUNK"} => s \in approved
  /\ cpc[s] \in {"await_chunk", "await_done"} \/ cli[s].start # None => s \in approved

\* The keys of both ends come from the two ephemeral keys and nonces of the
\* session and from the identities of its two ends.
HandlerKeys(s) == Derive(Exchange(Eph("r", s), Eph("i", s)), Rand("i", s), Rand("r", s),
                         ClientOf[s], srv[s].me, FALSE)
CommandKeys(s) == Derive(Exchange(Eph("i", s), Eph("r", s)), Rand("i", s), Rand("r", s),
                         ClientOf[s], srv[s].me, TRUE)

Keyed(s) ==
  /\ \A m \in Range(c2s[s]) : m.type = "HANDSHAKE_INIT" =>
       m.from = ClientOf[s] /\ m.payload = <<Eph("i", s), Rand("i", s)>>
  /\ srv[s].keys \in {None, HandlerKeys(s)}
  /\ spc[s] \in {"await_request", "consent", "approved", "sending"} =>
       srv[s].keys = HandlerKeys(s)
  /\ \A m \in Range(s2c[s]) : m.type = "HANDSHAKE_RESP" =>
       /\ m.from = srv[s].me /\ srv[s].keys = HandlerKeys(s)
       /\ m.payload.eph = Eph("r", s) /\ m.payload.nonce = Rand("r", s)
  /\ cli[s].keys # None =>
       srv[s].keys = HandlerKeys(s) /\ cli[s].keys = CommandKeys(s)

SessionOK(s) == Typed(s) /\ Begun(s) /\ Custody(s) /\ Consented(s) /\ Keyed(s)

\* What is not about one session.
World ==
  /\ up \in BOOLEAN /\ ident \in ServerKey /\ boots \in 0..MaxBoots
  /\ index \subseteq FileId
  /\ contacts \in [Client -> Record] /\ stored \in [Client \ Unsettled -> Record]
  /\ disk \in [FileId -> Content \union {None}]
  /\ received \in [Client -> [FileId -> Content \union {None}]]
  /\ approved \subseteq Session
  /\ SavedIsPublished

Domains ==
  /\ spc \in [Session -> HandlerStates]
  /\ cpc \in [Session -> {"idle", "dead"} \union Awaiting \union Outcomes]
  /\ req \in [Session -> [file : FileId \union {None}, peer : ServerKey \union {None},
                          knows : SUBSET ServerKey]]
  /\ DOMAIN srv = Session /\ DOMAIN cli = Session
  /\ DOMAIN c2s = Session /\ DOMAIN s2c = Session

Inv == World /\ Domains /\ \A s \in Session : SessionOK(s)

\* A step leaves session s as it was.
Untouched(s) ==
  /\ spc'[s] = spc[s] /\ srv'[s] = srv[s] /\ cpc'[s] = cpc[s] /\ req'[s] = req[s]
  /\ cli'[s] = cli[s] /\ c2s'[s] = c2s[s] /\ s2c'[s] = s2c[s]
  /\ s \in approved => s \in approved'

\* A session that is left as it was stays in order.
LEMMA UntouchedOK ==
  ASSUME NEW s \in Session, SessionOK(s), Untouched(s)
  PROVE  SessionOK(s)'
<1>1. Typed(s)' /\ Begun(s)'
  BY DEF SessionOK, Typed, Begun, Untouched
<1>2. Custody(s)' /\ Consented(s)'
  BY DEF SessionOK, Custody, Consented, Announces, Untouched
<1>3. Keyed(s)'
  BY DEF SessionOK, Keyed, HandlerKeys, CommandKeys, Untouched
<1> QED
  BY <1>1, <1>2, <1>3 DEF SessionOK

----------------------------------------------------------------------------
(* What the sending and receiving steps do to the queues.                  *)

\* What an envelope carries.
LEMMA EnvelopeFields ==
  \A fp, type, payload :
    LET m == BuildEnvelope(fp, type, payload)
    IN  m.type = type /\ m.from = fp /\ m.payload = payload
  BY DEF BuildEnvelope

\* A frame sent to the client is the only one that can be new.
LEMMA SendToClient ==
  ASSUME DOMAIN s2c = Session, NEW s \in Session, Fifo(s2c[s]), NEW type, NEW payload,
         ToClient(s, type, payload)
  PROVE  /\ DOMAIN s2c' = Session /\ Fifo(s2c'[s])
         /\ \A r \in Session : r # s => s2c'[r] = s2c[r]
         /\ \A m \in Range(s2c'[s]) :
              \/ m \in Range(s2c[s])
              \/ m.type = type /\ m.payload = payload /\ m.from = srv'[s].me
<1>1. CASE ClientGone(s)
  BY <1>1 DEF ToClient
<1>2. CASE ~ClientGone(s)
  <2> DEFINE m == BuildEnvelope(srv'[s].me, type, payload)
  <2>1. s2c' = [s2c EXCEPT ![s] = Append(s2c[s], m)]
    BY <1>2 DEF ToClient
  <2>2. m.type = type /\ m.payload = payload /\ m.from = srv'[s].me
    BY EnvelopeFields
  <2> HIDE DEF m
  <2>3. /\ Append(s2c[s], m) \in Seq(Range(Append(s2c[s], m)))
        /\ Range(Append(s2c[s], m)) = Range(s2c[s]) \union {m}
    BY AppendFrame DEF Fifo
  <2>4. /\ DOMAIN s2c' = Session /\ s2c'[s] = Append(s2c[s], m)
        /\ \A r \in Session : r # s => s2c'[r] = s2c[r]
    BY <2>1
  <2> QED
    BY <2>2, <2>3, <2>4 DEF Fifo
<1> QED
  BY <1>1, <1>2

\* The same towards the server.
LEMMA SendToServer ==
  ASSUME DOMAIN c2s = Session, NEW s \in Session, Fifo(c2s[s]), NEW type, NEW payload,
         ToServer(s, type, payload)
  PROVE  /\ DOMAIN c2s' = Session /\ Fifo(c2s'[s])
         /\ \A r \in Session : r # s => c2s'[r] = c2s[r]
         /\ \A m \in Range(c2s'[s]) :
              \/ m \in Range(c2s[s])
              \/ m.type = type /\ m.payload = payload /\ m.from = ClientOf[s]
<1> DEFINE m == BuildEnvelope(ClientOf[s], type, payload)
<1>1. c2s' = [c2s EXCEPT ![s] = Append(c2s[s], m)]
  BY DEF ToServer
<1>2. m.type = type /\ m.payload = payload /\ m.from = ClientOf[s]
  BY EnvelopeFields
<1> HIDE DEF m
<1>3. /\ Append(c2s[s], m) \in Seq(Range(Append(c2s[s], m)))
      /\ Range(Append(c2s[s], m)) = Range(c2s[s]) \union {m}
  BY AppendFrame DEF Fifo
<1>4. /\ DOMAIN c2s' = Session /\ c2s'[s] = Append(c2s[s], m)
      /\ \A r \in Session : r # s => c2s'[r] = c2s[r]
  BY <1>1
<1> QED
  BY <1>2, <1>3, <1>4 DEF Fifo

Taken(q, s) == [q EXCEPT ![s] = Tail(q[s])]

\* Taking the frame at the head leaves no frame that was not there.
LEMMA TakeFrom ==
  ASSUME NEW q, DOMAIN q = Session, NEW s \in Session, Fifo(q[s]), q[s] # <<>>
  PROVE  /\ DOMAIN Taken(q, s) = Session /\ Fifo(Taken(q, s)[s])
         /\ \A r \in Session : r # s => Taken(q, s)[r] = q[r]
         /\ Range(Taken(q, s)[s]) \subseteq Range(q[s])
         /\ Head(q[s]) \in Range(q[s])
<1>1. /\ Tail(q[s]) \in Seq(Range(Tail(q[s])))
      /\ Range(Tail(q[s])) \subseteq Range(q[s])
      /\ Head(q[s]) \in Range(q[s])
  BY TakeFrame DEF Fifo
<1>2. /\ Taken(q, s)[s] = Tail(q[s]) /\ DOMAIN Taken(q, s) = Session
      /\ \A r \in Session : r # s => Taken(q, s)[r] = q[r]
  BY DEF Taken
<1> QED
  BY <1>1, <1>2 DEF Fifo

\* When a command ends or goes on, no frame arrives and its state moves.
LEMMA FinishStep ==
  ASSUME Domains, NEW s \in Session, NEW outcome, Finish(s, outcome)
  PROVE  /\ DOMAIN s2c' = Session /\ Fifo(s2c'[s]) /\ Range(s2c'[s]) = {}
         /\ cpc'[s] = outcome
         /\ \A r \in Session : r # s => s2c'[r] = s2c[r] /\ cpc'[r] = cpc[r]
  BY EmptyQueue DEF Finish, Domains, Fifo

LEMMA ContinueStep ==
  ASSUME Domains, NEW s \in Session, Fifo(s2c[s]), s2c[s] # <<>>, NEW pc, Continue(s, pc)
  PROVE  /\ DOMAIN s2c' = Session /\ Fifo(s2c'[s])
         /\ Range(s2c'[s]) \subseteq Range(s2c[s]) /\ Head(s2c[s]) \in Range(s2c[s])
         /\ cpc'[s] = pc
         /\ \A r \in Session : r # s => s2c'[r] = s2c[r] /\ cpc'[r] = cpc[r]
<1>1. s2c' = Taken(s2c, s)
  BY DEF Continue, Taken
<1>2. cpc'[s] = pc /\ \A r \in Session : r # s => cpc'[r] = cpc[r]
  BY DEF Continue, Domains
<1> QED
  BY <1>1, <1>2, TakeFrom DEF Domains

----------------------------------------------------------------------------
(* The invariant holds initially, and every action keeps it.               *)

\* A step of one session need only be checked for that session.
LEMMA OneSession ==
  ASSUME Inv, NEW s \in Session, World', Domains',
         \A r \in Session : r # s => Untouched(r),
         Typed(s)', Begun(s)', Custody(s)', Consented(s)', Keyed(s)'
  PROVE  Inv'
<1>1. \A r \in Session : SessionOK(r)'
  <2> TAKE r \in Session
  <2>1. CASE r = s
    BY <2>1 DEF SessionOK
  <2>2. CASE r # s
    BY <2>2, UntouchedOK DEF Inv
  <2> QED
    BY <2>1, <2>2
<1> QED
  BY <1>1 DEF Inv

LEMMA InitInv == Init => Inv
<1> SUFFICES ASSUME Init PROVE Inv
  OBVIOUS
<1> USE DEF SessionAssumption
<1>1. World
  <2>1. contacts \in [Client -> Record] /\ stored \in [Client \ Unsettled -> Record]
    BY DEF Init, Record, Settled
  <2>2. disk \in [FileId -> Content \union {None}]
    BY SessionAssumption DEF Init
  <2>3. /\ received \in [Client -> [FileId -> Content \union {None}]]
        /\ SavedIsPublished
    BY DEF Init, SavedIsPublished
  <2>4. up \in BOOLEAN /\ ident \in ServerKey /\ boots \in 0..MaxBoots
    <3>1. MaxKey \in Nat \ {0} /\ MaxBoots \in Nat
      BY SessionAssumption
    <3>2. 1 \in 1..MaxKey /\ 0 \in 0..MaxBoots
      BY <3>1
    <3>3. up = FALSE /\ ident = 1 /\ boots = 0
      BY DEF Init
    <3> QED
      BY <3>2, <3>3 DEF ServerKey
  <2> QED
    BY <2>1, <2>2, <2>3, <2>4 DEF Init, World
<1>2. Domains
  BY DEF Init, Domains, HandlerStates, NoReq
<1>3. ASSUME NEW s \in Session PROVE SessionOK(s)
  <2>1. Typed(s)
    BY EmptyQueue DEF Init, Typed, Fifo, NoSrv, NoCli
  <2>2. Begun(s)
    BY DEF Init, Begun, NoSrv, NoCli
  <2>3. Custody(s) /\ Consented(s)
    BY EmptyQueue DEF Init, Custody, Consented, Awaiting, NoCli
  <2>4. Keyed(s)
    BY EmptyQueue DEF Init, Keyed, NoCli, NoSrv
  <2> QED
    BY <2>1, <2>2, <2>3, <2>4 DEF SessionOK
<1> QED
  BY <1>1, <1>2, <1>3 DEF Inv

\* What Inv says of one session, ready for use.
LEMMA InvSession ==
  ASSUME Inv, NEW s \in Session
  PROVE  /\ World /\ Domains
         /\ Typed(s) /\ Begun(s) /\ Custody(s) /\ Consented(s) /\ Keyed(s)
         /\ DOMAIN srv = Session /\ DOMAIN cli = Session
         /\ DOMAIN s2c = Session /\ DOMAIN c2s = Session
         /\ Fifo(c2s[s]) /\ Fifo(s2c[s])
  BY DEF Inv, SessionOK, Domains, Typed

LEMMA DispatchInv ==
  ASSUME Inv, NEW s \in Session, Dispatch(s)
  PROVE  Inv'
<1>1. /\ World /\ Domains
      /\ Typed(s) /\ Begun(s) /\ Custody(s) /\ Consented(s) /\ Keyed(s)
      /\ DOMAIN srv = Session /\ DOMAIN s2c = Session /\ DOMAIN c2s = Session
      /\ Fifo(c2s[s]) /\ Fifo(s2c[s])
  BY InvSession
<1>2. /\ DOMAIN c2s' = Session /\ Fifo(c2s'[s]) /\ Range(c2s'[s]) \subseteq Range(c2s[s])
      /\ \A r \in Session : r # s => c2s'[r] = c2s[r]
      /\ Head(c2s[s]) \in Range(c2s[s])
  <2>1. c2s[s] # <<>> /\ c2s' = Taken(c2s, s)
    BY DEF Dispatch, Taken
  <2> QED
    BY <1>1, <2>1, TakeFrom
<1>3. /\ UNCHANGED <<up, ident, boots, index, contacts, stored, disk, cpc, req, cli, received,
                     approved>>
      /\ spc[s] = "await_init"
  BY DEF Dispatch, serveVars, clientVars
<1>4. /\ \/ spc'[s] = "done" /\ srv'[s] = srv[s]
         \/ spc'[s] = "await_request" /\ srv'[s] = [srv[s] EXCEPT !.keys = HandlerKeys(s)]
      /\ DOMAIN s2c' = Session /\ Fifo(s2c'[s])
      /\ DOMAIN srv' = Session /\ spc' \in [Session -> HandlerStates]
      /\ \A r \in Session : r # s => spc'[r] = spc[r] /\ srv'[r] = srv[r] /\ s2c'[r] = s2c[r]
      /\ \A m \in Range(s2c'[s]) :
           \/ m \in Range(s2c[s])
           \/ m.type = "ERROR"
           \/ /\ m.type = "HANDSHAKE_RESP" /\ m.from = srv[s].me
              /\ m.payload.eph = Eph("r", s) /\ m.payload.nonce = Rand("r", s)
              /\ spc'[s] = "await_request"
  <2>1. CASE ~Admitted(Head(c2s[s]))
    <3>1. spc' = [spc EXCEPT ![s] = "done"] /\ srv' = srv /\ ToClient(s, "ERROR", <<>>)
      BY <2>1 DEF Dispatch
    <3>2. spc'[s] = "done" /\ \A r \in Session : r # s => spc'[r] = spc[r]
      BY <1>1, <3>1 DEF Domains
    <3>3. spc' \in [Session -> HandlerStates]
      BY <1>1, <3>1 DEF Domains, HandlerStates
    <3> QED
      BY <1>1, <3>1, <3>2, <3>3, SendToClient
  <2>2. CASE Admitted(Head(c2s[s]))
    <3> DEFINE sig == Sign(srv[s].me, Transcript(Head(c2s[s]).from, srv[s].me,
                        Head(c2s[s]).payload[1], Eph("r", s), Head(c2s[s]).payload[2],
                        Rand("r", s)))
               resp == [eph |-> Eph("r", s), nonce |-> Rand("r", s), tsig |-> sig]
    <3>1. /\ Head(c2s[s]).type = "HANDSHAKE_INIT"
          /\ Head(c2s[s]).from = ClientOf[s]
          /\ Head(c2s[s]).payload[1] = Eph("i", s) /\ Head(c2s[s]).payload[2] = Rand("i", s)
      BY <1>1, <1>2, <2>2 DEF Admitted, Keyed
    <3>2. /\ spc' = [spc EXCEPT ![s] = "await_request"]
          /\ srv' = [srv EXCEPT ![s].keys = HandlerKeys(s)]
          /\ ToClient(s, "HANDSHAKE_RESP", resp)
      BY <2>2, <3>1 DEF Dispatch, HandlerKeys
    <3>3. resp.eph = Eph("r", s) /\ resp.nonce = Rand("r", s)
      OBVIOUS
    <3> HIDE DEF resp
    <3>4. spc'[s] = "await_request" /\ \A r \in Session : r # s => spc'[r] = spc[r]
      BY <1>1, <3>2 DEF Domains
    <3>5. spc' \in [Session -> HandlerStates]
      BY <1>1, <3>2 DEF Domains, HandlerStates
    <3>6. /\ srv'[s] = [srv[s] EXCEPT !.keys = HandlerKeys(s)] /\ DOMAIN srv' = Session
          /\ \A r \in Session : r # s => srv'[r] = srv[r]
      BY <1>1, <3>2 DEF Domains
    <3>7. srv'[s].me = srv[s].me
      BY <1>1, <3>6 DEF Typed
    <3> QED
      BY <1>1, <3>2, <3>3, <3>4, <3>5, <3>6, <3>7, SendToClient
  <2> QED
    BY <2>1, <2>2
<1>5. /\ srv'[s].me = srv[s].me /\ srv'[s].file = srv[s].file /\ srv'[s].data = srv[s].data
      /\ srv'[s].idx = srv[s].idx /\ DOMAIN srv'[s] = DOMAIN srv[s]
      /\ spc'[s] = "done" => srv'[s].keys = srv[s].keys
      /\ spc'[s] = "await_request" => srv'[s].keys = HandlerKeys(s)
  BY <1>1, <1>4 DEF Typed
<1>6. World' /\ Domains'
  BY <1>1, <1>2, <1>3, <1>4 DEF World, Domains, SavedIsPublished
<1>7. \A r \in Session : r # s => Untouched(r)
  BY <1>2, <1>3, <1>4 DEF Untouched
<1>8. Typed(s)' /\ Begun(s)'
  BY <1>1, <1>2, <1>3, <1>4, <1>5 DEF Typed, Begun
<1>9. Custody(s)' /\ Consented(s)'
  BY <1>1, <1>2, <1>3, <1>4, <1>5 DEF Custody, Announces, Consented
<1>10. Keyed(s)'
  BY <1>1, <1>2, <1>3, <1>4, <1>5 DEF Keyed, HandlerKeys, CommandKeys, Begun
<1> QED
  BY <1>6, <1>7, <1>8, <1>9, <1>10, OneSession

LEMMA RequestFileInv ==
  ASSUME Inv, NEW s \in Session, RequestFile(s)
  PROVE  Inv'
<1>1. /\ World /\ Domains
      /\ Typed(s) /\ Begun(s) /\ Custody(s) /\ Consented(s) /\ Keyed(s)
      /\ DOMAIN srv = Session /\ DOMAIN c2s = Session /\ Fifo(c2s[s])
  BY InvSession
<1>2. /\ UNCHANGED <<up, ident, boots, index, contacts, stored, disk, cli, s2c, received, approved>>
      /\ cpc[s] = "idle"
  BY DEF RequestFile, serveVars
<1>3. /\ spc[s] = "none" /\ Range(c2s[s]) = {} /\ Range(s2c[s]) = {} /\ srv[s].idx = 0
      /\ cli[s].start = None /\ cli[s].keys = None /\ srv[s].keys = None
  BY <1>1, <1>2, EmptyQueue DEF Begun
<1>4. PICK f \in FileId, knows \in SUBSET ServerKey, peer \in ServerKey :
        /\ req' = [req EXCEPT ![s] = [file |-> f, peer |-> peer, knows |-> knows]]
        /\ \/ /\ cpc' = [cpc EXCEPT ![s] = "refused"] \/ cpc' = [cpc EXCEPT ![s] = "offline"]
              /\ UNCHANGED <<spc, srv, c2s>>
           \/ /\ spc' = [spc EXCEPT ![s] = "tls"]
              /\ srv' = [srv EXCEPT ![s].me = ident]
              /\ \/ /\ cpc' = [cpc EXCEPT ![s] = "await_resp"]
                    /\ ToServer(s, "HANDSHAKE_INIT", <<Eph("i", s), Rand("i", s)>>)
                 \/ /\ \E outcome \in {"offline", "dead"} : cpc' = [cpc EXCEPT ![s] = outcome]
                    /\ UNCHANGED c2s
  BY DEF RequestFile
<1>5. /\ req' \in [Session -> [file : FileId \union {None}, peer : ServerKey \union {None},
                               knows : SUBSET ServerKey]]
      /\ req'[s].file = f
      /\ \A r \in Session : r # s => req'[r] = req[r]
  BY <1>1, <1>4 DEF Domains
<1>6. /\ DOMAIN srv' = Session /\ DOMAIN c2s' = Session /\ Fifo(c2s'[s])
      /\ DOMAIN srv'[s] = DOMAIN srv[s] /\ srv'[s].me \in ServerKey \union {None}
      /\ srv'[s].keys = srv[s].keys /\ srv'[s].file = srv[s].file
      /\ srv'[s].data = srv[s].data /\ srv'[s].idx = srv[s].idx
      /\ spc'[s] \in {"none", "tls"}
      /\ cpc'[s] \in {"refused", "offline", "dead", "await_resp"}
      /\ spc' \in [Session -> HandlerStates]
      /\ cpc' \in [Session -> {"idle", "dead"} \union Awaiting \union Outcomes]
      /\ \A r \in Session : r # s =>
           spc'[r] = spc[r] /\ cpc'[r] = cpc[r] /\ srv'[r] = srv[r] /\ c2s'[r] = c2s[r]
      /\ \A m \in Range(c2s'[s]) :
           /\ m.type = "HANDSHAKE_INIT" /\ m.from = ClientOf[s]
           /\ m.payload = <<Eph("i", s), Rand("i", s)>>
  <2>1. CASE /\ cpc' = [cpc EXCEPT ![s] = "refused"] \/ cpc' = [cpc EXCEPT ![s] = "offline"]
             /\ UNCHANGED <<spc, srv, c2s>>
    BY <1>1, <1>3, <2>1 DEF Domains, Typed, Outcomes
  <2>2. CASE /\ spc' = [spc EXCEPT ![s] = "tls"]
             /\ srv' = [srv EXCEPT ![s].me = ident]
             /\ \/ /\ cpc' = [cpc EXCEPT ![s] = "await_resp"]
                   /\ ToServer(s, "HANDSHAKE_INIT", <<Eph("i", s), Rand("i", s)>>)
                \/ /\ \E outcome \in {"offline", "dead"} : cpc' = [cpc EXCEPT ![s] = outcome]
                   /\ UNCHANGED c2s
    <3>0. PICK outcome \in {"offline", "dead", "await_resp"} :
            cpc' = [cpc EXCEPT ![s] = outcome]
      BY <2>2
    <3>1. /\ cpc'[s] = outcome /\ spc'[s] = "tls"
          /\ \A r \in Session : r # s => cpc'[r] = cpc[r] /\ spc'[r] = spc[r]
      BY <1>1, <2>2, <3>0 DEF Domains
    <3>2. /\ cpc' \in [Session -> {"idle", "dead"} \union Awaiting \union Outcomes]
          /\ spc' \in [Session -> HandlerStates]
      BY <1>1, <2>2, <3>0 DEF Domains, Awaiting, Outcomes, HandlerStates
    <3>3. /\ DOMAIN srv' = Session /\ DOMAIN srv'[s] = DOMAIN srv[s]
          /\ srv'[s].me \in ServerKey \union {None}
          /\ srv'[s].keys = srv[s].keys /\ srv'[s].file = srv[s].file
          /\ srv'[s].data = srv[s].data /\ srv'[s].idx = srv[s].idx
          /\ \A r \in Session : r # s => srv'[r] = srv[r]
      BY <1>1, <2>2 DEF Typed, World
    <3>4. /\ DOMAIN c2s' = Session /\ Fifo(c2s'[s])
          /\ \A r \in Session : r # s => c2s'[r] = c2s[r]
          /\ \A m \in Range(c2s'[s]) :
               /\ m.type = "HANDSHAKE_INIT" /\ m.from = ClientOf[s]
               /\ m.payload = <<Eph("i", s), Rand("i", s)>>
      <4>1. CASE ToServer(s, "HANDSHAKE_INIT", <<Eph("i", s), Rand("i", s)>>)
        BY <1>1, <1>3, <4>1, SendToServer
      <4>2. CASE UNCHANGED c2s
        BY <1>1, <1>3, <4>2
      <4> QED
        BY <2>2, <4>1, <4>2
    <3> QED
      BY <3>1, <3>2, <3>3, <3>4
  <2> QED
    BY <1>4, <2>1, <2>2
<1>7. World' /\ Domains'
  BY <1>1, <1>2, <1>5, <1>6 DEF World, Domains, SavedIsPublished
<1>8. \A r \in Session : r # s => Untouched(r)
  BY <1>2, <1>5, <1>6 DEF Untouched
<1>9. Typed(s)' /\ Begun(s)'
  BY <1>1, <1>2, <1>3, <1>6 DEF Typed, Begun
<1>10. Custody(s)' /\ Consented(s)'
  BY <1>1, <1>2, <1>3, <1>5, <1>6 DEF Custody, Consented, Awaiting
<1>11. Keyed(s)'
  BY <1>2, <1>3, <1>6 DEF Keyed
<1> QED
  BY <1>7, <1>8, <1>9, <1>10, <1>11, OneSession

\* A command that ends, whatever it did to the received store.
LEMMA CommandCloses ==
  ASSUME Inv, NEW s \in Session, NEW outcome \in Outcomes \union {"dead"},
         cpc[s] \in Awaiting, Finish(s, outcome),
         UNCHANGED <<spc, srv, req, cli, c2s, approved>>, World'
  PROVE  Inv'
<1>1. /\ World /\ Domains
      /\ Typed(s) /\ Begun(s) /\ Custody(s) /\ Consented(s) /\ Keyed(s)
  BY InvSession
<1>2. /\ DOMAIN s2c' = Session /\ Fifo(s2c'[s]) /\ Range(s2c'[s]) = {}
      /\ cpc'[s] = outcome
      /\ \A r \in Session : r # s => s2c'[r] = s2c[r] /\ cpc'[r] = cpc[r]
  BY <1>1, FinishStep
<1>3. cpc' \in [Session -> {"idle", "dead"} \union Awaiting \union Outcomes]
  BY <1>1 DEF Finish, Domains
<1>4. outcome \notin Awaiting /\ outcome \notin {"idle", "await_chunk", "await_done"}
  BY DEF Outcomes, Awaiting
<1>5. Domains'
  BY <1>1, <1>2, <1>3 DEF Domains
<1>6. \A r \in Session : r # s => Untouched(r)
  BY <1>2 DEF Untouched
<1>7. Typed(s)' /\ Begun(s)'
  BY <1>1, <1>2, <1>4 DEF Typed, Begun
<1>8. Custody(s)' /\ Consented(s)'
  BY <1>1, <1>2, <1>4 DEF Custody, Consented, Announces
<1>9. Keyed(s)'
  BY <1>1, <1>2 DEF Keyed, HandlerKeys, CommandKeys
<1> QED
  BY <1>5, <1>6, <1>7, <1>8, <1>9, OneSession

\* A command that ends without saving, as most of the client's steps may.
LEMMA CommandEnds ==
  ASSUME Inv, NEW s \in Session, NEW outcome \in Outcomes \union {"dead"},
         cpc[s] \in Awaiting, Finish(s, outcome),
         UNCHANGED <<up, ident, boots, index, contacts, stored, disk, spc, srv, req, cli, c2s,
                     received, approved>>
  PROVE  Inv'
<1>1. World'
  BY DEF Inv, World, SavedIsPublished
<1> QED
  BY <1>1, CommandCloses

\* Nothing but the FILE_REQUEST of session s is sent to a server.
AtMostAsks(s) ==
  /\ DOMAIN c2s' = Session /\ Fifo(c2s'[s])
  /\ \A r \in Session : r # s => c2s'[r] = c2s[r]
  /\ \A m \in Range(c2s'[s]) :
       m \in Range(c2s[s]) \/ (m.type = "FILE_REQUEST" /\ m.payload = req[s].file)

\* In particular when nothing is sent.
LEMMA SilenceAsks ==
  ASSUME Inv, NEW s \in Session, c2s' = c2s
  PROVE  AtMostAsks(s)
<1>1. DOMAIN c2s = Session /\ Fifo(c2s[s])
  BY InvSession
<1> QED
  BY <1>1 DEF AtMostAsks

\* A command that takes a frame and goes on, with its locals changed.
LEMMA CommandGoesOn ==
  ASSUME Inv, NEW s \in Session, NEW pc \in Awaiting,
         cpc[s] \in Awaiting, s2c[s] # <<>>, Continue(s, pc),
         UNCHANGED <<up, ident, boots, index, contacts, stored, disk, spc, srv, req, received,
                     approved>>,
         DOMAIN cli' = Session, \A r \in Session : r # s => cli'[r] = cli[r],
         DOMAIN cli'[s] = DOMAIN cli[s], cli'[s].got \in Nat,
         AtMostAsks(s),
         \/ Announces(cli'[s].start, s) /\ s \in approved
         \/ cli'[s].start = cli[s].start /\ pc \notin {"await_chunk", "await_done"},
         \/ cli'[s].keys = cli[s].keys
         \/ cli'[s].keys = CommandKeys(s) /\ srv[s].keys = HandlerKeys(s)
  PROVE  Inv'
<1>1. /\ World /\ Domains
      /\ Typed(s) /\ Begun(s) /\ Custody(s) /\ Consented(s) /\ Keyed(s)
      /\ Fifo(s2c[s])
  BY InvSession
<1>2. /\ DOMAIN s2c' = Session /\ Fifo(s2c'[s]) /\ Range(s2c'[s]) \subseteq Range(s2c[s])
      /\ cpc'[s] = pc
      /\ \A r \in Session : r # s => s2c'[r] = s2c[r] /\ cpc'[r] = cpc[r]
  BY <1>1, ContinueStep
<1>3. cpc' \in [Session -> {"idle", "dead"} \union Awaiting \union Outcomes]
  BY <1>1 DEF Continue, Domains
<1>4. pc # "idle" /\ cpc[s] # "idle"
  BY DEF Awaiting
<1>5. World' /\ Domains'
  BY <1>1, <1>2, <1>3 DEF AtMostAsks, World, Domains, SavedIsPublished
<1>6. \A r \in Session : r # s => Untouched(r)
  BY <1>2 DEF Untouched, AtMostAsks
<1>7. Typed(s)' /\ Begun(s)'
  BY <1>1, <1>2, <1>4 DEF Typed, Begun, AtMostAsks
<1>8. Custody(s)'
  BY <1>1, <1>2, <1>4 DEF Custody, Announces, AtMostAsks
<1>9. Consented(s)'
  BY <1>1, <1>2, <1>4 DEF Consented
<1>10. Keyed(s)'
  BY <1>1, <1>2 DEF Keyed, AtMostAsks, HandlerKeys, CommandKeys
<1> QED
  BY <1>5, <1>6, <1>7, <1>8, <1>9, <1>10, OneSession

\* A frame waiting for the client is one of those Inv speaks of.
LEMMA WaitingFrame ==
  ASSUME Inv, NEW s \in Session, s2c[s] # <<>>
  PROVE  Head(s2c[s]) \in Range(s2c[s])
  BY InvSession, TakeFrame DEF Fifo

LEMMA RecvHandshakeRespInv ==
  ASSUME Inv, NEW s \in Session, RecvHandshakeResp(s)
  PROVE  Inv'
<1>1. /\ Typed(s) /\ Keyed(s) /\ Consented(s) /\ Fifo(c2s[s])
      /\ DOMAIN cli = Session /\ DOMAIN c2s = Session
  BY InvSession
<1>2. /\ UNCHANGED <<up, ident, boots, index, contacts, stored, disk, spc, srv, req, received,
                     approved>>
      /\ cpc[s] = "await_resp" /\ s2c[s] # <<>> /\ cpc[s] \in Awaiting
  BY DEF RecvHandshakeResp, serveVars, threadVars, Awaiting
<1> DEFINE resp == Head(s2c[s])
           keys == Derive(Exchange(Eph("i", s), resp.payload.eph), Rand("i", s),
                          resp.payload.nonce, ClientOf[s], req[s].peer, TRUE)
<1>3. CASE /\ UNCHANGED <<cli, c2s>>
           /\ \E outcome \in {"error", "security"} : Finish(s, outcome)
  <2>1. PICK outcome \in {"error", "security"} : Finish(s, outcome)
    BY <1>3
  <2>2. outcome \in Outcomes \union {"dead"}
    BY DEF Outcomes
  <2> QED
    BY <1>2, <1>3, <2>1, <2>2, CommandEnds
<1>4. CASE /\ resp.type = "HANDSHAKE_RESP" /\ resp.from = req[s].peer
           /\ cli' = [cli EXCEPT ![s].keys = keys]
           /\ Continue(s, "await_reply")
           /\ ToServer(s, "FILE_REQUEST", req[s].file)
  <2>1. /\ req[s].peer = srv[s].me /\ srv[s].keys = HandlerKeys(s)
        /\ resp.payload.eph = Eph("r", s) /\ resp.payload.nonce = Rand("r", s)
    BY <1>1, <1>2, <1>4, WaitingFrame DEF Keyed
  <2>2. keys = CommandKeys(s)
    BY <2>1 DEF CommandKeys
  <2> HIDE DEF keys
  <2>3. /\ DOMAIN cli' = Session /\ DOMAIN cli'[s] = DOMAIN cli[s]
        /\ \A r \in Session : r # s => cli'[r] = cli[r]
        /\ cli'[s].keys = CommandKeys(s) /\ cli'[s].start = cli[s].start
        /\ cli'[s].got \in Nat
    BY <1>1, <1>4, <2>2 DEF Typed
  <2>4. /\ DOMAIN c2s' = Session /\ Fifo(c2s'[s])
        /\ \A r \in Session : r # s => c2s'[r] = c2s[r]
        /\ \A m \in Range(c2s'[s]) :
             m \in Range(c2s[s]) \/ (m.type = "FILE_REQUEST" /\ m.payload = req[s].file)
    BY <1>1, <1>4, SendToServer
  <2>a. AtMostAsks(s)
    BY <2>4 DEF AtMostAsks
  <2>5. "await_reply" \in Awaiting
    BY DEF Awaiting
  <2> QED
    BY <1>2, <1>4, <2>1, <2>3, <2>a, <2>5, CommandGoesOn
<1> QED
  BY <1>3, <1>4 DEF RecvHandshakeResp

LEMMA RecvReplyInv ==
  ASSUME Inv, NEW s \in Session, RecvReply(s)
  PROVE  Inv'
<1>1. Typed(s) /\ DOMAIN cli = Session
  BY InvSession
<1>2. /\ UNCHANGED <<up, ident, boots, index, contacts, stored, disk, spc, srv, req, cli, c2s,
                     received, approved>>
      /\ s2c[s] # <<>> /\ cpc[s] \in Awaiting
  BY DEF RecvReply, serveVars, threadVars, Awaiting
<1>3. CASE \E outcome \in {"denied", "error"} : Finish(s, outcome)
  <2>1. PICK outcome \in {"denied", "error"} : Finish(s, outcome)
    BY <1>3
  <2>2. outcome \in Outcomes \union {"dead"}
    BY DEF Outcomes
  <2> QED
    BY <1>2, <2>1, <2>2, CommandEnds
<1>4. CASE Continue(s, "await_start")
  <2>1. "await_start" \in Awaiting
    BY DEF Awaiting
  <2>2. /\ cli'[s].got \in Nat /\ cli' = cli /\ DOMAIN cli' = Session
        /\ "await_start" \notin {"await_chunk", "await_done"}
    BY <1>1, <1>2 DEF Typed
  <2>3. AtMostAsks(s)
    BY <1>2, SilenceAsks
  <2> QED
    BY <1>2, <1>4, <2>1, <2>2, <2>3, CommandGoesOn
<1> QED
  BY <1>3, <1>4 DEF RecvReply

LEMMA RecvTransferStartInv ==
  ASSUME Inv, NEW s \in Session, RecvTransferStart(s)
  PROVE  Inv'
<1>1. Typed(s) /\ Custody(s) /\ Consented(s) /\ DOMAIN cli = Session
  BY InvSession
<1>2. /\ UNCHANGED <<up, ident, boots, index, contacts, stored, disk, spc, srv, req, c2s,
                     received, approved>>
      /\ s2c[s] # <<>> /\ cpc[s] \in Awaiting
  BY DEF RecvTransferStart, serveVars, threadVars, Awaiting
<1> DEFINE env == Head(s2c[s])
<1>3. CASE UNCHANGED cli /\ \E outcome \in {"error", "security"} : Finish(s, outcome)
  <2>1. PICK outcome \in {"error", "security"} : Finish(s, outcome)
    BY <1>3
  <2>2. outcome \in Outcomes \union {"dead"}
    BY DEF Outcomes
  <2> QED
    BY <1>2, <1>3, <2>1, <2>2, CommandEnds
<1>4. CASE /\ env.type = "TRANSFER_START"
           /\ cli' = [cli EXCEPT ![s].start = env.payload]
           /\ Continue(s, "await_chunk")
  <2>1. Announces(env.payload, s) /\ s \in approved
    BY <1>1, <1>2, <1>4, WaitingFrame DEF Custody, Consented
  <2>2. /\ DOMAIN cli' = Session /\ DOMAIN cli'[s] = DOMAIN cli[s]
        /\ \A r \in Session : r # s => cli'[r] = cli[r]
        /\ cli'[s].keys = cli[s].keys /\ cli'[s].start = env.payload
        /\ cli'[s].got \in Nat
    BY <1>1, <1>4 DEF Typed
  <2>3. "await_chunk" \in Awaiting
    BY DEF Awaiting
  <2>4. AtMostAsks(s)
    BY <1>2, SilenceAsks
  <2> QED
    BY <1>2, <1>4, <2>1, <2>2, <2>3, <2>4, CommandGoesOn
<1> QED
  BY <1>3, <1>4 DEF RecvTransferStart

LEMMA RecvChunkInv ==
  ASSUME Inv, NEW s \in Session, RecvChunk(s)
  PROVE  Inv'
<1>1. Typed(s) /\ Custody(s) /\ Consented(s) /\ DOMAIN cli = Session
  BY InvSession
<1>2. /\ UNCHANGED <<up, ident, boots, index, contacts, stored, disk, spc, srv, req, c2s,
                     received, approved>>
      /\ s2c[s] # <<>> /\ cpc[s] = "await_chunk" /\ cpc[s] \in Awaiting
  BY DEF RecvChunk, serveVars, threadVars, Awaiting
<1>3. CASE UNCHANGED cli /\ \E outcome \in {"error", "security"} : Finish(s, outcome)
  <2>1. PICK outcome \in {"error", "security"} : Finish(s, outcome)
    BY <1>3
  <2>2. outcome \in Outcomes \union {"dead"}
    BY DEF Outcomes
  <2> QED
    BY <1>2, <1>3, <2>1, <2>2, CommandEnds
<1>4. CASE /\ \E chunks : cli' = [cli EXCEPT ![s].chunks = chunks, ![s].got = @ + 1]
           /\ \E pc \in {"await_done", "await_chunk"} : Continue(s, pc)
  <2>1. PICK pc \in {"await_done", "await_chunk"} : Continue(s, pc)
    BY <1>4
  <2>2. PICK chunks : cli' = [cli EXCEPT ![s].chunks = chunks, ![s].got = @ + 1]
    BY <1>4
  <2>3. /\ DOMAIN cli' = Session /\ DOMAIN cli'[s] = DOMAIN cli[s]
        /\ \A r \in Session : r # s => cli'[r] = cli[r]
        /\ cli'[s].keys = cli[s].keys /\ cli'[s].start = cli[s].start
        /\ cli'[s].got \in Nat
    BY <1>1, <2>2 DEF Typed
  <2>4. Announces(cli[s].start, s) /\ s \in approved
    BY <1>1, <1>2 DEF Custody, Consented
  <2>5. pc \in Awaiting
    BY DEF Awaiting
  <2>6. AtMostAsks(s)
    BY <1>2, SilenceAsks
  <2> QED
    BY <1>2, <2>1, <2>3, <2>4, <2>5, <2>6, CommandGoesOn
<1> QED
  BY <1>3, <1>4 DEF RecvChunk

LEMMA ClientIOFailsInv ==
  ASSUME Inv, NEW s \in Session, ClientIOFails(s) \/ ClientDies(s)
  PROVE  Inv'
<1>1. PICK outcome \in Outcomes \union {"dead"} : Finish(s, outcome)
  BY DEF ClientIOFails, ClientDies, Outcomes
<1>2. /\ UNCHANGED <<up, ident, boots, index, contacts, stored, disk, spc, srv, req, cli, c2s,
                     received, approved>>
      /\ cpc[s] \in Awaiting
  BY DEF ClientIOFails, ClientDies, RecvFails, serveVars, threadVars
<1> QED
  BY <1>1, <1>2, CommandEnds

\* What the handler of session s may do after the handshake: take frames, send
\* frames about the file that was asked for, and move on.
HandlerMoves(s) ==
  /\ DOMAIN c2s' = Session /\ Fifo(c2s'[s]) /\ Range(c2s'[s]) \subseteq Range(c2s[s])
  /\ DOMAIN s2c' = Session /\ Fifo(s2c'[s])
  /\ spc' \in [Session -> HandlerStates] /\ DOMAIN srv' = Session
  /\ approved \subseteq approved' /\ approved' \subseteq Session
  /\ \A r \in Session : r # s =>
       spc'[r] = spc[r] /\ srv'[r] = srv[r] /\ c2s'[r] = c2s[r] /\ s2c'[r] = s2c[r]
  /\ UNCHANGED <<up, ident, boots, index, contacts, stored, disk, cpc, req, cli, received>>

HandlerSends(s) ==
  \A m \in Range(s2c'[s]) : m \in Range(s2c[s]) \/
    /\ m.type # "HANDSHAKE_RESP"
    /\ m.type = "TRANSFER_START" => Announces(m.payload, s)
    /\ m.type \in {"TRANSFER_START", "CHUNK"} => s \in approved'

LEMMA HandlerGoesOn ==
  ASSUME Inv, NEW s \in Session, spc[s] # "none", HandlerMoves(s), HandlerSends(s),
         DOMAIN srv'[s] = DOMAIN srv[s],
         srv'[s].me = srv[s].me, srv'[s].keys = srv[s].keys,
         srv'[s].file \in FileId \union {None}, srv'[s].data \in Content \union {None},
         srv'[s].idx \in Nat,
         spc'[s] \in {"consent", "approved", "sending", "done"},
         spc'[s] # "done" =>
           srv'[s].file = req[s].file /\ srv'[s].file \in FileId /\ srv[s].keys = HandlerKeys(s),
         spc'[s] = "sending" => srv'[s].data \in Content,
         spc'[s] \in {"approved", "sending"} => s \in approved',
         spc'[s] \notin {"sending", "done"} => srv'[s].idx = 0
  PROVE  Inv'
<1>1. /\ World /\ Domains
      /\ Typed(s) /\ Begun(s) /\ Custody(s) /\ Consented(s) /\ Keyed(s)
  BY InvSession
<1>2. World' /\ Domains'
  BY <1>1 DEF World, Domains, SavedIsPublished, HandlerMoves
<1>3. \A r \in Session : r # s => Untouched(r)
  BY DEF Untouched, HandlerMoves
<1>4. Typed(s)' /\ Begun(s)'
  BY <1>1 DEF Typed, Begun, HandlerMoves
<1>5. Custody(s)'
  BY <1>1 DEF Custody, Announces, HandlerMoves, HandlerSends
<1>6. Consented(s)'
  BY <1>1 DEF Consented, HandlerMoves, HandlerSends
<1>7. Keyed(s)'
  BY <1>1 DEF Keyed, HandlerKeys, CommandKeys, HandlerMoves, HandlerSends
<1> QED
  BY <1>2, <1>3, <1>4, <1>5, <1>6, <1>7, OneSession

LEMMA RecvFileRequestInv ==
  ASSUME Inv, NEW s \in Session, RecvFileRequest(s)
  PROVE  Inv'
<1>1. /\ World /\ Domains /\ Typed(s) /\ Begun(s) /\ Custody(s) /\ Keyed(s)
      /\ DOMAIN srv = Session /\ DOMAIN s2c = Session /\ DOMAIN c2s = Session
      /\ Fifo(c2s[s]) /\ Fifo(s2c[s])
  BY InvSession
<1>2. /\ UNCHANGED <<up, ident, boots, index, contacts, stored, disk, cpc, req, cli, received,
                     approved>>
      /\ spc[s] = "await_request"
  BY DEF RecvFileRequest, serveVars, clientVars
<1>3. /\ DOMAIN c2s' = Session /\ Fifo(c2s'[s]) /\ Range(c2s'[s]) \subseteq Range(c2s[s])
      /\ \A r \in Session : r # s => c2s'[r] = c2s[r]
      /\ Head(c2s[s]) \in Range(c2s[s])
  <2>1. c2s[s] # <<>> /\ c2s' = Taken(c2s, s)
    BY DEF RecvFileRequest, Taken
  <2> QED
    BY <1>1, <2>1, TakeFrom
<1>4. approved \subseteq Session
  BY <1>1 DEF World
<1>5. srv[s].keys = HandlerKeys(s) /\ srv[s].idx = 0
  BY <1>1, <1>2 DEF Begun, Keyed
<1>6. CASE /\ spc' = [spc EXCEPT ![s] = "done"] /\ UNCHANGED srv
           /\ \E type \in {"FILE_DENY", "ERROR"} : ToClient(s, type, <<>>)
  <2>1. PICK type \in {"FILE_DENY", "ERROR"} : ToClient(s, type, <<>>)
    BY <1>6
  <2>2. /\ DOMAIN s2c' = Session /\ Fifo(s2c'[s])
        /\ \A r \in Session : r # s => s2c'[r] = s2c[r]
        /\ \A m \in Range(s2c'[s]) : m \in Range(s2c[s]) \/ m.type = type
    BY <1>1, <2>1, SendToClient
  <2>3. /\ spc' \in [Session -> HandlerStates] /\ spc'[s] = "done"
        /\ \A r \in Session : r # s => spc'[r] = spc[r]
    BY <1>1, <1>6 DEF Domains, HandlerStates
  <2>4. HandlerMoves(s)
    BY <1>1, <1>2, <1>3, <1>4, <1>6, <2>2, <2>3 DEF HandlerMoves
  <2>5. HandlerSends(s)
    BY <2>2 DEF HandlerSends
  <2>6. /\ srv[s].file \in FileId \union {None} /\ srv[s].data \in Content \union {None}
        /\ srv[s].idx \in Nat
    BY <1>1 DEF Typed
  <2> QED
    BY <1>2, <1>6, <2>3, <2>4, <2>5, <2>6, HandlerGoesOn
<1>7. CASE /\ Head(c2s[s]).type = "FILE_REQUEST" /\ Head(c2s[s]).payload \in index
           /\ spc' = [spc EXCEPT ![s] = "consent"] /\ UNCHANGED s2c
           /\ srv' = [srv EXCEPT ![s].file = Head(c2s[s]).payload]
  <2>1. Head(c2s[s]).payload = req[s].file /\ req[s].file \in FileId
    BY <1>1, <1>3, <1>7 DEF Custody, World
  <2>2. /\ spc' \in [Session -> HandlerStates] /\ spc'[s] = "consent"
        /\ \A r \in Session : r # s => spc'[r] = spc[r]
    BY <1>1, <1>7 DEF Domains, HandlerStates
  <2>3. srv' = [srv EXCEPT ![s].file = req[s].file]
    BY <1>7, <2>1
  <2>4. /\ DOMAIN srv' = Session /\ DOMAIN srv'[s] = DOMAIN srv[s]
        /\ \A r \in Session : r # s => srv'[r] = srv[r]
        /\ srv'[s].me = srv[s].me /\ srv'[s].keys = srv[s].keys
        /\ srv'[s].file = req[s].file /\ srv'[s].file \in FileId
        /\ srv'[s].data \in Content \union {None}
        /\ srv'[s].idx = srv[s].idx /\ srv'[s].idx \in Nat
    BY <1>1, <2>1, <2>3 DEF Typed
  <2>5. HandlerMoves(s)
    BY <1>1, <1>2, <1>3, <1>4, <1>7, <2>2, <2>4 DEF HandlerMoves
  <2>6. HandlerSends(s)
    BY <1>7 DEF HandlerSends
  <2> QED
    BY <1>2, <1>5, <2>2, <2>4, <2>5, <2>6, HandlerGoesOn
<1> QED
  BY <1>6, <1>7 DEF RecvFileRequest

LEMMA ConsentInv ==
  ASSUME Inv, NEW s \in Session, Consent(s)
  PROVE  Inv'
<1>1. /\ World /\ Domains /\ Typed(s) /\ Begun(s) /\ Custody(s) /\ Keyed(s)
      /\ DOMAIN srv = Session /\ DOMAIN s2c = Session /\ DOMAIN c2s = Session
      /\ Fifo(c2s[s]) /\ Fifo(s2c[s])
  BY InvSession
<1>2. /\ UNCHANGED <<up, ident, boots, index, contacts, stored, disk, cpc, req, cli, received,
                     srv, c2s>>
      /\ spc[s] = "consent"
  BY DEF Consent, serveVars, clientVars
<1>3. PICK allowed \in BOOLEAN :
        /\ approved' = IF allowed THEN approved \union {s} ELSE approved
        /\ spc' = [spc EXCEPT ![s] = IF allowed THEN "approved" ELSE "done"]
        /\ ToClient(s, IF allowed THEN "FILE_APPROVE" ELSE "FILE_DENY", srv[s].file)
  BY Zenon DEF Consent, AfterConsent
<1>4. /\ DOMAIN s2c' = Session /\ Fifo(s2c'[s])
      /\ \A r \in Session : r # s => s2c'[r] = s2c[r]
      /\ \A m \in Range(s2c'[s]) :
           m \in Range(s2c[s]) \/ m.type \in {"FILE_APPROVE", "FILE_DENY"}
  <2>1. PICK type \in {"FILE_APPROVE", "FILE_DENY"} : ToClient(s, type, srv[s].file)
    BY <1>3
  <2> QED
    BY <1>1, <2>1, SendToClient
<1>5. /\ spc' \in [Session -> HandlerStates]
      /\ \A r \in Session : r # s => spc'[r] = spc[r]
      /\ spc'[s] \in {"approved", "done"}
      /\ spc'[s] = "approved" => s \in approved'
      /\ approved \subseteq approved' /\ approved' \subseteq Session
  BY <1>1, <1>3 DEF Domains, World, HandlerStates
<1>6. HandlerMoves(s)
  BY <1>1, <1>2, <1>4, <1>5 DEF HandlerMoves
<1>7. HandlerSends(s)
  BY <1>4 DEF HandlerSends
<1>8. /\ srv[s].file = req[s].file /\ srv[s].file \in FileId /\ srv[s].idx = 0
      /\ srv[s].keys = HandlerKeys(s)
      /\ srv[s].data \in Content \union {None}
  BY <1>1, <1>2 DEF Typed, Begun, Custody, Keyed
<1> QED
  BY <1>2, <1>5, <1>6, <1>7, <1>8, HandlerGoesOn

LEMMA OpenFileInv ==
  ASSUME Inv, NEW s \in Session, OpenFile(s)
  PROVE  Inv'
<1>1. /\ World /\ Domains /\ Typed(s) /\ Begun(s) /\ Custody(s) /\ Consented(s) /\ Keyed(s)
      /\ DOMAIN srv = Session /\ DOMAIN s2c = Session /\ DOMAIN c2s = Session
      /\ Fifo(c2s[s]) /\ Fifo(s2c[s])
  BY InvSession
<1>2. /\ UNCHANGED <<up, ident, boots, index, contacts, stored, disk, cpc, req, cli, received,
                     c2s, approved>>
      /\ spc[s] = "approved"
  BY DEF OpenFile, serveVars, clientVars
<1>3. /\ srv[s].file = req[s].file /\ srv[s].file \in FileId /\ srv[s].idx = 0
      /\ srv[s].keys = HandlerKeys(s) /\ s \in approved /\ approved \subseteq Session
      /\ disk[srv[s].file] \in Content \union {None}
      /\ srv[s].data \in Content \union {None}
  BY <1>1, <1>2 DEF World, Typed, Begun, Custody, Consented, Keyed
<1>4. CASE /\ spc' = [spc EXCEPT ![s] = "done"] /\ UNCHANGED srv
           /\ ToClient(s, "ERROR", <<>>)
  <2>1. /\ DOMAIN s2c' = Session /\ Fifo(s2c'[s])
        /\ \A r \in Session : r # s => s2c'[r] = s2c[r]
        /\ \A m \in Range(s2c'[s]) : m \in Range(s2c[s]) \/ m.type = "ERROR"
    BY <1>1, <1>4, SendToClient
  <2>2. /\ spc' \in [Session -> HandlerStates] /\ spc'[s] = "done"
        /\ \A r \in Session : r # s => spc'[r] = spc[r]
    BY <1>1, <1>4 DEF Domains, HandlerStates
  <2>3. HandlerMoves(s)
    BY <1>1, <1>2, <1>3, <1>4, <2>1, <2>2 DEF HandlerMoves
  <2>4. HandlerSends(s)
    BY <2>1 DEF HandlerSends
  <2> QED
    BY <1>2, <1>3, <1>4, <2>2, <2>3, <2>4, HandlerGoesOn
<1>5. CASE /\ disk[srv[s].file] # None
           /\ spc' = [spc EXCEPT ![s] = "sending"]
           /\ srv' = [srv EXCEPT ![s].data = disk[srv[s].file]]
           /\ \E p : /\ p.file_id = srv[s].file /\ p.sha256 = Sha256(Shared[srv[s].file])
                     /\ ToClient(s, "TRANSFER_START", p)
  <2>1. PICK p : /\ p.file_id = srv[s].file /\ p.sha256 = Sha256(Shared[srv[s].file])
                 /\ ToClient(s, "TRANSFER_START", p)
    BY <1>5
  <2>2. Announces(p, s)
    BY <1>3, <2>1 DEF Announces
  <2>3. /\ DOMAIN s2c' = Session /\ Fifo(s2c'[s])
        /\ \A r \in Session : r # s => s2c'[r] = s2c[r]
        /\ \A m \in Range(s2c'[s]) :
             m \in Range(s2c[s]) \/ (m.type = "TRANSFER_START" /\ m.payload = p)
    BY <1>1, <2>1, SendToClient
  <2>4. /\ spc' \in [Session -> HandlerStates] /\ spc'[s] = "sending"
        /\ \A r \in Session : r # s => spc'[r] = spc[r]
    BY <1>1, <1>5 DEF Domains, HandlerStates
  <2>5. /\ DOMAIN srv' = Session /\ DOMAIN srv'[s] = DOMAIN srv[s]
        /\ \A r \in Session : r # s => srv'[r] = srv[r]
        /\ srv'[s].me = srv[s].me /\ srv'[s].keys = srv[s].keys
        /\ srv'[s].file = srv[s].file /\ srv'[s].idx = srv[s].idx
        /\ srv'[s].data \in Content
    BY <1>1, <1>3, <1>5 DEF Typed
  <2>6. HandlerMoves(s)
    BY <1>1, <1>2, <1>3, <2>3, <2>4, <2>5 DEF HandlerMoves
  <2>7. HandlerSends(s)
    BY <1>2, <1>3, <2>2, <2>3 DEF HandlerSends
  <2> QED
    BY <1>2, <1>3, <2>4, <2>5, <2>6, <2>7, HandlerGoesOn
<1> QED
  BY <1>4, <1>5 DEF OpenFile, TransferStart

LEMMA SendChunkInv ==
  ASSUME Inv, NEW s \in Session, SendChunk(s)
  PROVE  Inv'
<1>1. /\ World /\ Domains /\ Typed(s) /\ Begun(s) /\ Custody(s) /\ Consented(s) /\ Keyed(s)
      /\ DOMAIN srv = Session /\ DOMAIN s2c = Session /\ DOMAIN c2s = Session
      /\ Fifo(c2s[s]) /\ Fifo(s2c[s])
  BY InvSession
<1>2. /\ UNCHANGED <<up, ident, boots, index, contacts, stored, disk, cpc, req, cli, received,
                     c2s, approved, spc>>
      /\ spc[s] = "sending"
      /\ srv' = [srv EXCEPT ![s].idx = srv[s].idx + 1]
  BY DEF SendChunk, serveVars, clientVars
<1>3. /\ srv[s].file = req[s].file /\ srv[s].file \in FileId /\ srv[s].data \in Content
      /\ srv[s].keys = HandlerKeys(s) /\ s \in approved /\ approved \subseteq Session
  BY <1>1, <1>2 DEF World, Typed, Custody, Consented, Keyed
<1>4. PICK p : ToClient(s, "CHUNK", p)
  BY DEF SendChunk
<1>5. /\ DOMAIN s2c' = Session /\ Fifo(s2c'[s])
      /\ \A r \in Session : r # s => s2c'[r] = s2c[r]
      /\ \A m \in Range(s2c'[s]) : m \in Range(s2c[s]) \/ m.type = "CHUNK"
  BY <1>1, <1>4, SendToClient
<1>6. /\ DOMAIN srv' = Session /\ DOMAIN srv'[s] = DOMAIN srv[s]
      /\ \A r \in Session : r # s => srv'[r] = srv[r]
      /\ srv'[s].me = srv[s].me /\ srv'[s].keys = srv[s].keys
      /\ srv'[s].file = srv[s].file /\ srv'[s].data = srv[s].data
      /\ srv'[s].idx \in Nat
  BY <1>1, <1>2 DEF Typed
<1>7. HandlerMoves(s)
  BY <1>1, <1>2, <1>3, <1>5, <1>6 DEF HandlerMoves, Domains
<1>8. HandlerSends(s)
  BY <1>2, <1>3, <1>5 DEF HandlerSends
<1> QED
  BY <1>2, <1>3, <1>6, <1>7, <1>8, HandlerGoesOn

LEMMA HandlerEndsInv ==
  ASSUME Inv, NEW s \in Session, SendDone(s) \/ HandlerIOFails(s) \/ TlsFails(s)
  PROVE  Inv'
<1>1. /\ World /\ Domains /\ Typed(s)
      /\ DOMAIN srv = Session /\ DOMAIN s2c = Session /\ DOMAIN c2s = Session
      /\ Fifo(c2s[s]) /\ Fifo(s2c[s])
  BY InvSession
<1>2. /\ UNCHANGED <<up, ident, boots, index, contacts, stored, disk, cpc, req, cli, received,
                     srv, c2s, approved>>
      /\ spc[s] # "none"
      /\ spc' = [spc EXCEPT ![s] = "done"]
      /\ s2c' = s2c \/ ToClient(s, "TRANSFER_DONE", <<>>)
  BY DEF SendDone, HandlerIOFails, HandlerRecvFails, HandlerSendFails, TlsFails, serveVars,
     clientVars
<1>3. /\ DOMAIN s2c' = Session /\ Fifo(s2c'[s])
      /\ \A r \in Session : r # s => s2c'[r] = s2c[r]
      /\ \A m \in Range(s2c'[s]) : m \in Range(s2c[s]) \/ m.type = "TRANSFER_DONE"
  BY <1>1, <1>2, SendToClient
<1>4. /\ spc' \in [Session -> HandlerStates] /\ spc'[s] = "done"
      /\ \A r \in Session : r # s => spc'[r] = spc[r]
  BY <1>1, <1>2 DEF Domains, HandlerStates
<1>5. HandlerMoves(s)
  BY <1>1, <1>2, <1>3, <1>4 DEF HandlerMoves, World
<1>6. HandlerSends(s)
  BY <1>3 DEF HandlerSends
<1>7. /\ srv[s].file \in FileId \union {None} /\ srv[s].data \in Content \union {None}
      /\ srv[s].idx \in Nat
  BY <1>1 DEF Typed
<1> QED
  BY <1>2, <1>4, <1>5, <1>6, <1>7, HandlerGoesOn

LEMMA TlsDoneInv ==
  ASSUME Inv, NEW s \in Session, TlsDone(s)
  PROVE  Inv'
<1>1. /\ World /\ Domains /\ Typed(s) /\ Begun(s) /\ Custody(s) /\ Consented(s) /\ Keyed(s)
  BY InvSession
<1>2. /\ UNCHANGED <<up, ident, boots, index, contacts, stored, disk, cpc, req, cli, received,
                     srv, c2s, s2c, approved>>
      /\ spc[s] = "tls" /\ spc' = [spc EXCEPT ![s] = "await_init"]
  BY DEF TlsDone, serveVars, clientVars
<1>3. /\ spc' \in [Session -> HandlerStates] /\ spc'[s] = "await_init"
      /\ \A r \in Session : r # s => spc'[r] = spc[r]
  BY <1>1, <1>2 DEF Domains, HandlerStates
<1>4. World' /\ Domains'
  BY <1>1, <1>2, <1>3 DEF World, Domains, SavedIsPublished
<1>5. \A r \in Session : r # s => Untouched(r)
  BY <1>2, <1>3 DEF Untouched
<1>6. Typed(s)' /\ Begun(s)'
  BY <1>1, <1>2, <1>3 DEF Typed, Begun, Fifo
<1>7. Custody(s)' /\ Consented(s)'
  BY <1>1, <1>2, <1>3 DEF Custody, Announces, Consented
<1>8. Keyed(s)'
  BY <1>1, <1>2, <1>3 DEF Keyed, HandlerKeys, CommandKeys
<1> QED
  BY <1>4, <1>5, <1>6, <1>7, <1>8, OneSession

\* What is saved has the announced hash, hence is what was published.
LEMMA SavedData ==
  ASSUME Inv, NEW s \in Session, cpc[s] = "await_done",
         NEW data, Intact(data, cli[s].start)
  PROVE  /\ cli[s].start.file_id = req[s].file /\ req[s].file \in FileId
         /\ data = Shared[req[s].file]
<1>1. Announces(cli[s].start, s)
  BY InvSession DEF Custody
<1>2. Sha256(data) = Sha256(Shared[cli[s].start.file_id])
  BY <1>1 DEF Announces, Intact
<1>3. data = Shared[cli[s].start.file_id]
  BY <1>2 DEF Sha256
<1> QED
  BY <1>1, <1>3 DEF Announces

LEMMA RecvTransferDoneInv ==
  ASSUME Inv, NEW s \in Session, RecvTransferDone(s)
  PROVE  Inv'
<1>1. /\ UNCHANGED <<up, ident, boots, index, contacts, stored, disk, spc, srv, req, cli, c2s,
                     approved>>
      /\ cpc[s] = "await_done" /\ cpc[s] \in Awaiting
  BY DEF RecvTransferDone, serveVars, threadVars, Awaiting
<1>2. CASE UNCHANGED received /\ \E outcome \in {"error", "security"} : Finish(s, outcome)
  <2>1. PICK outcome \in {"error", "security"} : Finish(s, outcome)
    BY <1>2
  <2>2. outcome \in Outcomes \union {"dead"}
    BY DEF Outcomes
  <2> QED
    BY <1>1, <1>2, <2>1, <2>2, CommandEnds
<1>3. CASE \E data :
             /\ Intact(data, cli[s].start)
             /\ received' = [received EXCEPT ![ClientOf[s]][cli[s].start.file_id] = data]
             /\ Finish(s, "saved")
  <2>1. PICK data :
          /\ Intact(data, cli[s].start)
          /\ received' = [received EXCEPT ![ClientOf[s]][cli[s].start.file_id] = data]
          /\ Finish(s, "saved")
    BY <1>3
  <2>2. /\ req[s].file \in FileId
        /\ received' = [received EXCEPT ![ClientOf[s]][req[s].file] = Shared[req[s].file]]
    BY <1>1, <2>1, SavedData
  <2>3. Shared[req[s].file] \in Content
    BY <2>2, SessionAssumption DEF SessionAssumption
  <2>4. World
    BY InvSession
  <2>5. /\ received' \in [Client -> [FileId -> Content \union {None}]]
        /\ SavedIsPublished'
    BY <2>2, <2>3, <2>4 DEF World, SavedIsPublished
  <2>6. World'
    BY <1>1, <2>4, <2>5 DEF World
  <2>7. "saved" \in Outcomes \union {"dead"}
    BY DEF Outcomes
  <2> QED
    BY <1>1, <2>1, <2>6, <2>7, CommandCloses
<1> QED
  BY <1>2, <1>3 DEF RecvTransferDone

LEMMA StopServeInv ==
  ASSUME Inv, StopServe
  PROVE  Inv'
<1>1. World /\ Domains
  BY DEF Inv
<1>2. UNCHANGED <<ident, boots, index, contacts, stored, disk, srv, cpc, req, cli, received, approved>>
  BY DEF StopServe, clientVars
<1>3. /\ DOMAIN c2s' = Session /\ DOMAIN s2c' = Session
      /\ spc' = [s \in Session |-> IF spc[s] = "none" THEN "none" ELSE "done"]
      /\ \A s \in Session : c2s'[s] = <<>> /\ s2c'[s] \in {<<>>, s2c[s]}
      /\ up' \in BOOLEAN
  BY DEF StopServe
<1>4. World'
  BY <1>1, <1>2, <1>3 DEF World, SavedIsPublished
<1>5. Domains'
  BY <1>1, <1>2, <1>3 DEF Domains, HandlerStates
<1>6. ASSUME NEW s \in Session PROVE SessionOK(s)'
  <2>1. Typed(s) /\ Begun(s) /\ Custody(s) /\ Consented(s) /\ Keyed(s) /\ Fifo(s2c[s])
    BY InvSession
  <2>2. /\ Fifo(c2s'[s]) /\ Range(c2s'[s]) = {} /\ c2s'[s] = <<>>
        /\ Fifo(s2c'[s]) /\ Range(s2c'[s]) \subseteq Range(s2c[s])
        /\ s2c[s] = <<>> => s2c'[s] = <<>>
    BY <1>3, <2>1, EmptyQueue DEF Fifo
  <2>3. spc'[s] = IF spc[s] = "none" THEN "none" ELSE "done"
    BY <1>3
  <2>4. Typed(s)' /\ Begun(s)'
    BY <1>2, <2>1, <2>2, <2>3 DEF Typed, Begun
  <2>5. Custody(s)' /\ Consented(s)'
    BY <1>2, <2>1, <2>2, <2>3 DEF Custody, Consented, Announces
  <2>6. Keyed(s)'
    BY <1>2, <2>1, <2>2, <2>3 DEF Keyed, HandlerKeys, CommandKeys
  <2> QED
    BY <2>4, <2>5, <2>6 DEF SessionOK
<1> QED
  BY <1>4, <1>5, <1>6 DEF Inv

\* The steps that touch no session, and those that touch nothing.
LEMMA SurroundingsInv ==
  ASSUME Inv,
         \/ StartServe \/ \E c \in Client : ChangeContact(c)
         \/ \E c \in Client \ Unsettled : SaveContact(c)
         \/ \E f \in FileId : EditFile(f)
         \/ UNCHANGED vars
  PROVE  Inv'
<1>1. World /\ Domains
  BY DEF Inv
<1>2. UNCHANGED <<spc, srv, cpc, req, cli, c2s, s2c, received, approved>>
  BY DEF StartServe, ChangeContact, SaveContact, EditFile, threadVars, clientVars, vars
<1>3. World'
  <2>1. CASE StartServe
    <3>1. ident' \in ident..MaxKey /\ boots < MaxBoots /\ boots' = boots + 1
      BY <2>1 DEF StartServe
    <3>2. ident \in 1..MaxKey /\ boots \in 0..MaxBoots /\ MaxKey \in Nat /\ MaxBoots \in Nat
      BY <1>1, SessionAssumption DEF World, ServerKey, SessionAssumption
    <3>3. ident' \in 1..MaxKey /\ boots' \in 0..MaxBoots
      BY <3>1, <3>2
    <3>4. /\ up' \in BOOLEAN /\ index' \subseteq FileId
          /\ contacts' \in [Client -> Record] /\ UNCHANGED disk
          /\ stored' \in [Client \ Unsettled -> Record]
      BY <2>1 DEF StartServe, Settled
    <3> QED
      BY <1>1, <1>2, <3>3, <3>4 DEF World, ServerKey, SavedIsPublished
  <2>2. CASE \E c \in Client : ChangeContact(c)
    <3>1. UNCHANGED <<up, ident, boots, index, stored, disk>>
      BY <2>2 DEF ChangeContact, serveVars
    <3>2. contacts' \in [Client -> Record]
      BY <1>1, <2>2 DEF ChangeContact, World, Record
    <3> QED
      BY <1>1, <1>2, <3>1, <3>2 DEF World, SavedIsPublished
  <2>3. CASE \E f \in FileId : EditFile(f)
    <3>1. UNCHANGED <<up, ident, boots, index, contacts, stored>>
      BY <2>3 DEF EditFile, serveVars
    <3>2. disk' \in [FileId -> Content \union {None}]
      <4>1. PICK f \in FileId : \E version \in Versions[f] : disk' = [disk EXCEPT ![f] = version]
        BY <2>3 DEF EditFile
      <4>2. Versions[f] \subseteq Content \union {None}
        BY <4>1, SessionAssumption DEF SessionAssumption
      <4> QED
        BY <1>1, <4>1, <4>2 DEF World
    <3> QED
      BY <1>1, <1>2, <3>1, <3>2 DEF World, SavedIsPublished
  <2>4. CASE UNCHANGED vars
    BY <1>1, <2>4 DEF World, vars, SavedIsPublished
  <2>5. CASE \E c \in Client \ Unsettled : SaveContact(c)
    <3>1. UNCHANGED <<up, ident, boots, index, contacts, disk>>
      BY <2>5 DEF SaveContact, serveVars
    <3>2. stored' \in [Client \ Unsettled -> Record]
      BY <1>1, <2>5 DEF SaveContact, World
    <3> QED
      BY <1>1, <1>2, <3>1, <3>2 DEF World, SavedIsPublished
  <2> QED
    BY <2>1, <2>2, <2>3, <2>4, <2>5
<1>4. Domains'
  BY <1>1, <1>2 DEF Domains
<1>5. \A s \in Session : SessionOK(s)'
  BY <1>2, UntouchedOK DEF Untouched, Inv
<1> QED
  BY <1>3, <1>4, <1>5 DEF Inv

LEMMA NextInv == Inv /\ [Next]_vars => Inv'
<1> SUFFICES ASSUME Inv, [Next]_vars PROVE Inv'
  OBVIOUS
<1>1. ASSUME NEW s \in Session, RequestFile(s) PROVE Inv'
  BY <1>1, RequestFileInv
<1>2. ASSUME NEW s \in Session, ClientStep(s) \/ ClientDies(s) PROVE Inv'
  BY <1>2, RecvHandshakeRespInv, RecvReplyInv, RecvTransferStartInv, RecvChunkInv,
     RecvTransferDoneInv, ClientIOFailsInv DEF ClientStep
<1>3. ASSUME NEW s \in Session, HandlerStep(s) \/ TlsFails(s) \/ Consent(s) PROVE Inv'
  BY <1>3, DispatchInv, RecvFileRequestInv, ConsentInv, OpenFileInv, SendChunkInv,
     HandlerEndsInv, TlsDoneInv DEF HandlerStep
<1>4. CASE StopServe
  BY <1>4, StopServeInv
<1>5. CASE \/ StartServe \/ \E c \in Client : ChangeContact(c)
           \/ \E c \in Client \ Unsettled : SaveContact(c)
           \/ \E f \in FileId : EditFile(f)
           \/ UNCHANGED vars
  BY <1>5, SurroundingsInv
<1> QED
  BY <1>1, <1>2, <1>3, <1>4, <1>5 DEF Next

THEOREM Invariance == Spec => []Inv
<1>1. Init => Inv
  BY InitInv
<1>2. Inv /\ [Next]_vars => Inv'
  BY NextInv
<1> QED
  BY <1>1, <1>2, PTL DEF Spec

----------------------------------------------------------------------------
(* What the invariant gives.                                               *)

\* Every field of every session keeps its type.
THEOREM TypeCorrect == Spec => []TypeOK
<1>1. Inv => TypeOK
  BY DEF Inv, World, Domains, SessionOK, Typed, Fifo, TypeOK, NoSrv, NoCli
<1> QED
  BY <1>1, Invariance, PTL

\* Whatever is saved is what was published.
THEOREM StoreIntegrity == Spec => []SavedIsPublished
<1>1. Inv => SavedIsPublished
  BY DEF Inv, World
<1> QED
  BY <1>1, Invariance, PTL

\* No frame of a file is sent on a connection whose own prompt was not answered
\* "y".
THEOREM ConsentRespected == Spec => []DataOnlyAfterConsent
<1>1. Inv => DataOnlyAfterConsent
  <2> SUFFICES ASSUME Inv, NEW s \in Session,
                      \/ \E i \in DOMAIN s2c[s] : s2c[s][i].type \in {"TRANSFER_START", "CHUNK"}
                      \/ cli[s].start # None
               PROVE  s \in approved
    BY DEF DataOnlyAfterConsent
  <2>1. Consented(s)
    BY InvSession
  <2>2. \A i \in DOMAIN s2c[s] : s2c[s][i] \in Range(s2c[s])
    BY DEF Range
  <2> QED
    BY <2>1, <2>2 DEF Consented
<1> QED
  BY <1>1, Invariance, PTL

\* The shared secrets of two connections differ, because their ephemeral keys do.
LEMMA SecretsDiffer ==
  ASSUME NEW s, NEW t, s # t
  PROVE  Exchange(Eph("r", s), Eph("i", s)) # Exchange(Eph("r", t), Eph("i", t))
<1>1. Eph("r", s) # Eph("r", t) /\ Eph("r", s) # Eph("i", t)
  BY DEF Eph
<1> QED
  BY <1>1 DEF Exchange

\* Hence so do all their keys.
LEMMA KeysDiffer ==
  ASSUME NEW s \in Session, NEW t \in Session, s # t,
         NEW k \in {HandlerKeys(s).tx_key, HandlerKeys(s).rx_key},
         NEW l \in {HandlerKeys(t).tx_key, HandlerKeys(t).rx_key}
  PROVE  k # l
<1>1. k[2] = Exchange(Eph("r", s), Eph("i", s)) /\ l[2] = Exchange(Eph("r", t), Eph("i", t))
  BY DEF HandlerKeys, Derive
<1> QED
  BY <1>1, SecretsDiffer

\* Both ends of a connection use the same keys the right way round, and no other
\* connection uses them.
THEOREM KeysAgree == Spec => []KeyAgreement
<1>1. Inv => KeyAgreement
  <2> SUFFICES ASSUME Inv PROVE KeyAgreement
    OBVIOUS
  <2>1. ASSUME NEW s \in Session, cli[s].keys # None
        PROVE  /\ cli[s].keys.rx_key = srv[s].keys.tx_key
               /\ cli[s].keys.tx_key = srv[s].keys.rx_key
               /\ cli[s].keys.rx_nonce = srv[s].keys.tx_nonce
               /\ cli[s].keys.tx_nonce = srv[s].keys.rx_nonce
    <3>1. srv[s].keys = HandlerKeys(s) /\ cli[s].keys = CommandKeys(s)
      BY <2>1, InvSession DEF Keyed
    <3>2. Exchange(Eph("i", s), Eph("r", s)) = Exchange(Eph("r", s), Eph("i", s))
      BY DEF Exchange
    <3> QED
      BY <3>1, <3>2 DEF HandlerKeys, CommandKeys, Derive
  <2>2. ASSUME NEW s \in Session, NEW t \in Session, s # t,
               srv[s].keys # None, srv[t].keys # None
        PROVE  {srv[s].keys.tx_key, srv[s].keys.rx_key}
                 \intersect {srv[t].keys.tx_key, srv[t].keys.rx_key} = {}
    <3>1. srv[s].keys = HandlerKeys(s) /\ srv[t].keys = HandlerKeys(t)
      BY <2>2, InvSession DEF Keyed
    <3> QED
      BY <2>2, <3>1, KeysDiffer
  <2> QED
    BY <2>1, <2>2 DEF KeyAgreement
<1> QED
  BY <1>1, Invariance, PTL

----------------------------------------------------------------------------
(* Nonces.  Each ciphertext is the i-th chunk of some session, and what it *)
(* was made from does not change while the session goes on.                *)

ChunkOf(s, i) == EncryptChunk(srv[s].keys.tx_key, srv[s].keys.tx_nonce, i,
                              Chunk(srv[s].data, i), srv[s].file,
                              TotalChunks(srv[s].data), s)

SealedOnce ==
  \A u \in sealed : \E s \in Session, i \in Nat :
    i < srv[s].idx /\ srv[s].keys = HandlerKeys(s) /\ u = ChunkOf(s, i)

\* Once a session has sealed a chunk, its key, file and data stay.
LEMMA SessionFixed ==
  ASSUME Inv, [Next]_vars, NEW s \in Session, srv[s].idx # 0
  PROVE  /\ srv'[s].me = srv[s].me /\ srv'[s].keys = srv[s].keys
         /\ srv'[s].file = srv[s].file /\ srv'[s].data = srv[s].data
         /\ srv'[s].idx \in {srv[s].idx, srv[s].idx + 1}
<1>1. /\ spc[s] \in {"sending", "done"} /\ cpc[s] # "idle"
      /\ DOMAIN srv = Session /\ DOMAIN srv[s] = {"me", "keys", "file", "data", "idx"}
  BY InvSession DEF Begun, Typed
<1>2. ASSUME NEW r \in Session, RequestFile(r) \/ Dispatch(r) \/ RecvFileRequest(r) \/ OpenFile(r)
      PROVE  srv'[s] = srv[s]
  <2>1. r # s
    BY <1>1, <1>2 DEF RequestFile, Dispatch, RecvFileRequest, OpenFile
  <2>2. \/ srv' = srv
        \/ \E x : srv' = [srv EXCEPT ![r].me = x]
        \/ \E x : srv' = [srv EXCEPT ![r].keys = x]
        \/ \E x : srv' = [srv EXCEPT ![r].file = x]
        \/ \E x : srv' = [srv EXCEPT ![r].data = x]
    BY <1>2 DEF RequestFile, Dispatch, RecvFileRequest, OpenFile
  <2> QED
    BY <1>1, <2>1, <2>2
<1>3. ASSUME NEW r \in Session, SendChunk(r)
      PROVE  srv' = [srv EXCEPT ![r].idx = srv[r].idx + 1]
  BY <1>3 DEF SendChunk
<1>4. ASSUME NEW r \in Session,
             \/ TlsDone(r) \/ TlsFails(r) \/ Consent(r) \/ SendDone(r) \/ HandlerIOFails(r)
             \/ ClientStep(r) \/ ClientDies(r)
      PROVE  srv' = srv
  BY <1>4 DEF TlsDone, TlsFails, Consent, SendDone, HandlerIOFails, ClientStep, ClientDies,
     RecvHandshakeResp, RecvReply, RecvTransferStart, RecvChunk, RecvTransferDone,
     ClientIOFails, threadVars
<1>5. ASSUME \/ StartServe \/ StopServe \/ \E c \in Client : ChangeContact(c)
             \/ \E c \in Client \ Unsettled : SaveContact(c)
             \/ \E f \in FileId : EditFile(f)
             \/ UNCHANGED vars
      PROVE  srv' = srv
  BY <1>5 DEF StartServe, StopServe, ChangeContact, SaveContact, EditFile, threadVars, vars
<1>6. \/ srv'[s] = srv[s]
      \/ \E r \in Session : srv' = [srv EXCEPT ![r].idx = srv[r].idx + 1]
  <2>1. ASSUME NEW r \in Session, RequestFile(r) \/ ClientStep(r) \/ ClientDies(r)
        PROVE  srv'[s] = srv[s]
    BY <2>1, <1>2, <1>4
  <2>2. ASSUME NEW r \in Session, HandlerStep(r) \/ TlsFails(r) \/ Consent(r)
        PROVE  srv'[s] = srv[s] \/ srv' = [srv EXCEPT ![r].idx = srv[r].idx + 1]
    BY <2>2, <1>2, <1>3, <1>4 DEF HandlerStep
  <2>3. ASSUME \/ StartServe \/ StopServe \/ \E c \in Client : ChangeContact(c)
               \/ \E c \in Client \ Unsettled : SaveContact(c)
               \/ \E f \in FileId : EditFile(f)
               \/ UNCHANGED vars
        PROVE  srv'[s] = srv[s]
    BY <2>3, <1>5
  <2> QED
    BY <2>1, <2>2, <2>3 DEF Next
<1> QED
  BY <1>1, <1>6

\* Only SendChunk seals, and it seals the chunk at its index.
LEMMA SealedGrows ==
  ASSUME Inv, [Next]_vars
  PROVE  \/ sealed' = sealed
         \/ \E s \in Session :
              /\ spc[s] = "sending" /\ sealed' = sealed \union {ChunkOf(s, srv[s].idx)}
              /\ srv' = [srv EXCEPT ![s].idx = srv[s].idx + 1]
<1>1. ASSUME NEW s \in Session, SendChunk(s)
      PROVE  /\ spc[s] = "sending" /\ sealed' = sealed \union {ChunkOf(s, srv[s].idx)}
             /\ srv' = [srv EXCEPT ![s].idx = srv[s].idx + 1]
  BY <1>1 DEF SendChunk, ChunkOf
<1>2. ASSUME NEW s \in Session,
             \/ RequestFile(s) \/ ClientStep(s) \/ ClientDies(s) \/ Dispatch(s)
             \/ RecvFileRequest(s) \/ Consent(s) \/ OpenFile(s) \/ SendDone(s)
             \/ HandlerIOFails(s) \/ TlsDone(s) \/ TlsFails(s)
      PROVE  sealed' = sealed
  BY <1>2 DEF RequestFile, ClientStep, ClientDies, Dispatch, RecvFileRequest, Consent,
     OpenFile, SendDone, HandlerIOFails, TlsDone, TlsFails, RecvHandshakeResp, RecvReply,
     RecvTransferStart, RecvChunk, RecvTransferDone, ClientIOFails
<1>3. CASE \/ StartServe \/ StopServe \/ \E c \in Client : ChangeContact(c)
           \/ \E c \in Client \ Unsettled : SaveContact(c)
           \/ \E f \in FileId : EditFile(f)
           \/ UNCHANGED vars
  BY <1>3 DEF StartServe, StopServe, ChangeContact, SaveContact, EditFile, vars
<1> QED
  BY <1>1, <1>2, <1>3 DEF Next, HandlerStep

LEMMA SealedOnceInv == Inv /\ SealedOnce /\ [Next]_vars => SealedOnce'
<1> SUFFICES ASSUME Inv, SealedOnce, [Next]_vars, NEW u \in sealed'
             PROVE  \E s \in Session, i \in Nat :
                      i < srv'[s].idx /\ srv'[s].keys = HandlerKeys(s)' /\ u = ChunkOf(s, i)'
  BY DEF SealedOnce
<1>1. CASE u \in sealed
  <2>1. PICK s \in Session, i \in Nat :
          i < srv[s].idx /\ srv[s].keys = HandlerKeys(s) /\ u = ChunkOf(s, i)
    BY <1>1 DEF SealedOnce
  <2>2. srv[s].idx \in Nat
    BY InvSession DEF Typed
  <2>3. /\ srv'[s].me = srv[s].me /\ srv'[s].keys = srv[s].keys
        /\ srv'[s].file = srv[s].file /\ srv'[s].data = srv[s].data
        /\ srv'[s].idx \in {srv[s].idx, srv[s].idx + 1}
    BY <2>1, <2>2, SessionFixed
  <2>4. i < srv'[s].idx
    BY <2>1, <2>2, <2>3
  <2>5. srv'[s].keys = HandlerKeys(s)' /\ u = ChunkOf(s, i)'
    BY <2>1, <2>3 DEF HandlerKeys, ChunkOf
  <2> QED
    BY <2>4, <2>5
<1>2. CASE u \notin sealed
  <2>1. PICK s \in Session :
          /\ spc[s] = "sending" /\ u = ChunkOf(s, srv[s].idx)
          /\ srv' = [srv EXCEPT ![s].idx = srv[s].idx + 1]
    BY <1>2, SealedGrows
  <2>2. /\ srv[s].idx \in Nat /\ srv[s].keys = HandlerKeys(s) /\ DOMAIN srv = Session
        /\ DOMAIN srv[s] = {"me", "keys", "file", "data", "idx"}
    BY <2>1, InvSession DEF Typed, Keyed
  <2>3. /\ srv'[s].me = srv[s].me /\ srv'[s].keys = srv[s].keys
        /\ srv'[s].file = srv[s].file /\ srv'[s].data = srv[s].data
        /\ srv'[s].idx = srv[s].idx + 1
    BY <2>1, <2>2
  <2>4. PICK i \in Nat : i = srv[s].idx
    BY <2>2
  <2>5. i < srv'[s].idx
    BY <2>3, <2>4
  <2>6. srv'[s].keys = HandlerKeys(s)' /\ u = ChunkOf(s, i)'
    BY <2>1, <2>2, <2>3, <2>4 DEF HandlerKeys, ChunkOf
  <2> QED
    BY <2>5, <2>6
<1> QED
  BY <1>1, <1>2

\* No key is ever used twice with the same nonce.
THEOREM NoNonceReuse == Spec => []NonceNeverReused
<1>1. Init => SealedOnce
  BY DEF Init, SealedOnce
<1>2. Inv /\ SealedOnce => NonceNeverReused
  <2> SUFFICES ASSUME Inv, SealedOnce, NEW u \in sealed, NEW v \in sealed,
                      u.key = v.key, u.nonce = v.nonce
               PROVE  u = v
    BY DEF NonceNeverReused
  <2>1. PICK s \in Session, i \in Nat : srv[s].keys = HandlerKeys(s) /\ u = ChunkOf(s, i)
    BY DEF SealedOnce
  <2>2. PICK t \in Session, j \in Nat : srv[t].keys = HandlerKeys(t) /\ v = ChunkOf(t, j)
    BY DEF SealedOnce
  <2>3. /\ u.key = HandlerKeys(s).tx_key /\ v.key = HandlerKeys(t).tx_key
        /\ u.nonce = <<srv[s].keys.tx_nonce, i>> /\ v.nonce = <<srv[t].keys.tx_nonce, j>>
    BY <2>1, <2>2 DEF ChunkOf, EncryptChunk, ChunkNonce
  <2>4. s = t
    BY <2>3, KeysDiffer
  <2>5. <<srv[s].keys.tx_nonce, i>> = <<srv[t].keys.tx_nonce, j>>
    BY <2>3
  <2>6. i = j
    BY <2>5
  <2> QED
    BY <2>1, <2>2, <2>4, <2>6
<1> QED
  BY <1>1, <1>2, SealedOnceInv, Invariance, PTL DEF Spec

----------------------------------------------------------------------------
(* Refinement.  A step of the implementation either leaves every status,   *)
(* request and store alone, or answers one request.                        *)

\* The status of every command is a function of where it is.
LEMMA StatusMap ==
  ASSUME NEW s \in Session, cpc' = [cpc EXCEPT ![s] = cpc'[s]], DOMAIN cpc = Session
  PROVE  [r \in Session |-> Status(r)]'
           = [[r \in Session |-> Status(r)] EXCEPT ![s] = Status(s)']
<1>1. \A r \in Session : r # s => cpc'[r] = cpc[r]
  OBVIOUS
<1>2. \A r \in Session : r # s => Status(r)' = Status(r)
  BY <1>1 DEF Status
<1> QED
  BY <1>2

\* A step that moves no status is a stuttering step of Download.
LEMMA QuietStep ==
  ASSUME UNCHANGED <<req, received>>, \A r \in Session : Status(r)' = Status(r)
  PROVE  UNCHANGED Abstract!vars
  BY DEF Abstract!vars

\* A command that goes on waiting is quiet; one that breaks off fails.
LEMMA AnswerStep ==
  ASSUME Inv, NEW s \in Session, cpc[s] \in Awaiting, UNCHANGED <<req, received>>,
         NEW pc \in Awaiting \union {"dead"} \union (Outcomes \ {"saved"}),
         cpc' = [cpc EXCEPT ![s] = pc]
  PROVE  [Abstract!Next]_Abstract!vars
<1>1. DOMAIN cpc = Session
  BY DEF Inv, Domains
<1>2. cpc'[s] = pc /\ \A r \in Session : r # s => cpc'[r] = cpc[r]
  BY <1>1
<1>3. Status(s) = "pending"
  BY DEF Status, Awaiting
<1>4. CASE pc \in Awaiting
  <2>1. \A r \in Session : Status(r)' = Status(r)
    BY <1>2, <1>3, <1>4 DEF Status, Awaiting
  <2> QED
    BY <2>1, QuietStep
<1>5. CASE pc \notin Awaiting
  <2>1. Status(s)' = "failed"
    BY <1>2, <1>5 DEF Status, Outcomes
  <2>2. [r \in Session |-> Status(r)]'
          = [[r \in Session |-> Status(r)] EXCEPT ![s] = "failed"]
    BY <1>1, <1>2, <2>1, StatusMap
  <2>3. Abstract!Fail(s)
    BY <1>3, <2>2 DEF Abstract!Fail
  <2> QED
    BY <2>3 DEF Abstract!Next
<1> QED
  BY <1>4, <1>5

LEMMA AskStep ==
  ASSUME Inv, NEW s \in Session, RequestFile(s)
  PROVE  [Abstract!Next]_Abstract!vars
<1>1. DOMAIN cpc = Session /\ DOMAIN req = Session /\ req[s] \in [file : FileId \union {None},
        peer : ServerKey \union {None}, knows : SUBSET ServerKey]
  BY DEF Inv, Domains
<1>2. PICK pc \in {"refused", "offline", "dead", "await_resp"} :
        cpc[s] = "idle" /\ cpc' = [cpc EXCEPT ![s] = pc]
  BY DEF RequestFile
<1>3. PICK f \in FileId : \E peer, knows :
        req' = [req EXCEPT ![s] = [file |-> f, peer |-> peer, knows |-> knows]]
  BY DEF RequestFile
<1>4. Status(s) = "idle" /\ Status(s)' \in {"pending", "failed"}
  BY <1>1, <1>2 DEF Status, Awaiting
<1>5. [r \in Session |-> Status(r)]'
        = [[r \in Session |-> Status(r)] EXCEPT ![s] = Status(s)']
  BY <1>1, <1>2, StatusMap
<1>6. [r \in Session |-> req[r].file]' = [[r \in Session |-> req[r].file] EXCEPT ![s] = f]
  <2>1. req'[s].file = f /\ \A r \in Session : r # s => req'[r] = req[r]
    BY <1>1, <1>3
  <2> QED
    BY <2>1
<1>7. received' = received
  BY DEF RequestFile
<1>8. Abstract!Ask(s)
  BY <1>4, <1>5, <1>6, <1>7 DEF Abstract!Ask
<1> QED
  BY <1>8 DEF Abstract!Next

LEMMA DoneStep ==
  ASSUME Inv, NEW s \in Session, RecvTransferDone(s)
  PROVE  [Abstract!Next]_Abstract!vars
<1>1. UNCHANGED req /\ cpc[s] = "await_done" /\ cpc[s] \in Awaiting /\ DOMAIN cpc = Session
  BY DEF RecvTransferDone, Awaiting, Inv, Domains
<1>2. CASE UNCHANGED received /\ \E outcome \in {"error", "security"} : Finish(s, outcome)
  <2>1. PICK outcome \in {"error", "security"} : cpc' = [cpc EXCEPT ![s] = outcome]
    BY <1>2 DEF Finish
  <2>2. outcome \in Awaiting \union {"dead"} \union (Outcomes \ {"saved"})
    BY DEF Outcomes
  <2> QED
    BY <1>1, <1>2, <2>1, <2>2, AnswerStep
<1>3. CASE \E data :
             /\ Intact(data, cli[s].start)
             /\ received' = [received EXCEPT ![ClientOf[s]][cli[s].start.file_id] = data]
             /\ Finish(s, "saved")
  <2>1. PICK data :
          /\ Intact(data, cli[s].start)
          /\ received' = [received EXCEPT ![ClientOf[s]][cli[s].start.file_id] = data]
          /\ cpc' = [cpc EXCEPT ![s] = "saved"]
    BY <1>3 DEF Finish
  <2>2. received' = [received EXCEPT ![ClientOf[s]][req[s].file] = Shared[req[s].file]]
    BY <1>1, <2>1, SavedData
  <2>3. Status(s) = "pending" /\ Status(s)' = "saved"
    BY <1>1, <2>1 DEF Status
  <2>4. [r \in Session |-> Status(r)]'
          = [[r \in Session |-> Status(r)] EXCEPT ![s] = "saved"]
    BY <1>1, <2>1, <2>3, StatusMap
  <2>5. Abstract!Save(s)
    BY <1>1, <2>2, <2>3, <2>4 DEF Abstract!Save
  <2> QED
    BY <2>5 DEF Abstract!Next
<1> QED
  BY <1>2, <1>3 DEF RecvTransferDone

\* Every step is a step of Download or a stutter.
LEMMA StepRefines == Inv /\ [Next]_vars => [Abstract!Next]_Abstract!vars
<1> SUFFICES ASSUME Inv, [Next]_vars PROVE [Abstract!Next]_Abstract!vars
  OBVIOUS
<1>1. ASSUME NEW s \in Session,
             \/ RecvHandshakeResp(s) \/ RecvReply(s) \/ RecvTransferStart(s)
             \/ RecvChunk(s) \/ ClientIOFails(s) \/ ClientDies(s)
      PROVE  [Abstract!Next]_Abstract!vars
  <2>1. cpc[s] \in Awaiting /\ UNCHANGED <<req, received>>
    BY <1>1 DEF RecvHandshakeResp, RecvReply, RecvTransferStart, RecvChunk, ClientIOFails,
       ClientDies, RecvFails, Awaiting
  <2>2. \E pc \in Awaiting \union {"dead"} \union (Outcomes \ {"saved"}) :
          cpc' = [cpc EXCEPT ![s] = pc]
    <3>1. \E pc \in {"await_reply", "await_start", "await_chunk", "await_done", "error",
                     "security", "denied", "offline", "dead"} : cpc' = [cpc EXCEPT ![s] = pc]
      BY <1>1 DEF RecvHandshakeResp, RecvReply, RecvTransferStart, RecvChunk, ClientIOFails,
         ClientDies, Finish, Continue
    <3> QED
      BY <3>1 DEF Awaiting, Outcomes
  <2> QED
    BY <2>1, <2>2, AnswerStep
<1>2. ASSUME NEW s \in Session, HandlerStep(s) \/ TlsFails(s) \/ Consent(s)
      PROVE  UNCHANGED <<cpc, req, received>>
  BY <1>2 DEF HandlerStep, TlsDone, TlsFails, Consent, Dispatch, RecvFileRequest, OpenFile,
     SendChunk, SendDone, HandlerIOFails, clientVars
<1>3. ASSUME \/ StartServe \/ StopServe \/ \E c \in Client : ChangeContact(c)
             \/ \E c \in Client \ Unsettled : SaveContact(c)
             \/ \E f \in FileId : EditFile(f)
             \/ UNCHANGED vars
      PROVE  UNCHANGED <<cpc, req, received>>
  BY <1>3 DEF StartServe, StopServe, ChangeContact, SaveContact, EditFile, clientVars, vars
<1>4. ASSUME UNCHANGED <<cpc, req, received>> PROVE [Abstract!Next]_Abstract!vars
  BY <1>4, QuietStep DEF Status
<1>5. ASSUME NEW s \in Session,
             \/ RequestFile(s) \/ ClientStep(s) \/ ClientDies(s)
             \/ HandlerStep(s) \/ TlsFails(s) \/ Consent(s)
      PROVE  [Abstract!Next]_Abstract!vars
  BY <1>1, <1>2, <1>4, <1>5, AskStep, DoneStep DEF ClientStep
<1> QED
  BY <1>3, <1>4, <1>5 DEF Next

\* request-file over the wire keeps the promise Download states: a request is
\* answered once, and either the published file is in the store or nothing is.
THEOREM Refines == Spec => ImplementsDownload
<1>1. Init => Abstract!Init
  BY DEF Init, Abstract!Init, Status, NoReq
<1>2. Inv /\ [Next]_vars => [Abstract!Next]_Abstract!vars
  BY StepRefines
<1> QED
  BY <1>1, <1>2, Invariance, PTL DEF Spec, ImplementsDownload, Abstract!Spec

----------------------------------------------------------------------------
(* The records of settled clients, and revocation.                         *)

LEMMA RecordsUntouched ==
  ASSUME NEW s \in Session,
         \/ RequestFile(s) \/ ClientStep(s) \/ ClientDies(s)
         \/ HandlerStep(s) \/ TlsFails(s) \/ Consent(s)
  PROVE  UNCHANGED <<up, contacts, stored>>
<1>1. CASE RequestFile(s)
  BY <1>1 DEF RequestFile, serveVars
<1>2. CASE ClientStep(s) \/ ClientDies(s)
  BY <1>2 DEF ClientStep, ClientDies, RecvHandshakeResp, RecvReply, RecvTransferStart,
     RecvChunk,
     RecvTransferDone, ClientIOFails, serveVars
<1>3. CASE HandlerStep(s) \/ TlsFails(s) \/ Consent(s)
  BY <1>3 DEF HandlerStep, TlsDone, TlsFails, Consent, Dispatch, RecvFileRequest, OpenFile,
     SendChunk, SendDone, HandlerIOFails, serveVars
<1> QED
  BY <1>1, <1>2, <1>3

\* The record of one settled client, as `serve` has it and as it is stored: it is
\* added, revoked, saved, and loaded with the next start.
RecordSteps(c) ==
  LET view == IF up THEN contacts[c] ELSE "off"
      kept == stored[c]
  IN  \/ view' = view /\ kept' = kept
      \/ view = "unknown" /\ view' = "active" /\ kept' = kept
      \/ view = "active" /\ view' = "revoked" /\ kept' = kept
      \/ view # "off" /\ kept' = view /\ view' = view
      \/ /\ view = "off" /\ view' = kept'
         /\ kept' = kept \/ (kept = "unknown" /\ kept' = "active")
      \/ view # "off" /\ view' = "off" /\ kept' = kept

LEMMA RecordStep ==
  ASSUME Inv, [Next]_vars, NEW c \in Client \ Unsettled
  PROVE  RecordSteps(c)
<1>1. /\ contacts \in [Client -> Record] /\ DOMAIN stored = Client \ Unsettled
      /\ up \in BOOLEAN /\ contacts[c] # "off"
  BY DEF Inv, World, Record
<1>2. ASSUME UNCHANGED <<up, contacts, stored>> PROVE RecordSteps(c)
  BY <1>2 DEF RecordSteps
<1>3. ASSUME NEW s \in Session,
             \/ RequestFile(s) \/ ClientStep(s) \/ ClientDies(s)
             \/ HandlerStep(s) \/ TlsFails(s) \/ Consent(s)
      PROVE  RecordSteps(c)
  BY <1>2, <1>3, RecordsUntouched
<1>4. CASE (\E f \in FileId : EditFile(f)) \/ UNCHANGED vars
  BY <1>2, <1>4 DEF EditFile, serveVars, vars
<1>5. CASE StopServe
  BY <1>1, <1>5 DEF StopServe, RecordSteps
<1>6. CASE StartServe
  <2>1. /\ ~up /\ up' /\ stored'[c] = contacts'[c]
        /\ contacts'[c] = stored[c] \/ (stored[c] = "unknown" /\ contacts'[c] = "active")
    BY <1>6 DEF StartServe, LoadsSaved, Settled
  <2> QED
    BY <2>1 DEF RecordSteps
<1>7. ASSUME NEW d \in Client, ChangeContact(d) PROVE RecordSteps(c)
  <2>1. up /\ up' = up /\ stored' = stored
    BY <1>7 DEF ChangeContact, serveVars
  <2>2. \/ contacts'[c] = contacts[c]
        \/ contacts[c] = "unknown" /\ contacts'[c] = "active"
        \/ contacts[c] = "active" /\ contacts'[c] = "revoked"
    BY <1>1, <1>7 DEF ChangeContact
  <2> QED
    BY <2>1, <2>2 DEF RecordSteps
<1>8. ASSUME NEW d \in Client \ Unsettled, SaveContact(d) PROVE RecordSteps(c)
  <2>1. up /\ up' = up /\ contacts' = contacts
    BY <1>8 DEF SaveContact, serveVars
  <2>2. stored'[c] = stored[c] \/ stored'[c] = contacts[c]
    BY <1>1, <1>8 DEF SaveContact
  <2> QED
    BY <1>1, <2>1, <2>2 DEF RecordSteps
<1> QED
  BY <1>3, <1>4, <1>5, <1>6, <1>7, <1>8 DEF Next

\* Handler threads live inside `serve`, and a saved revocation is in its memory.
Alive(s) == spc[s] \notin {"none", "done"} => up
RevocationKept == \A c \in Client \ Unsettled : stored[c] = "revoked" => contacts[c] = "revoked"
RevocationInv == RevocationKept /\ \A s \in Session : Alive(s)

LEMMA InitRevocation == Init => RevocationInv
  BY DEF Init, Settled, RevocationInv, RevocationKept, Alive

LEMMA KeptStep ==
  ASSUME Inv, RevocationKept, [Next]_vars
  PROVE  RevocationKept'
<1> SUFFICES ASSUME NEW c \in Client \ Unsettled, stored'[c] = "revoked"
             PROVE  contacts'[c] = "revoked"
  BY DEF RevocationKept
<1>1. stored[c] = "revoked" => contacts[c] = "revoked"
  BY DEF RevocationKept
<1>2. ASSUME NEW s \in Session,
             \/ RequestFile(s) \/ ClientStep(s) \/ ClientDies(s)
             \/ HandlerStep(s) \/ TlsFails(s) \/ Consent(s)
      PROVE  contacts'[c] = "revoked"
  BY <1>1, <1>2, RecordsUntouched
<1>3. CASE StopServe \/ (\E f \in FileId : EditFile(f)) \/ UNCHANGED vars
  BY <1>1, <1>3 DEF StopServe, EditFile, vars
<1>4. CASE StartServe
  BY <1>4 DEF StartServe, Settled
<1>5. ASSUME NEW d \in Client, ChangeContact(d) PROVE contacts'[c] = "revoked"
  <2>1. stored' = stored /\ DOMAIN contacts = Client
    BY <1>5 DEF ChangeContact, Inv, World
  <2> QED
    BY <1>1, <1>5, <2>1 DEF ChangeContact
<1>6. ASSUME NEW d \in Client \ Unsettled, SaveContact(d) PROVE contacts'[c] = "revoked"
  <2>1. contacts' = contacts /\ DOMAIN stored = Client \ Unsettled
    BY <1>6 DEF SaveContact, Inv, World
  <2> QED
    BY <1>1, <1>6, <2>1 DEF SaveContact
<1> QED
  BY <1>2, <1>3, <1>4, <1>5, <1>6 DEF Next

LEMMA AliveStep ==
  ASSUME Inv, NEW s \in Session, Alive(s), [Next]_vars
  PROVE  Alive(s)'
<1>1. DOMAIN spc = Session
  BY DEF Inv, Domains
<1>2. ASSUME NEW r \in Session, RequestFile(r) PROVE Alive(s)'
  BY <1>1, <1>2 DEF RequestFile, Alive, serveVars
<1>3. ASSUME NEW r \in Session, ClientStep(r) \/ ClientDies(r) PROVE Alive(s)'
  <2>1. spc' = spc
    BY <1>3 DEF ClientStep, ClientDies, RecvHandshakeResp, RecvReply, RecvTransferStart,
       RecvChunk, RecvTransferDone, ClientIOFails, threadVars
  <2> QED
    BY <1>3, <2>1, RecordsUntouched DEF Alive
<1>4. ASSUME NEW r \in Session, HandlerStep(r) \/ TlsFails(r) \/ Consent(r) PROVE Alive(s)'
  <2>1. spc[r] \notin {"none", "done"} \/ spc'[s] \in {spc[s], "done"}
    BY <1>1, <1>4 DEF HandlerStep, TlsDone, TlsFails, Consent, Dispatch, RecvFileRequest,
       OpenFile, SendChunk, SendDone, HandlerIOFails, HandlerRecvFails, HandlerSendFails
  <2>2. r # s => spc'[s] = spc[s]
    BY <1>1, <1>4 DEF HandlerStep, TlsDone, TlsFails, Consent, Dispatch, RecvFileRequest,
       OpenFile, SendChunk, SendDone, HandlerIOFails
  <2> QED
    BY <1>4, <2>1, <2>2, RecordsUntouched DEF Alive
<1>5. CASE StopServe
  BY <1>5 DEF StopServe, Alive
<1>6. CASE StartServe
  BY <1>6 DEF StartServe, Alive
<1>7. CASE \/ \E c \in Client : ChangeContact(c)
           \/ \E c \in Client \ Unsettled : SaveContact(c)
           \/ \E f \in FileId : EditFile(f)
           \/ UNCHANGED vars
  BY <1>7 DEF ChangeContact, SaveContact, EditFile, threadVars, serveVars, vars, Alive
<1> QED
  BY <1>2, <1>3, <1>4, <1>5, <1>6, <1>7 DEF Next

LEMMA RevocationStep == Inv /\ RevocationInv /\ [Next]_vars => RevocationInv'
  BY KeptStep, AliveStep DEF RevocationInv

\* A revoked contact that no handler thread has admitted, nor will.
ShutOut(s) ==
  /\ spc[s] \in {"none", "tls", "await_init", "done"}
  /\ spc[s] = "none" => stored[ClientOf[s]] = "revoked"
  /\ spc[s] \in {"tls", "await_init"} => contacts[ClientOf[s]] = "revoked"

\* `serve` takes its records with it when it stops, and changes none of them.
LEMMA StopKeeps ==
  ASSUME up, ~up', [Next]_vars
  PROVE  contacts' = contacts
<1>1. ASSUME NEW s \in Session,
             \/ RequestFile(s) \/ ClientStep(s) \/ ClientDies(s)
             \/ HandlerStep(s) \/ TlsFails(s) \/ Consent(s)
      PROVE  FALSE
  BY <1>1, RecordsUntouched
<1> QED
  BY <1>1 DEF Next, StartServe, StopServe, ChangeContact, SaveContact, EditFile, serveVars, vars

\* Nothing takes a saved revocation back, nor one in memory while `serve` runs.
LEMMA StaysRevoked ==
  ASSUME Inv, RevocationInv, [Next]_vars, NEW c \in Client \ Unsettled
  PROVE  /\ stored[c] = "revoked" => stored'[c] = "revoked"
         /\ up /\ contacts[c] = "revoked" => contacts'[c] = "revoked"
<1>1. RecordSteps(c) /\ contacts[c] # "off" /\ up \in BOOLEAN /\ stored[c] # "off"
  BY RecordStep DEF Inv, World, Record
<1>2. stored[c] = "revoked" => contacts[c] = "revoked"
  BY DEF RevocationInv, RevocationKept
<1>3. ASSUME stored[c] = "revoked" PROVE stored'[c] = "revoked"
  BY <1>1, <1>2, <1>3 DEF RecordSteps
<1>4. ASSUME up, contacts[c] = "revoked" PROVE contacts'[c] = "revoked"
  <2>1. CASE up'
    <3>1. contacts'[c] # "off"
      BY NextInv DEF Inv, World, Record
    <3> QED
      BY <1>1, <1>4, <2>1, <3>1 DEF RecordSteps
  <2>2. CASE ~up'
    BY <1>4, <2>2, StopKeeps
  <2> QED
    BY <2>1, <2>2
<1> QED
  BY <1>3, <1>4

\* It is not admitted, whatever frame it sends and whichever thread takes it.
LEMMA StaysOut ==
  ASSUME Inv, [Next]_vars, NEW s \in Session, ShutOut(s)
  PROVE  \/ spc'[s] = spc[s] \/ spc'[s] = "done"
         \/ spc[s] = "none" /\ spc'[s] = "tls" /\ contacts' = contacts
         \/ spc[s] = "tls" /\ spc'[s] = "await_init" /\ contacts' = contacts
<1>1. DOMAIN spc = Session /\ Keyed(s) /\ Fifo(c2s[s]) /\ Begun(s)
  BY InvSession DEF Domains
<1>2. ASSUME NEW r \in Session, RequestFile(r)
      PROVE  \/ spc'[s] = spc[s]
             \/ spc[s] = "none" /\ spc'[s] = "tls" /\ contacts' = contacts
  BY <1>1, <1>2 DEF RequestFile, Begun
<1>3. ASSUME NEW r \in Session, ClientStep(r) \/ ClientDies(r) PROVE spc' = spc
  BY <1>3 DEF ClientStep, ClientDies, RecvHandshakeResp, RecvReply, RecvTransferStart,
     RecvChunk, RecvTransferDone, ClientIOFails, threadVars
<1>4. ASSUME NEW r \in Session, HandlerStep(r) \/ TlsFails(r) \/ Consent(r)
      PROVE  \/ spc'[s] \in {spc[s], "done"}
             \/ spc[s] = "tls" /\ spc'[s] = "await_init" /\ contacts' = contacts
  <2>1. CASE r # s
    BY <1>1, <1>4, <2>1 DEF HandlerStep, TlsDone, TlsFails, Consent, Dispatch, RecvFileRequest,
       OpenFile, SendChunk, SendDone, HandlerIOFails
  <2>2. CASE r = s
    <3>1. Dispatch(s) \/ HandlerIOFails(s) \/ TlsDone(s) \/ TlsFails(s)
      BY <1>4, <2>2 DEF ShutOut, HandlerStep, Consent, RecvFileRequest, OpenFile, SendChunk,
         SendDone
    <3>2. CASE Dispatch(s)
      <4>1. ~Admitted(Head(c2s[s]))
        <5> SUFFICES ASSUME Admitted(Head(c2s[s])) PROVE FALSE
          OBVIOUS
        <5>1. Head(c2s[s]) \in Range(c2s[s])
          BY <1>1, <3>2, TakeFrame DEF Dispatch, Fifo
        <5>2. Head(c2s[s]).from = ClientOf[s]
          BY <1>1, <5>1 DEF Admitted, Keyed
        <5> QED
          BY <3>2, <5>2 DEF Dispatch, Admitted, ShutOut
      <4> QED
        BY <1>1, <3>2, <4>1 DEF Dispatch
    <3>3. CASE HandlerIOFails(s) \/ TlsDone(s) \/ TlsFails(s)
      BY <1>1, <3>3 DEF HandlerIOFails, TlsDone, TlsFails
    <3> QED
      BY <3>1, <3>2, <3>3
  <2> QED
    BY <2>1, <2>2
<1>5. CASE StopServe
  BY <1>5 DEF StopServe
<1>6. CASE \/ StartServe \/ \E c \in Client : ChangeContact(c)
           \/ \E c \in Client \ Unsettled : SaveContact(c)
           \/ \E f \in FileId : EditFile(f)
           \/ UNCHANGED vars
  BY <1>6 DEF StartServe, ChangeContact, SaveContact, EditFile, threadVars, vars
<1> QED
  BY <1>2, <1>3, <1>4, <1>5, <1>6 DEF Next

LEMMA ShutOutStep ==
  ASSUME Inv, RevocationInv, [Next]_vars, NEW s \in Session, ClientOf[s] \in Client \ Unsettled,
         ShutOut(s)
  PROVE  ShutOut(s)'
<1> DEFINE c == ClientOf[s]
<1>1. /\ stored[c] = "revoked" => stored'[c] = "revoked" /\ contacts[c] = "revoked"
      /\ up /\ contacts[c] = "revoked" => contacts'[c] = "revoked"
  BY StaysRevoked DEF RevocationInv, RevocationKept
<1>2. spc[s] \in {"tls", "await_init"} => up
  BY DEF RevocationInv, Alive
<1>3. \/ spc'[s] = spc[s] \/ spc'[s] = "done"
      \/ spc[s] = "none" /\ spc'[s] = "tls" /\ contacts' = contacts
      \/ spc[s] = "tls" /\ spc'[s] = "await_init" /\ contacts' = contacts
  BY StaysOut
<1> HIDE DEF c
<1>4. /\ spc[s] = "none" => stored[c] = "revoked"
      /\ spc[s] \in {"tls", "await_init"} => contacts[c] = "revoked"
      /\ spc[s] \in {"none", "tls", "await_init", "done"}
  BY DEF ShutOut, c
<1>5. /\ spc'[s] \in {"none", "tls", "await_init", "done"}
      /\ spc'[s] = "none" => stored'[c] = "revoked"
      /\ spc'[s] \in {"tls", "await_init"} => contacts'[c] = "revoked"
  BY <1>1, <1>2, <1>3, <1>4
<1> QED
  BY <1>5 DEF ShutOut, c

\* A contact that is revoked before it is admitted on a connection never gets a
\* file on that connection, unless its record can be overwritten, or `serve` is
\* killed before the revocation is saved and the connection comes after that.
THEOREM RevocationHolds == Spec => RevokedStaysOut
<1>1. ASSUME NEW s \in {r \in Session : ClientOf[r] \notin Unsettled}
      PROVE  Spec => [](contacts[ClientOf[s]] = "revoked"
                        /\ (spc[s] = "none" => stored[ClientOf[s]] = "revoked")
                        /\ spc[s] \in {"none", "tls", "await_init"}
                          => [](spc[s] # "sending"))
  <2>1. ClientOf[s] \in Client \ Unsettled /\ s \in Session
    BY SessionAssumption DEF SessionAssumption
  <2>2. ShutOut(s) /\ Inv /\ RevocationInv /\ [Next]_vars => ShutOut(s)'
    BY <2>1, ShutOutStep
  <2>3. /\ contacts[ClientOf[s]] = "revoked"
        /\ spc[s] = "none" => stored[ClientOf[s]] = "revoked"
        /\ spc[s] \in {"none", "tls", "await_init"}
        => ShutOut(s)
    BY DEF ShutOut
  <2>4. ShutOut(s) => spc[s] # "sending"
    BY DEF ShutOut
  <2> QED
    BY <2>2, <2>3, <2>4, Invariance, InitRevocation, RevocationStep, PTL DEF Spec
<1> QED
  BY <1>1 DEF RevokedStaysOut
=============================================================================
