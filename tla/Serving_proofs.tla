---------------------------- MODULE Serving_proofs ----------------------------
(***************************************************************************)
(* Proofs about Serving, for any number of peers, ports and starts.        *)
(***************************************************************************)
EXTENDS Serving, TLAPS

----------------------------------------------------------------------------
(* The inductive invariant.                                                *)

PcOK == pc \in [Peer -> {"off", "cert", "key", "bind", "register", "running",
                         "unregister", "close", "unlink"}]

RunOK ==
  /\ starts \in 0..MaxStarts
  /\ run \in [Peer -> 0..MaxStarts]
  /\ \A p \in Peer : run[p] <= starts /\ (pc[p] # "off" => run[p] >= 1)

TempOK == temp \in [Peer -> SUBSET ((1..MaxStarts) \X {"cert", "key"})]

NetOK ==
  /\ listening \in [Peer -> Port \union {None}]
  /\ \A p \in Peer : pc[p] = "register" => listening[p] \in Port
  /\ record \in [Peer -> Record \union {None}]

ScanOK ==
  scan \in [on : BOOLEAN, pending : SUBSET Peer, found : SUBSET Entries,
            steady : SUBSET Entries, missed : SUBSET Entries]

CutOK == cut \subseteq (1..MaxStarts) \X {"unstarted", "killed", "record", "cert", "key"}

Typed == PcOK /\ RunOK /\ TempOK /\ NetOK /\ ScanOK /\ CutOK

Late == {"close", "unlink"}

\* Where a run of serve is says whether it is advertised: not before it has its
\* port, and not after mdns.stop unless that went wrong.
Withdrawn ==
  \A p \in Advertised :
    /\ record[p].run <= run[p]
    /\ pc[p] \in Early => record[p].run # run[p]
    /\ pc[p] \in Late => \/ <<record[p].run, "record">> \in cut
                         \/ <<record[p].run, "killed">> \in cut

\* What was there all the time is still there, and is pending, found or passed over.
SteadyIsKnown ==
  \A e \in scan.steady :
    /\ scan.on => e.peer \in Advertised /\ e = Entry(e.peer)
    /\ e.peer \in scan.pending \/ e \in scan.found \/ e \in scan.missed

IInv == Typed /\ Withdrawn /\ AdvertisedIsListening /\ OrderlyEndTidies /\ SteadyIsKnown

LEMMA NoneIsNoRecord == None \notin Record
  BY ServingAssumption DEF Record

LEMMA TypedSuffices == Typed => TypeOK
  BY DEF Typed, PcOK, RunOK, TempOK, NetOK, ScanOK, CutOK, TypeOK

LEMMA SteadySuffices == SteadyIsKnown => SteadyIsFound
  BY DEF SteadyIsKnown, SteadyIsFound

----------------------------------------------------------------------------
(* The scan.                                                               *)

\* A record that appears or goes leaves what a scan knows of the others alone.
LEMMA AnnounceScan ==
  ASSUME IInv, NEW p \in Peer, NEW r \in Record \union {None}, Announce(p, r)
  PROVE  ScanOK' /\ SteadyIsKnown'
<1>1. /\ scan \in [on : BOOLEAN, pending : SUBSET Peer, found : SUBSET Entries,
                   steady : SUBSET Entries, missed : SUBSET Entries]
      /\ record \in [Peer -> Record \union {None}]
  BY DEF IInv, Typed, ScanOK, NetOK
<1>2. \A q \in Peer \ {p} : record'[q] = record[q]
  BY <1>1 DEF Announce
<1>3. \A e \in Entries : e.peer \in Peer
  BY DEF Entries
<1>4. CASE ~scan.on
  <2>1. scan' = scan
    BY <1>4 DEF Announce
  <2> QED
    BY <1>1, <1>4, <2>1 DEF IInv, ScanOK, SteadyIsKnown
<1>5. CASE scan.on
  <2>1. /\ scan'.on = scan.on /\ scan'.found = scan.found /\ scan'.missed = scan.missed
        /\ scan'.steady = {e \in scan.steady : e.peer # p}
        /\ scan.pending \subseteq scan'.pending
        /\ scan'.pending \subseteq scan.pending \union {p}
        /\ scan' = [on |-> scan'.on, pending |-> scan'.pending, found |-> scan'.found,
                    steady |-> scan'.steady, missed |-> scan'.missed]
    BY <1>1, <1>5, Zenon DEF Announce
  <2>2. ScanOK'
    BY <1>1, <2>1 DEF ScanOK
  <2>3. \A e \in scan'.steady :
          /\ e.peer \in Advertised' /\ e = Entry(e.peer)'
          /\ e.peer \in scan'.pending \/ e \in scan'.found \/ e \in scan'.missed
    BY <1>1, <1>2, <1>3, <1>5, <2>1 DEF IInv, SteadyIsKnown, Advertised, Entry
  <2> QED
    BY <2>2, <2>3 DEF SteadyIsKnown
<1> QED
  BY <1>4, <1>5

\* Nothing else of serve touches the scan.
LEMMA SameScan ==
  ASSUME IInv, UNCHANGED <<scan, record>>
  PROVE  ScanOK' /\ SteadyIsKnown'
  BY DEF IInv, Typed, ScanOK, SteadyIsKnown, Advertised, Entry

----------------------------------------------------------------------------
(* serve.                                                                  *)

\* The parts of the invariant that speak of serve and not of the scan.
Served == PcOK /\ RunOK /\ TempOK /\ NetOK /\ CutOK
          /\ Withdrawn /\ AdvertisedIsListening /\ OrderlyEndTidies

LEMMA StartStep ==
  ASSUME IInv, NEW p \in Peer, Start(p)
  PROVE  Served'
  BY ServingAssumption
     DEF IInv, Typed, PcOK, RunOK, TempOK, NetOK, CutOK, Withdrawn, AdvertisedIsListening,
         OrderlyEndTidies, Served, Start, Advertised, Serves, Early, Late, Record

LEMMA WritePemStep ==
  ASSUME IInv, NEW p \in Peer, WritePem(p)
  PROVE  Served'
  BY ServingAssumption
     DEF IInv, Typed, PcOK, RunOK, TempOK, NetOK, CutOK, Withdrawn, AdvertisedIsListening,
         OrderlyEndTidies, Served, WritePem, AfterContext, Advertised, Serves, Early, Late

LEMMA BindStep ==
  ASSUME IInv, NEW p \in Peer, Bind(p)
  PROVE  Served'
  BY ServingAssumption
     DEF IInv, Typed, PcOK, RunOK, TempOK, NetOK, CutOK, Withdrawn, AdvertisedIsListening,
         OrderlyEndTidies, Served, Bind, Advertised, Serves, Early, Late

LEMMA RegisterStep ==
  ASSUME IInv, NEW p \in Peer, Register(p)
  PROVE  Served'
  BY ServingAssumption, NoneIsNoRecord
     DEF IInv, Typed, PcOK, RunOK, TempOK, NetOK, CutOK, Withdrawn, AdvertisedIsListening,
         OrderlyEndTidies, Served, Register, Announce, Advertised, Serves, Early, Late, Record

LEMMA DiesStep ==
  ASSUME IInv, NEW p \in Peer, pc[p] # "off", Dies(p)
  PROVE  Served'
  BY ServingAssumption
     DEF IInv, Typed, PcOK, RunOK, TempOK, NetOK, CutOK, Withdrawn, AdvertisedIsListening,
         OrderlyEndTidies, Served, Dies, Advertised, Serves, Early, Late

LEMMA UnregisterStep ==
  ASSUME IInv, NEW p \in Peer, Unregister(p)
  PROVE  Served'
  BY ServingAssumption
     DEF IInv, Typed, PcOK, RunOK, TempOK, NetOK, CutOK, Withdrawn, AdvertisedIsListening,
         OrderlyEndTidies, Served, Unregister, Announce, Advertised, Serves, Early, Late

LEMMA CloseSocketStep ==
  ASSUME IInv, NEW p \in Peer, CloseSocket(p)
  PROVE  Served'
  BY ServingAssumption
     DEF IInv, Typed, PcOK, RunOK, TempOK, NetOK, CutOK, Withdrawn, AdvertisedIsListening,
         OrderlyEndTidies, Served, CloseSocket, Advertised, Serves, Early, Late

LEMMA UnlinkStep ==
  ASSUME IInv, NEW p \in Peer, Unlink(p)
  PROVE  Served'
  BY ServingAssumption
     DEF IInv, Typed, PcOK, RunOK, TempOK, NetOK, CutOK, Withdrawn, AdvertisedIsListening,
         OrderlyEndTidies, Served, Unlink, PemFiles, Advertised, Serves, Early, Late

LEMMA ExpireStep ==
  ASSUME IInv, NEW p \in Peer, Expire(p)
  PROVE  Served'
  BY ServingAssumption
     DEF IInv, Typed, PcOK, RunOK, TempOK, NetOK, CutOK, Withdrawn, AdvertisedIsListening,
         OrderlyEndTidies, Served, Expire, Announce, Advertised, Serves, Early, Late

\* Ctrl+C while cmd_serve waits.
LEMMA InterruptStep ==
  ASSUME IInv, NEW p \in Peer, Interrupt(p), pc[p] = "running"
  PROVE  Served'
  BY ServingAssumption
     DEF IInv, Typed, PcOK, RunOK, TempOK, NetOK, CutOK, Withdrawn, AdvertisedIsListening,
         OrderlyEndTidies, Served, Interrupt, Dies, FirstToStop, Advertised, Serves, Early, Late

----------------------------------------------------------------------------
(* The theorems.                                                           *)

LEMMA InitHolds == Init => IInv
  BY ServingAssumption, NoneIsNoRecord
     DEF Init, IInv, Typed, PcOK, RunOK, TempOK, NetOK, ScanOK, CutOK, Withdrawn, NoScan,
         AdvertisedIsListening, OrderlyEndTidies, SteadyIsKnown, Advertised, Early, Late,
         Entries

\* Whatever discover does, serve is as it was.
LEMMA ScanStep ==
  ASSUME IInv,
         \/ \E p \in Peer : OnChange(p)
         \/ BeginScan \/ EndScan
  PROVE  IInv'
<1> USE DEF IInv, Typed, ScanOK, SteadyIsKnown
<1>1. UNCHANGED <<pc, starts, run, temp, listening, record, cut>>
  BY DEF OnChange, BeginScan, EndScan
<1>2. (PcOK /\ RunOK /\ TempOK /\ NetOK /\ CutOK)' /\ Withdrawn'
      /\ AdvertisedIsListening' /\ OrderlyEndTidies'
  BY <1>1 DEF PcOK, RunOK, TempOK, NetOK, CutOK, Withdrawn, AdvertisedIsListening,
              OrderlyEndTidies, Advertised, Serves
<1>3. \A p \in Advertised : Entry(p) \in Entries /\ Entry(p).peer = p
  <2>1. \A p \in Advertised : p \in Peer /\ record[p] \in Record
    BY DEF NetOK, Advertised
  <2> QED
    BY <2>1 DEF Entry, Entries, Record
<1>4. \A p \in Peer : Entry(p)' = Entry(p) /\ (p \in Advertised' <=> p \in Advertised)
  BY <1>1 DEF Entry, Advertised
<1>5. Advertised \subseteq Peer /\ Advertised' = Advertised
  BY <1>1 DEF Advertised
<1>6. \A e \in Entries : e.peer \in Peer
  BY DEF Entries
<1>7. CASE \E p \in Peer : OnChange(p)
  <2>1. PICK p \in Peer : OnChange(p)
    BY <1>7
  <2>2. /\ scan'.on = scan.on /\ scan'.steady = scan.steady /\ scan.on
        /\ scan'.pending = scan.pending \ {p}
        /\ \/ /\ p \in Advertised
              /\ scan'.found = scan.found \union {Entry(p)} /\ scan'.missed = scan.missed
           \/ /\ scan'.found = scan.found
              /\ scan'.missed = scan.missed \union {e \in scan.steady : e.peer = p}
    BY <2>1 DEF OnChange
  <2>3. ScanOK'
    BY <1>3, <2>1, <2>2 DEF OnChange
  <2>4. SteadyIsKnown'
    BY <1>4, <1>5, <1>6, <2>2
  <2> QED
    BY <1>2, <2>3, <2>4
<1>8. CASE BeginScan
  <2>1. /\ scan'.on /\ scan'.pending = Advertised /\ scan'.found = {} /\ scan'.missed = {}
        /\ scan'.steady = {Entry(p) : p \in Advertised}
        /\ scan' \in [on : BOOLEAN, pending : SUBSET Peer, found : SUBSET Entries,
                      steady : SUBSET Entries, missed : SUBSET Entries]
    BY <1>3, <1>5, <1>8 DEF BeginScan, AtFirst
  <2>2. \A e \in scan'.steady : e.peer \in Advertised /\ e = Entry(e.peer)
    BY <1>3, <2>1
  <2> QED
    BY <1>2, <1>4, <1>5, <2>1, <2>2
<1>9. CASE EndScan
  BY <1>2, <1>9 DEF EndScan, NoScan
<1> QED
  BY <1>7, <1>8, <1>9

\* The inductive step, action by action.
LEMMA Inductive == IInv /\ [Next]_vars => IInv'
<1> SUFFICES ASSUME IInv, [Next]_vars PROVE IInv'
  OBVIOUS
<1> USE DEF IInv, Typed
<1>1. ASSUME NEW p \in Peer, Serve(p) PROVE IInv'
  <2>1. CASE Register(p)
    <3>1. [port |-> listening[p], run |-> run[p]] \in Record
      BY <2>1 DEF Register, NetOK, RunOK, PcOK, Record
    <3>2. ScanOK' /\ SteadyIsKnown'
      BY <2>1, <3>1, AnnounceScan, SameScan DEF Register
    <3> QED
      BY <2>1, <3>2, RegisterStep DEF Served
  <2>2. CASE Unregister(p)
    <3>1. ScanOK' /\ SteadyIsKnown'
      BY <2>2, AnnounceScan, SameScan DEF Unregister
    <3> QED
      BY <2>2, <3>1, UnregisterStep DEF Served
  <2>3. CASE Expire(p)
    <3>1. ScanOK' /\ SteadyIsKnown'
      BY <2>3, AnnounceScan DEF Expire
    <3> QED
      BY <2>3, <3>1, ExpireStep DEF Served
  <2>4. CASE BindFails(p) \/ Kill(p) \/ Interrupt(p)
    <3>1. ScanOK' /\ SteadyIsKnown'
      BY <2>4, SameScan DEF BindFails, Kill, Interrupt, Dies
    <3> QED
      BY <2>4, <3>1, DiesStep, InterruptStep DEF BindFails, Kill, Interrupt, Served
  <2>5. CASE Start(p) \/ WritePem(p) \/ Bind(p) \/ CloseSocket(p) \/ Unlink(p)
    <3>1. ScanOK' /\ SteadyIsKnown'
      BY <2>5, SameScan DEF Start, WritePem, Bind, CloseSocket, Unlink
    <3> QED
      BY <2>5, <3>1, StartStep, WritePemStep, BindStep, CloseSocketStep, UnlinkStep DEF Served
  <2> QED
    BY <1>1, <2>1, <2>2, <2>3, <2>4, <2>5 DEF Serve
<1>2. CASE UNCHANGED vars
  BY <1>2 DEF vars, PcOK, RunOK, TempOK, NetOK, ScanOK, CutOK, Withdrawn, SteadyIsKnown, Entry,
              AdvertisedIsListening, OrderlyEndTidies, Advertised, Serves
<1> QED
  BY <1>1, <1>2, ScanStep DEF Next

\* The inductive invariant holds throughout.
THEOREM Invariant == Spec => []IInv
  BY InitHolds, Inductive, PTL DEF Spec

\* The type invariant of Serving.
THEOREM TypeCorrect == Spec => []TypeOK
<1>1. IInv => TypeOK
  BY TypedSuffices DEF IInv
<1> QED
  BY <1>1, Invariant, PTL

\* Whoever is advertised can be connected to at the advertised port, unless its
\* serve was killed or could not withdraw the record (cmd_serve, Server.start and stop,
\* MDNSAdvertiser.start and stop).
THEOREM AdvertisedCanBeReached == Spec => []AdvertisedIsListening
<1>1. IInv => AdvertisedIsListening
  BY DEF IInv
<1> QED
  BY <1>1, Invariant, PTL

\* A run of serve that ends by its finally leaves only a PEM file whose own removal
\* failed (cmd_serve, Server.stop).
THEOREM PemFilesAreTidied == Spec => []OrderlyEndTidies
<1>1. IInv => OrderlyEndTidies
  BY DEF IInv
<1> QED
  BY <1>1, Invariant, PTL

\* discover shows every peer that was advertised all the time, unless its own
\* record could not be resolved or parsed (discover_peers).
THEOREM SteadyPeersAreFound == Spec => []SteadyIsFound
<1>1. IInv => SteadyIsFound
  BY SteadySuffices DEF IInv
<1> QED
  BY <1>1, Invariant, PTL
=============================================================================
