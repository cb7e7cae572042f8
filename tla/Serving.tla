------------------------------ MODULE Serving ------------------------------
(***************************************************************************)
(* `serve` from its start to its end, and `discover` beside it: the        *)
(* temporary PEM files of the TLS context, the listening socket and the    *)
(* mDNS record, with failures of each, Ctrl+C and kills at every step.     *)
(* What the network knows of a name, and what a browser is told, is        *)
(* zeroconf's part, taken from how discovery.py uses it.  Every peer has a *)
(* machine and an identity of its own.                                     *)
(***************************************************************************)
EXTENDS Integers, FiniteSets

CONSTANTS
  Peer,
  Port,       \* what bind may give: --port, or the system's choice
  MaxStarts,  \* bound: starts of serve
  None        \* no mDNS record

ASSUME ServingAssumption ==
  /\ MaxStarts \in Nat /\ None \notin Port
  /\ None \notin [port : Port, run : 1..MaxStarts]

VARIABLES
  pc,         \* where cmd_serve is
  starts,     \* starts of serve so far
  run,        \* the number of its latest start
  temp,       \* the PEM files in the temporary directory, with the run that made them
  listening,  \* the port of the listening socket, or None
  record,     \* the mDNS record under the peer's name
  scan,       \* discover
  cut         \* history: what went wrong with a run: it ended before or after it was
              \* "running", the "record" stayed, the "cert" or "key" file stayed

vars == <<pc, starts, run, temp, listening, record, scan, cut>>

\* "pending": additions on_change was not called for yet; "found": what discover_peers
\* will return; "steady": history, the records that have been there, unchanged,
\* since the scan began; "missed": history, those of them that could not be
\* resolved or parsed.
NoScan == [on |-> FALSE, pending |-> {}, found |-> {}, steady |-> {}, missed |-> {}]

Init ==
  /\ pc = [p \in Peer |-> "off"] /\ starts = 0 /\ run = [p \in Peer |-> 0]
  /\ temp = [p \in Peer |-> {}]
  /\ listening = [p \in Peer |-> None]
  /\ record = [p \in Peer |-> None]
  /\ scan = NoScan
  /\ cut = {}

----------------------------------------------------------------------------
(* mDNS.                                                                   *)

Advertised == {p \in Peer : record[p] # None}

\* The network learns that p's record is now r.  A browser is told of an addition
\* only when the name is new to it.
Announce(p, r) ==
  /\ record' = [record EXCEPT ![p] = r]
  /\ scan' =
       IF ~scan.on THEN scan
       ELSE IF r = None
       THEN [scan EXCEPT !.steady = {e \in @ : e.peer # p}]
       ELSE [scan EXCEPT !.steady = {e \in @ : e.peer # p},
                         !.pending = IF p \in Advertised THEN @ ELSE @ \union {p}]

Entry(p) == [peer |-> p, port |-> record[p].port]

----------------------------------------------------------------------------
(* Server.start and MDNSAdvertiser.start.                                  *)

Start(p) ==
  /\ pc[p] = "off" /\ starts < MaxStarts
  /\ pc' = [pc EXCEPT ![p] = "cert"]
  /\ starts' = starts + 1 /\ run' = [run EXCEPT ![p] = starts + 1]
  /\ UNCHANGED <<temp, listening, record, scan, cut>>

\* Mutant: advertise before the port is bound.
AdvertiseFirst == "register"

\* cmd_serve: server.start(), and then mdns.start().
AfterContext == "bind"

\* _write_temp_pem, for the certificate and then for the key.
WritePem(p) ==
  /\ pc[p] \in {"cert", "key"}
  /\ temp' = [temp EXCEPT ![p] = @ \union {<<run[p], pc[p]>>}]
  /\ pc' = [pc EXCEPT ![p] = IF @ = "cert" THEN "key" ELSE AfterContext]
  /\ UNCHANGED <<starts, run, listening, record, scan, cut>>

\* bind, listen and the accept thread.
Bind(p) ==
  /\ pc[p] = "bind"
  /\ \E port \in Port : listening' = [listening EXCEPT ![p] = port]
  /\ pc' = [pc EXCEPT ![p] = "register"]
  /\ UNCHANGED <<starts, run, temp, record, scan, cut>>

\* mdns.start.  Without zeroconf or a usable interface serve goes on unadvertised.
Register(p) ==
  /\ pc[p] = "register"
  /\ pc' = [pc EXCEPT ![p] = "running"]
  /\ \/ Announce(p, [port |-> listening[p], run |-> run[p]])
     \/ UNCHANGED <<record, scan>>
  /\ UNCHANGED <<starts, run, temp, listening, cut>>

----------------------------------------------------------------------------
(* The end.                                                                *)

\* Before cmd_serve is in its try nothing tidies up after an exception.
Early == {"cert", "key", "bind", "register"}

\* The process is gone with nothing tidied up.
Dies(p) ==
  /\ pc' = [pc EXCEPT ![p] = "off"]
  /\ listening' = [listening EXCEPT ![p] = None]
  /\ cut' = cut \union {<<run[p], IF pc[p] \in Early THEN "unstarted" ELSE "killed">>}
  /\ UNCHANGED <<starts, run, temp, record, scan>>

\* The port is taken: start raises.
BindFails(p) == pc[p] = "bind" /\ Dies(p)

Kill(p) == pc[p] # "off" /\ Dies(p)

\* Mutant: the mDNS record is left.
CloseFirst == "close"

\* The finally of cmd_serve: mdns.stop(), then server.stop().
FirstToStop == "unregister"

\* Ctrl+C.  Only while cmd_serve waits is it caught; a second one ends the finally.
Interrupt(p) ==
  \/ /\ pc[p] = "running"
     /\ pc' = [pc EXCEPT ![p] = FirstToStop]
     /\ UNCHANGED <<starts, run, temp, listening, record, scan, cut>>
  \/ pc[p] \notin {"off", "running"} /\ Dies(p)

\* mdns.stop.  Under the name there may still be the record of an earlier run.
\* What goes wrong is passed over.
Unregister(p) ==
  /\ pc[p] = "unregister"
  /\ pc' = [pc EXCEPT ![p] = "close"]
  /\ \/ Announce(p, None) /\ UNCHANGED cut
     \/ UNCHANGED <<record, scan>> /\ cut' = cut \union {<<run[p], "record">>}
  /\ UNCHANGED <<starts, run, temp, listening>>

\* Mutant: the key file is left.
OnlyCert(p) == {<<run[p], "cert">>}

\* server.stop, [self._cert_path, self._key_path].
PemFiles(p) == {<<run[p], "cert">>, <<run[p], "key">>}

\* server.stop: the socket, and then the PEM files.
CloseSocket(p) ==
  /\ pc[p] = "close"
  /\ pc' = [pc EXCEPT ![p] = "unlink"]
  /\ listening' = [listening EXCEPT ![p] = None]
  /\ UNCHANGED <<starts, run, temp, record, scan, cut>>

\* Each os.unlink may fail, and the failure is passed over: that file is left.
Unlink(p) ==
  /\ pc[p] = "unlink"
  /\ pc' = [pc EXCEPT ![p] = "off"]
  /\ \E left \in SUBSET PemFiles(p) :
       /\ temp' = [temp EXCEPT ![p] = @ \ (PemFiles(p) \ left)]
       /\ cut' = cut \union left
  /\ UNCHANGED <<starts, run, listening, record, scan>>

\* A record nobody answers for any more is dropped in the end.
Expire(p) ==
  /\ record[p] # None
  /\ pc[p] = "off" \/ record[p].run # run[p]
  /\ Announce(p, None)
  /\ UNCHANGED <<pc, starts, run, temp, listening, cut>>

----------------------------------------------------------------------------
(* discover_peers.                                                         *)

\* Mutant: on_change is called for what comes after the start only.
OnlyNews == {}

\* on_change is called for what was there before as well.
AtFirst == Advertised

BeginScan ==
  /\ ~scan.on
  /\ scan' = [on |-> TRUE, pending |-> AtFirst, found |-> {},
              steady |-> {Entry(p) : p \in Advertised}, missed |-> {}]
  /\ UNCHANGED <<pc, starts, run, temp, listening, record, cut>>

\* on_change, which is called once for an addition: the record as it is by now is
\* found; or it is gone; or get_service_info gets no answer for it in time or it
\* cannot be parsed, and it is passed over for the rest of the scan.
OnChange(p) ==
  /\ scan.on /\ p \in scan.pending
  /\ \/ /\ p \in Advertised
        /\ scan' = [scan EXCEPT !.pending = @ \ {p}, !.found = @ \union {Entry(p)}]
     \/ scan' = [scan EXCEPT !.pending = @ \ {p},
                             !.missed = @ \union {e \in scan.steady : e.peer = p}]
  /\ UNCHANGED <<pc, starts, run, temp, listening, record, cut>>

\* The 5 s are over, whatever is still pending: what was found is returned.
EndScan ==
  /\ scan.on
  /\ scan' = NoScan
  /\ UNCHANGED <<pc, starts, run, temp, listening, record, cut>>

----------------------------------------------------------------------------
Serve(p) ==
  \/ Start(p) \/ WritePem(p) \/ Bind(p) \/ Register(p)
  \/ BindFails(p) \/ Kill(p) \/ Interrupt(p)
  \/ Unregister(p) \/ CloseSocket(p) \/ Unlink(p) \/ Expire(p)

Next ==
  \/ \E p \in Peer : Serve(p) \/ OnChange(p)
  \/ BeginScan \/ EndScan

Spec == Init /\ [][Next]_vars

----------------------------------------------------------------------------
(* Properties.                                                             *)

Record == [port : Port, run : 1..MaxStarts]
Entries == [peer : Peer, port : Port]

\* Type invariant.
TypeOK ==
  /\ pc \in [Peer -> {"off", "cert", "key", "bind", "register", "running",
                      "unregister", "close", "unlink"}]
  /\ run \in [Peer -> 0..MaxStarts]
  /\ temp \in [Peer -> SUBSET ((1..MaxStarts) \X {"cert", "key"})]
  /\ listening \in [Peer -> Port \union {None}] /\ starts \in 0..MaxStarts
  /\ record \in [Peer -> Record \union {None}]
  /\ scan.on \in BOOLEAN /\ scan.pending \subseteq Peer
  /\ scan.found \subseteq Entries /\ scan.steady \subseteq Entries
  /\ scan.missed \subseteq Entries
  /\ cut \subseteq (1..MaxStarts) \X {"unstarted", "killed", "record", "cert", "key"}

Serves(p, r) == pc[p] # "off" /\ run[p] = r

\* Whoever is advertised can be connected to at the advertised port, from before
\* the record appears until after it is withdrawn, over restarts on other ports,
\* unless serve was killed or could not withdraw the record
\* (cmd_serve, Server.start and stop, MDNSAdvertiser.start and stop).
AdvertisedIsListening ==
  \A p \in Advertised :
    \/ <<record[p].run, "record">> \in cut \/ <<record[p].run, "killed">> \in cut
    \/ Serves(p, record[p].run) /\ listening[p] = record[p].port

\* A run of serve that ends by the finally of cmd_serve leaves of its PEM files, one
\* of which is the private key, only one whose own removal failed, whatever else
\* went wrong: a record that cannot be withdrawn, or the other file, does not keep
\* it there.  Of a run that did not come to its try, or was killed, nothing is
\* said: its files stay (cmd_serve, Server.stop).
OrderlyEndTidies ==
  \A p \in Peer : \A e \in temp[p] :
    \/ Serves(p, e[1])
    \/ <<e[1], "unstarted">> \in cut \/ <<e[1], "killed">> \in cut
    \/ e \in cut

\* discover shows every peer that was advertised all the time, with its port,
\* whatever other peers come and go, once on_change was called for each addition,
\* unless its own record could not be resolved or parsed when it was
\* (discover_peers).
SteadyIsFound == scan.pending = {} => scan.steady \subseteq scan.found \union scan.missed
=============================================================================
