---------------------------- MODULE FileSession ----------------------------
(***************************************************************************)
(* request-file: Client.request_file/_do_request/_recv_transfer against    *)
(* Server._dispatch/_handle_file_session/_send_file, over any number of    *)
(* connections at once.  Each connection has one client command and one    *)
(* handler thread, joined by two FIFO byte streams (TLS over TCP).  Around *)
(* them: the user edits files on disk, answers consent prompts, restarts   *)
(* `serve` (perhaps after rotate-key), and other handler threads add or    *)
(* revoke the requesting contact.                                          *)
(***************************************************************************)
EXTENDS SessionCrypto, Chunking, FiniteSets

CONSTANTS
  Session,     \* runs of request-file, one connection each
  Client,      \* requesting peers; a client is named by its fingerprint
  ClientOf,    \* the peer that runs each session
  Unsettled,   \* clients whose record other threads or commands may overwrite
  FileId,
  Content,     \* what a file can hold
  Shared,      \* the content each file had when it was shared
  Versions,    \* what the user may turn each file into, None for deleting it
  FileOwner,   \* the identity (see MaxKey) each file was shared under
  MaxKey,      \* bound: the server's identities are 1..MaxKey, newer is larger
  MaxBoots,    \* bound: how often `serve` starts
  None

ASSUME SessionAssumption ==
  /\ ClientOf \in [Session -> Client] /\ Unsettled \subseteq Client
  /\ Content \subseteq Seq(Nat)
  /\ Shared \in [FileId -> Content]
  /\ MaxKey \in Nat \ {0}
  /\ FileOwner \in [FileId -> 1..MaxKey]
  /\ MaxBoots \in Nat
  /\ Versions \in [FileId -> SUBSET (Content \union {None})]
  /\ None \notin Content /\ None \notin FileId

VARIABLES
  up, ident, boots, \* the serve process: running, its identity, starts so far
  index,            \* its share index, as read from share_index.json at start
  contacts,         \* its contact record of each client, in memory
  stored,           \* that of each settled client in contacts.json.enc
  disk,             \* what is at sf.path; None when nothing is
  spc, srv,         \* handler thread of a session: control state, locals
  cpc, req, cli,    \* client command: control state or result, arguments, locals
  c2s, s2c,         \* frames in flight, per session
  received,         \* ReceivedFileStore of each client
  approved,         \* history: sessions whose prompt the user answered "y"
  sealed            \* history: every ciphertext EncryptChunk ever produced

serveVars == <<up, ident, boots, index>>
threadVars == <<spc, srv>>
clientVars == <<cpc, req, cli>>
vars == <<up, ident, boots, index, contacts, stored, disk, spc, srv, cpc, req, cli,
          c2s, s2c, received, approved, sealed>>

ServerKey == 1..MaxKey
Record == {"unknown", "active", "revoked"}

\* A settled client's record is changed by one handler or command at a time, and
\* no notice comes that would put a new record over it.
Settled(table) == [c \in Client \ Unsettled |-> table[c]]

\* What a request-file command ends with.  "saved" is True; "refused",
\* "denied", "error" and "security" are False or an exception shown to the
\* user, the last with a [SECURITY] message; "offline" is the ConnectionError
\* or OSError on which request_file turns to proxies.  A command whose machine
\* goes down is "dead": it closes nothing.
Outcomes == {"saved", "refused", "denied", "error", "security", "offline"}
Awaiting == {"await_resp", "await_reply", "await_start", "await_chunk", "await_done"}

NoSrv == [me |-> None, keys |-> None, file |-> None, data |-> None, idx |-> 0]
NoCli == [keys |-> None, start |-> None, chunks |-> <<>>, got |-> 0]
NoReq == [file |-> None, peer |-> None, knows |-> {}]

Init ==
  /\ up = FALSE /\ ident = 1 /\ boots = 0 /\ index = {}
  /\ contacts \in [Client -> {"unknown", "active"}]
  /\ stored = Settled(contacts)
  /\ disk = Shared
  /\ spc = [s \in Session |-> "none"]
  /\ srv = [s \in Session |-> NoSrv]
  /\ cpc = [s \in Session |-> "idle"]
  /\ req = [s \in Session |-> NoReq]
  /\ cli = [s \in Session |-> NoCli]
  /\ c2s = [s \in Session |-> <<>>]
  /\ s2c = [s \in Session |-> <<>>]
  /\ received = [c \in Client |-> [f \in FileId |-> None]]
  /\ approved = {}
  /\ sealed = {}

----------------------------------------------------------------------------
(* Frames.  What is sent to a client that is gone is lost.                 *)

ClientGone(s) == cpc[s] \in Outcomes \union {"dead"}
ServerClosed(s) == spc[s] = "done"

ToClient(s, type, payload) ==
  s2c' = IF ClientGone(s) THEN s2c
         ELSE [s2c EXCEPT ![s] = Append(@, BuildEnvelope(srv'[s].me, type, payload))]

ToServer(s, type, payload) ==
  c2s' = [c2s EXCEPT ![s] = Append(@, BuildEnvelope(ClientOf[s], type, payload))]

\* Ephemeral keys and nonces are fresh for each end of each session.
Eph(role, s) == <<"eph", role, s>>
Rand(role, s) == <<"rand", role, s>>

----------------------------------------------------------------------------
(* The client command.                                                     *)

\* The command ends: `finally: sock.close()`.
Finish(s, outcome) ==
  /\ cpc' = [cpc EXCEPT ![s] = outcome]
  /\ s2c' = [s2c EXCEPT ![s] = <<>>]

Continue(s, pc) ==
  /\ cpc' = [cpc EXCEPT ![s] = pc]
  /\ s2c' = [s2c EXCEPT ![s] = Tail(@)]

\* request_file up to the HANDSHAKE_INIT of perform_handshake_initiator.
\* "knows" are the server's identities this client has as contacts, "peer"
\* the one at the given address.  A connection that is accepted gets a handler
\* thread; the TLS handshake may still fail at the client, after 10 s at the
\* latest, or its machine go down in it.
RequestFile(s) ==
  /\ cpc[s] = "idle"
  /\ \E f \in FileId, knows \in SUBSET ServerKey, revoked \in BOOLEAN :
     \E peer \in knows :
       /\ req' = [req EXCEPT ![s] = [file |-> f, peer |-> peer, knows |-> knows]]
       /\ \/ /\ revoked
             /\ cpc' = [cpc EXCEPT ![s] = "refused"]
             /\ UNCHANGED <<spc, srv, c2s>>
          \/ /\ ~revoked /\ ~up
             /\ cpc' = [cpc EXCEPT ![s] = "offline"]
             /\ UNCHANGED <<spc, srv, c2s>>
          \/ /\ ~revoked /\ up
             /\ spc' = [spc EXCEPT ![s] = "tls"]
             /\ srv' = [srv EXCEPT ![s].me = ident]
             /\ \/ /\ cpc' = [cpc EXCEPT ![s] = "await_resp"]
                   /\ ToServer(s, "HANDSHAKE_INIT", <<Eph("i", s), Rand("i", s)>>)
                \/ /\ \E outcome \in {"offline", "dead"} : cpc' = [cpc EXCEPT ![s] = outcome]
                   /\ UNCHANGED c2s
  /\ UNCHANGED <<serveVars, contacts, stored, disk, cli, s2c, received, approved, sealed>>

\* The rest of perform_handshake_initiator, then FILE_REQUEST.
RecvHandshakeResp(s) ==
  /\ cpc[s] = "await_resp" /\ s2c[s] # <<>>
  /\ LET resp == Head(s2c[s])
         peer == req[s].peer
         genuine == /\ resp.from = peer
                    /\ VerifyEnvelope(resp, peer)
                    /\ Ed25519Verify(peer, resp.payload.tsig,
                         Transcript(ClientOf[s], peer, Eph("i", s), resp.payload.eph,
                                    Rand("i", s), resp.payload.nonce))
     IN  \/ /\ resp.type # "HANDSHAKE_RESP"
            /\ Finish(s, "error")
            /\ UNCHANGED <<cli, c2s>>
         \/ /\ resp.type = "HANDSHAKE_RESP" /\ ~genuine
            /\ Finish(s, "security")
            /\ UNCHANGED <<cli, c2s>>
         \/ /\ resp.type = "HANDSHAKE_RESP" /\ genuine
            /\ cli' = [cli EXCEPT ![s].keys =
                 Derive(Exchange(Eph("i", s), resp.payload.eph), Rand("i", s),
                        resp.payload.nonce, ClientOf[s], peer, TRUE)]
            /\ Continue(s, "await_reply")
            /\ ToServer(s, "FILE_REQUEST", req[s].file)
  /\ UNCHANGED <<serveVars, threadVars, contacts, stored, disk, req, received, approved, sealed>>

RecvReply(s) ==
  /\ cpc[s] = "await_reply" /\ s2c[s] # <<>>
  /\ LET reply == Head(s2c[s]) IN
       CASE reply.type = "FILE_APPROVE" -> Continue(s, "await_start")
         [] reply.type = "FILE_DENY"    -> Finish(s, "denied")
         [] OTHER                       -> Finish(s, "error")
  /\ UNCHANGED <<serveVars, threadVars, contacts, stored, disk, req, cli, c2s, received,
                 approved, sealed>>

\* Mutant: checked against the peer the file came from.
ManifestFromPeer(s, p) ==
  /\ p.owner \in req[s].knows
  /\ Ed25519Verify(req[s].peer, p.manifest_sig, CanonicalManifest(p.file_id, p.owner, p.sha256))

\* The owner is a contact and signed this id for this content.
ManifestGenuine(s, p) ==
  /\ p.owner \in req[s].knows
  /\ Ed25519Verify(p.owner, p.manifest_sig, CanonicalManifest(p.file_id, p.owner, p.sha256))

\* TRANSFER_START, and the manifest check at the head of _recv_transfer.
RecvTransferStart(s) ==
  /\ cpc[s] = "await_start" /\ s2c[s] # <<>>
  /\ LET env == Head(s2c[s])
         p   == env.payload
         genuine == VerifyEnvelope(env, req[s].peer) /\ ManifestGenuine(s, p)
     IN  \/ /\ env.type # "TRANSFER_START"
            /\ Finish(s, "error")
            /\ UNCHANGED cli
         \/ /\ env.type = "TRANSFER_START" /\ ~genuine
            /\ Finish(s, "security")
            /\ UNCHANGED cli
         \/ /\ env.type = "TRANSFER_START" /\ genuine
            /\ cli' = [cli EXCEPT ![s].start = p]
            /\ Continue(s, "await_chunk")
  /\ UNCHANGED <<serveVars, threadVars, contacts, stored, disk, req, c2s, received, approved,
                 sealed>>

\* chunks[idx] = plaintext: an index that comes again replaces what it had.
WithChunk(chunks, idx, data) ==
  [i \in DOMAIN chunks \union {idx} |-> IF i = idx THEN data ELSE chunks[i]]

\* One round of `for _ in range(total_ch)`.
RecvChunk(s) ==
  /\ cpc[s] = "await_chunk" /\ s2c[s] # <<>>
  /\ LET env == Head(s2c[s])
         p   == env.payload
         st  == cli[s].start
         authentic == Decrypts(p.data, cli[s].keys.rx_key, cli[s].keys.rx_nonce,
                               p.chunk_index, st.file_id, st.total_chunks, st.id)
     IN  \/ /\ env.type # "CHUNK"
            /\ Finish(s, "error")
            /\ UNCHANGED cli
         \/ /\ env.type = "CHUNK" /\ ~authentic
            /\ Finish(s, "security")
            /\ UNCHANGED cli
         \/ /\ env.type = "CHUNK" /\ authentic
            /\ cli' = [cli EXCEPT ![s].chunks = WithChunk(@, p.chunk_index, p.data.data),
                                  ![s].got = @ + 1]
            /\ Continue(s, IF cli[s].got + 1 = st.total_chunks
                           THEN "await_done" ELSE "await_chunk")
  /\ UNCHANGED <<serveVars, threadVars, contacts, stored, disk, req, c2s, received, approved,
                 sealed>>

\* Mutants: no check; a check of the size alone.
IntactUnchecked(data, start) == TRUE
IntactBySize(data, start) == Len(data) = Len(Shared[start.file_id])

\* data is what the owner signed for.
Intact(data, start) == Sha256(data) = start.sha256

\* TRANSFER_DONE, the join (KeyError when an index is missing), the SHA-256
\* check, and received_store.save.
RecvTransferDone(s) ==
  /\ cpc[s] = "await_done" /\ s2c[s] # <<>>
  /\ LET st == cli[s].start
         whole == DOMAIN cli[s].chunks = 0..(st.total_chunks - 1)
         data == Join(cli[s].chunks, st.total_chunks)
     IN  \/ /\ Head(s2c[s]).type # "TRANSFER_DONE" \/ ~whole
            /\ Finish(s, "error")
            /\ UNCHANGED received
         \/ /\ Head(s2c[s]).type = "TRANSFER_DONE" /\ whole
            /\ ~Intact(data, st)
            /\ Finish(s, "security")
            /\ UNCHANGED received
         \/ /\ Head(s2c[s]).type = "TRANSFER_DONE" /\ whole
            /\ Intact(data, st)
            /\ received' = [received EXCEPT ![ClientOf[s]][st.file_id] = data]
            /\ Finish(s, "saved")
  /\ UNCHANGED <<serveVars, threadVars, contacts, stored, disk, req, cli, c2s, approved, sealed>>

\* Mutant: no timeout on the client's socket.
RecvFailsOnlyClosed(s) == cpc[s] \in Awaiting /\ s2c[s] = <<>> /\ ServerClosed(s)

\* A recv that finds the stream closed, or nothing on it for 120 seconds.
RecvFails(s) == cpc[s] \in Awaiting /\ s2c[s] = <<>>

ClientIOFails(s) ==
  /\ RecvFails(s)
  /\ Finish(s, "offline")
  /\ UNCHANGED <<serveVars, threadVars, contacts, stored, disk, req, cli, c2s, received,
                 approved, sealed>>

\* The requesting machine goes down, its connection with it.
ClientDies(s) ==
  /\ cpc[s] \in Awaiting
  /\ Finish(s, "dead")
  /\ UNCHANGED <<serveVars, threadVars, contacts, stored, disk, req, cli, c2s, received,
                 approved, sealed>>

----------------------------------------------------------------------------
(* The handler thread.                                                     *)

\* wrap_socket in _handle_connection, before the socket has any timeout: it ends
\* when the client's part of the TLS handshake is there, with what the client sent
\* behind it,
TlsDone(s) ==
  /\ spc[s] = "tls" /\ c2s[s] # <<>>
  /\ spc' = [spc EXCEPT ![s] = "await_init"]
  /\ UNCHANGED <<serveVars, contacts, stored, disk, srv, clientVars, c2s, s2c, received,
                 approved, sealed>>

\* or when the connection ends.  Nothing ends that of a client that has vanished,
\* unless the operating system gives it up.
TlsFails(s) ==
  /\ spc[s] = "tls" /\ c2s[s] = <<>> /\ ClientGone(s)
  /\ spc' = [spc EXCEPT ![s] = "done"]
  /\ UNCHANGED <<serveVars, contacts, stored, disk, srv, clientVars, c2s, s2c, received,
                 approved, sealed>>

\* Mutant: only unknown peers are turned away.
AdmittedIfKnown(init) ==
  /\ contacts[init.from] # "unknown"
  /\ init.type = "HANDSHAKE_INIT" /\ VerifyEnvelope(init, init.from)

\* The contact must be known, not revoked, and have signed the envelope.
Admitted(init) ==
  /\ contacts[init.from] = "active"
  /\ init.type = "HANDSHAKE_INIT" /\ VerifyEnvelope(init, init.from)

\* _dispatch of a HANDSHAKE_INIT and perform_handshake_responder.
Dispatch(s) ==
  /\ spc[s] = "await_init" /\ c2s[s] # <<>>
  /\ c2s' = [c2s EXCEPT ![s] = Tail(@)]
  /\ LET init == Head(c2s[s])
         me   == srv[s].me
     IN  \/ /\ ~Admitted(init)
            /\ spc' = [spc EXCEPT ![s] = "done"]
            /\ UNCHANGED srv
            /\ ToClient(s, "ERROR", <<>>)
         \/ /\ Admitted(init)
            /\ spc' = [spc EXCEPT ![s] = "await_request"]
            /\ srv' = [srv EXCEPT ![s].keys =
                 Derive(Exchange(Eph("r", s), init.payload[1]), init.payload[2],
                        Rand("r", s), init.from, me, FALSE)]
            /\ ToClient(s, "HANDSHAKE_RESP",
                 [eph |-> Eph("r", s), nonce |-> Rand("r", s),
                  tsig |-> Sign(me, Transcript(init.from, me, init.payload[1], Eph("r", s),
                                               init.payload[2], Rand("r", s)))])
  /\ UNCHANGED <<serveVars, contacts, stored, disk, clientVars, received, approved, sealed>>

RecvFileRequest(s) ==
  /\ spc[s] = "await_request" /\ c2s[s] # <<>>
  /\ c2s' = [c2s EXCEPT ![s] = Tail(@)]
  /\ LET env == Head(c2s[s])
         asks == env.type = "FILE_REQUEST"
     IN  \/ /\ ~asks \/ env.payload \notin index
            /\ spc' = [spc EXCEPT ![s] = "done"]
            /\ UNCHANGED srv
            /\ ToClient(s, IF asks THEN "FILE_DENY" ELSE "ERROR", <<>>)
         \/ /\ asks /\ env.payload \in index
            /\ spc' = [spc EXCEPT ![s] = "consent"]
            /\ srv' = [srv EXCEPT ![s].file = env.payload]
            /\ UNCHANGED s2c
  /\ UNCHANGED <<serveVars, contacts, stored, disk, clientVars, received, approved, sealed>>

\* Mutants: no return after a denial; sending without opening the file.
ProceedAnyway(allowed) == "approved"
SendUnopened(allowed) == IF allowed THEN "sending" ELSE "done"

\* Where the handler goes after the answer.
AfterConsent(allowed) == IF allowed THEN "approved" ELSE "done"

\* The user answers the prompt of _default_consent, whenever they please.
Consent(s) ==
  /\ spc[s] = "consent"
  /\ UNCHANGED srv
  /\ \E allowed \in BOOLEAN :
       /\ approved' = IF allowed THEN approved \union {s} ELSE approved
       /\ spc' = [spc EXCEPT ![s] = AfterConsent(allowed)]
       /\ ToClient(s, IF allowed THEN "FILE_APPROVE" ELSE "FILE_DENY", srv[s].file)
  /\ UNCHANGED <<serveVars, contacts, stored, disk, clientVars, c2s, received, sealed>>

\* What TRANSFER_START says: what the owner signed when sharing, the length of
\* what was read, and the envelope's own id.
TransferStart(s, f, data) ==
  [file_id |-> f, sha256 |-> Sha256(Shared[f]), owner |-> FileOwner[f],
   manifest_sig |-> Sign(FileOwner[f], CanonicalManifest(f, FileOwner[f], Sha256(Shared[f]))),
   total_chunks |-> TotalChunks(data), id |-> s]

\* None stands for nothing, and so is no announcement.
ASSUME AnnouncementAssumption ==
  \A s \in Session, f \in FileId, data \in Content : TransferStart(s, f, data) # None

\* _send_file: read sf.path whole, announce the transfer.
OpenFile(s) ==
  /\ spc[s] = "approved"
  /\ LET f == srv[s].file IN
       \/ /\ disk[f] = None
          /\ spc' = [spc EXCEPT ![s] = "done"]
          /\ UNCHANGED srv
          /\ ToClient(s, "ERROR", <<>>)
       \/ /\ disk[f] # None
          /\ spc' = [spc EXCEPT ![s] = "sending"]
          /\ srv' = [srv EXCEPT ![s].data = disk[f]]
          /\ ToClient(s, "TRANSFER_START", TransferStart(s, f, disk[f]))
  /\ UNCHANGED <<serveVars, contacts, stored, disk, clientVars, c2s, received, approved, sealed>>

SendChunk(s) ==
  /\ spc[s] = "sending" /\ srv[s].idx < TotalChunks(srv[s].data)
  /\ LET idx == srv[s].idx
         ct == EncryptChunk(srv[s].keys.tx_key, srv[s].keys.tx_nonce, idx,
                            Chunk(srv[s].data, idx), srv[s].file,
                            TotalChunks(srv[s].data), s)
     IN  /\ sealed' = sealed \union {ct}
         /\ srv' = [srv EXCEPT ![s].idx = idx + 1]
         /\ ToClient(s, "CHUNK", [chunk_index |-> idx, data |-> ct])
  /\ UNCHANGED <<serveVars, contacts, stored, disk, spc, clientVars, c2s, received, approved>>

SendDone(s) ==
  /\ spc[s] = "sending" /\ srv[s].idx = TotalChunks(srv[s].data)
  /\ spc' = [spc EXCEPT ![s] = "done"]
  /\ UNCHANGED srv
  /\ ToClient(s, "TRANSFER_DONE", <<>>)
  /\ UNCHANGED <<serveVars, contacts, stored, disk, clientVars, c2s, received, approved, sealed>>

\* Mutant: no timeout on the handler's socket.
HandlerRecvFailsOnlyClosed(s) ==
  spc[s] \in {"await_init", "await_request"} /\ c2s[s] = <<>> /\ cpc[s] \in Outcomes

\* A recv that times out or finds the client gone, or a send that does: the
\* exception ends the thread.
HandlerRecvFails(s) == spc[s] \in {"await_init", "await_request"} /\ c2s[s] = <<>>
HandlerSendFails(s) == spc[s] \in {"approved", "sending"} /\ ClientGone(s)

HandlerIOFails(s) ==
  /\ HandlerRecvFails(s) \/ HandlerSendFails(s)
  /\ spc' = [spc EXCEPT ![s] = "done"]
  /\ UNCHANGED <<serveVars, contacts, stored, disk, srv, clientVars, c2s, s2c, received,
                 approved, sealed>>

----------------------------------------------------------------------------
(* The serve process as a whole, and the world around it.                  *)

\* A record as it was saved, or made by an add-contact since.
LoadsSaved(record, old) == record = old \/ (old = "unknown" /\ record = "active")

\* `serve` starts with whatever identity, share index and contacts are on disk
\* by then.  Of unsettled clients that may be anything: a command that ran
\* beside `serve` may have written back the contacts it had loaded before.
StartServe ==
  /\ ~up /\ boots < MaxBoots
  /\ up' = TRUE /\ boots' = boots + 1
  /\ ident' \in ident..MaxKey
  /\ index' \in SUBSET {f \in FileId : FileOwner[f] <= ident'}
  /\ contacts' \in [Client -> Record]
  /\ \A c \in Client \ Unsettled : LoadsSaved(contacts'[c], stored[c])
  /\ stored' = Settled(contacts')
  /\ UNCHANGED <<disk, threadVars, clientVars, c2s, s2c, received, approved,
                 sealed>>

\* The process is stopped or dies: every handler thread with it.  What a
\* connection had not delivered yet may or may not still arrive.
StopServe ==
  /\ up /\ up' = FALSE
  /\ spc' = [s \in Session |-> IF spc[s] = "none" THEN "none" ELSE "done"]
  /\ c2s' = [s \in Session |-> <<>>]
  /\ \E lost \in SUBSET Session :
       s2c' = [s \in Session |-> IF s \in lost THEN <<>> ELSE s2c[s]]
  /\ UNCHANGED <<ident, boots, index, contacts, stored, disk, srv, clientVars, received,
                 approved, sealed>>

\* Other handler threads: CONTACT_REQUEST adds, KEY_ROTATE_NOTICE revokes, both
\* in memory first.  A CONTACT_REQUEST that looked the client up before another
\* one added it adds it again, over whatever its record has become, and so does a
\* notice that names it as the new key and comes after its own.
ChangeContact(c) ==
  /\ up
  /\ \/ contacts[c] = "unknown" /\ contacts' = [contacts EXCEPT ![c] = "active"]
     \/ contacts[c] = "active" /\ contacts' = [contacts EXCEPT ![c] = "revoked"]
     \/ /\ contacts[c] = "revoked" /\ c \in Unsettled
        /\ contacts' = [contacts EXCEPT ![c] = "active"]
  /\ UNCHANGED <<serveVars, stored, disk, threadVars, clientVars, c2s, s2c, received,
                 approved, sealed>>

\* The _save after such a change; `serve` may be killed before it.
SaveContact(c) ==
  /\ up
  /\ stored' = [stored EXCEPT ![c] = contacts[c]]
  /\ UNCHANGED <<serveVars, contacts, disk, threadVars, clientVars, c2s, s2c, received,
                 approved, sealed>>

\* The user edits or deletes a file that is being shared.
EditFile(f) ==
  /\ \E version \in Versions[f] \ {disk[f]} : disk' = [disk EXCEPT ![f] = version]
  /\ UNCHANGED <<serveVars, contacts, stored, threadVars, clientVars, c2s, s2c, received,
                 approved, sealed>>

ClientStep(s) ==
  \/ RecvHandshakeResp(s) \/ RecvReply(s) \/ RecvTransferStart(s)
  \/ RecvChunk(s) \/ RecvTransferDone(s) \/ ClientIOFails(s)

HandlerStep(s) ==
  \/ TlsDone(s) \/ Dispatch(s) \/ RecvFileRequest(s) \/ OpenFile(s)
  \/ SendChunk(s) \/ SendDone(s) \/ HandlerIOFails(s)

Next ==
  \/ \E s \in Session :
       \/ RequestFile(s) \/ ClientStep(s) \/ ClientDies(s)
       \/ HandlerStep(s) \/ TlsFails(s) \/ Consent(s)
  \/ StartServe \/ StopServe
  \/ \E c \in Client : ChangeContact(c)
  \/ \E c \in Client \ Unsettled : SaveContact(c)
  \/ \E f \in FileId : EditFile(f)

Spec == Init /\ [][Next]_vars

\* Both sockets have a timeout once the TLS handshake is done, during it a handler
\* sees a client that closes, and the operating system runs every thread; nothing
\* makes the user answer a prompt, start a server or ask for a file.
Fairness ==
  \A s \in Session :
    /\ WF_vars(ClientStep(s)) /\ WF_vars(HandlerStep(s))
    /\ WF_vars(TlsFails(s) /\ cpc[s] # "dead")

FairSpec == Spec /\ Fairness

----------------------------------------------------------------------------
(* Properties.                                                             *)

HandlerStates == {"none", "tls", "await_init", "await_request", "consent", "approved",
                  "sending", "done"}

\* Type invariant: what the fields of the serve process, of the handler
\* threads and of the commands can hold.
TypeOK ==
  /\ up \in BOOLEAN /\ ident \in ServerKey /\ boots \in 0..MaxBoots
  /\ index \subseteq FileId
  /\ contacts \in [Client -> Record] /\ stored \in [Client \ Unsettled -> Record]
  /\ disk \in [FileId -> Content \union {None}]
  /\ spc \in [Session -> HandlerStates]
  /\ DOMAIN srv = Session
  /\ \A s \in Session :
       /\ DOMAIN srv[s] = DOMAIN NoSrv
       /\ srv[s].me \in ServerKey \union {None}
       /\ srv[s].file \in FileId \union {None}
       /\ srv[s].data \in Content \union {None}
       /\ srv[s].idx \in Nat
       /\ spc[s] = "sending" => srv[s].data \in Content
  /\ cpc \in [Session -> {"idle", "dead"} \union Awaiting \union Outcomes]
  /\ req \in [Session -> [file : FileId \union {None}, peer : ServerKey \union {None},
                          knows : SUBSET ServerKey]]
  /\ DOMAIN cli = Session
  /\ \A s \in Session : DOMAIN cli[s] = DOMAIN NoCli /\ cli[s].got \in Nat
  /\ DOMAIN c2s = Session /\ DOMAIN s2c = Session
  /\ \A s \in Session : c2s[s] \in Seq(Range(c2s[s])) /\ s2c[s] \in Seq(Range(s2c[s]))
  /\ received \in [Client -> [FileId -> Content \union {None}]]
  /\ approved \subseteq Session

\* A file in a received store is byte for byte what its owner published under
\* that id, though the owner edits the file meanwhile, connections break at any
\* frame, `serve` restarts, and other transfers run (Client._recv_transfer).
SavedIsPublished ==
  \A c \in Client, f \in FileId : received[c][f] \in {None, Shared[f]}

\* Nothing of a file leaves the server on a connection whose own prompt was not
\* answered "y" - another session's approval does not count
\* (Server._handle_file_session, Server._send_file).
DataOnlyAfterConsent ==
  \A s \in Session :
    (\/ \E i \in DOMAIN s2c[s] : s2c[s][i].type \in {"TRANSFER_START", "CHUNK"}
     \/ cli[s].start # None)
    => s \in approved

\* When the initiator accepts the responder, both ends hold the same two keys
\* and nonce bases, each sending with what the other receives with, and no two
\* connections have a key in common (handshake.py, SessionKeys.derive).
KeyAgreement ==
  /\ \A s \in Session :
       cli[s].keys # None =>
         /\ cli[s].keys.rx_key = srv[s].keys.tx_key
         /\ cli[s].keys.tx_key = srv[s].keys.rx_key
         /\ cli[s].keys.rx_nonce = srv[s].keys.tx_nonce
         /\ cli[s].keys.tx_nonce = srv[s].keys.rx_nonce
  /\ \A s, t \in Session :
       s # t /\ srv[s].keys # None /\ srv[t].keys # None =>
         {srv[s].keys.tx_key, srv[s].keys.rx_key}
           \intersect {srv[t].keys.tx_key, srv[t].keys.rx_key} = {}

\* AES-GCM is never run twice with one key and nonce, over all chunks of all
\* transfers (chunk_nonce, encrypt_chunk, Server._send_file).
NonceNeverReused ==
  \A u, v \in sealed : u.key = v.key /\ u.nonce = v.nonce => u = v

\* A request that ends with a [SECURITY] alarm, or breaks off once chunks are
\* due, has a cause the user can be told: the bytes read differ from those
\* shared, the peer at that address has another identity than expected, or the
\* file's owner is not a contact.  Chunking, framing order and the key schedule
\* never raise one by themselves (Client._do_request, Client._recv_transfer).
AlarmHasCause ==
  \A s \in Session :
    cpc[s] = "security" \/ (cpc[s] = "error" /\ cli[s].start # None) =>
      \/ srv[s].me # req[s].peer
      \/ FileOwner[req[s].file] \notin req[s].knows
      \/ cli[s].start # None /\ srv[s].data # Shared[req[s].file]

\* Once `serve` has revoked a contact's key, no connection it has accepted but
\* not yet admitted ever sends that contact a file, whichever handler thread
\* runs first; and once the revocation is saved as well, no later connection
\* does, though `serve` is killed and started again
\* (Server._dispatch, Server._handle_key_rotate, ContactStore._save).
RevokedStaysOut ==
  \A s \in {r \in Session : ClientOf[r] \notin Unsettled} :
    [](contacts[ClientOf[s]] = "revoked"
       /\ (spc[s] = "none" => stored[ClientOf[s]] = "revoked")
       /\ spc[s] \in {"none", "tls", "await_init"}
       => [](spc[s] # "sending"))

\* Every request-file command that waits for the peer ends, with the file or
\* with an error, though the peer may never answer its prompt or may die.
RequestTerminates ==
  \A s \in Session : cpc[s] \in Awaiting ~> cpc[s] \in Outcomes \union {"dead"}

\* A handler thread never stays for good in anything but the consent prompt, which
\* has no timeout, and the TLS handshake with a client that has vanished, which has
\* none either (Server._handle_connection, _default_consent).
HandlerReleased ==
  \A s \in Session :
    spc[s] # "none" ~> spc[s] \in {"consent", "done"} \/ (spc[s] = "tls" /\ cpc[s] = "dead")

\* Refinement: request-file over the wire is the atomic download of Download.
Status(s) == IF cpc[s] \in {"idle", "saved"} THEN cpc[s]
             ELSE IF cpc[s] \in Awaiting THEN "pending" ELSE "failed"

Abstract == INSTANCE Download WITH
  Request <- Session, Requester <- Client, RequesterOf <- ClientOf,
  Published <- Shared,
  status <- [s \in Session |-> Status(s)],
  wanted <- [s \in Session |-> req[s].file],
  store <- received

\* The commands, threads and connections together implement that promise.
ImplementsDownload == Abstract!Spec
============================================================================
