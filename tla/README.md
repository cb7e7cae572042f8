# p2pshare: specifications, model checking and proofs

p2pshare is a peer-to-peer file-sharing program: eleven Python modules, one
server process (`serve`) with a thread per connection, and one-shot commands
that talk to other users' servers. This directory holds TLA+ specifications of
its stateful parts, TLC configurations that check them on small instances, and
TLAPS proofs that the main safety properties hold for every instance.

## 1. The system

Every user runs at most one `serve` and, beside it, any number of commands
(`request-file`, `add-contact`, `rotate-key`, ...). Both use the directory
`~/.p2pshare`. There is no lock anywhere in the program: threads share the
objects `serve` loaded at its start, processes share the files.

| Component (source) | State | Operations | Talks to |
|---|---|---|---|
| request-file command (`client.py`) | socket, session keys, the TRANSFER_START it trusts, chunks by index | `request_file`, `_do_request`, `_recv_transfer` | a peer's `serve`, own contacts, received store |
| server (`server.py`) | contacts and share index as loaded, one thread per connection with its own locals | `_dispatch`, `_handle_file_session`, `_send_file`, `_handle_contact_request`, `_handle_key_rotate`, `_handle_list_files` | clients, the user's prompt, files on disk |
| handshake (`handshake.py`) | ephemeral keys, nonces, transcript | initiator and responder halves | the two above |
| crypto (`crypto_utils.py`) | identity key, storage key | sign/verify, `SessionKeys.derive`, `chunk_nonce`, `encrypt_chunk`, `Identity.save`/`load` | identity.key, identity.key.meta, storage.salt |
| frames and envelopes (`protocol.py`) | none | `send_frame`, `recv_frame`, `build_envelope`, `verify_envelope` | the TLS stream |
| contact store (`storage.py`) | a table in memory; contacts.json.enc and .meta | `_load`, `_save`, `add`, `mark_verified`, `mark_revoked`, `update_address` | threads of `serve`, add-contact, verify-contact, rotate-key |
| received-file store (`storage.py`) | files/&lt;id&gt;.enc and .meta | `save`, `load` | request-file |
| share index (`storage.py`) | table in memory; share_index.json | `add`, `remove`, `get`, `public_list` | share, unshare, `serve` |
| identity and start-up (`p2pshare.py`, `crypto_utils.py`) | identity.key and .meta, storage.salt | `load_or_create_identity`, `_derive_file_key`, `load_stores` | every command |
| key rotation (`p2pshare.py`, `client.py`) | old and new identity | `cmd_rotate_key`, `notify_key_rotation` | every contact's `serve` |
| file lists and proxies (`client.py`) | file_list_cache/ | `list_files`, `_proxy_download` | other peers |
| life of `serve` (`p2pshare.py`, `server.py`, `tls_utils.py`) | listening socket, temporary PEM files | `cmd_serve`, `Server.start`, `Server.stop` | ssl, discovery |
| discovery (`discovery.py`) | one mDNS record per `serve`; the list a scan builds | `MDNSAdvertiser.start`/`stop`, `discover_peers` | zeroconf |
| command line (`p2pshare.py`) | none | parsing, printing | all of it |

What is hard about it, and what makes each part correct:

* **File session.** Two programs, a prompt without a timeout, files that are
  read from disk long after they were signed, contacts that other threads
  change, servers that die or come back with another key. Correct when a
  download has either the owner's bytes or no effect, when nothing is sent
  without this connection's own consent, when both ends derive matching keys
  that no other connection has, when no nonce is used twice, when a revoked
  contact stays out, when alarms have a cause, and when nobody waits for ever.
* **Contact store.** A table that several threads change while others copy and
  write it, two files that only make sense together and are emptied before they
  are filled, notices that overtake each other, and other processes that write
  back what they loaded long before. Correct when only the user's own answer
  verifies a contact, when what was acknowledged is kept as long as the store
  opens, when the store can be read, and when a verification lasts.
* **Key rotation.** One identity replaced on one machine and announced to many,
  some of them offline. Correct when a contact that was told has exactly one
  active key for the peer and a contact that was not can still be told.
* **Data directory.** Eight files, written one after the other by several
  processes, without locks and without renaming a finished file into place, under
  keys from a password and a salt that is itself one of the files. Correct when
  whatever a crash or an overlap damages stays the only thing damaged, and when
  two halves that open belong together.
* **Frames.** Correct when arbitrary fragmentation gives a FIFO of frames and the
  limits of both ends agree.
* **File lists and proxies.** A search over contacts that fail in every way, driven
  by lists that other commands empty and rewrite, at addresses that others may have
  taken over. Correct when giving up means that everyone was asked whose list had
  the file, and when the search ends.
* **Life of `serve` and discovery.** A socket, a record on the network and a
  private key in a temporary file that have to come and go in the right order.
  Correct when whoever is advertised can be reached, when an orderly end leaves
  nothing behind that could be removed, and when a scan finds whoever was there
  all the time.

## 2. Modules

| Module | Models |
|---|---|
| `SessionCrypto` | signatures, envelopes, key derivation and AES-GCM as terms |
| `Chunking` | cutting a file into chunks and joining them |
| `FileSession` | request-file against the handler threads of `serve` |
| `Download` | abstract: what request-file promises its user |
| `Standing` | abstract: how the record of a contact may change, in memory and on disk, while handlers and commands come one at a time |
| `ContactStore` | the contact table, its files and everyone who writes them |
| `KeyRotation` | rotate-key against the contacts' `serve`, with add-contact |
| `Vault` | the data directory write by write: start-up, saves, crashes, passwords |
| `FrameStream` | send_frame and recv_frame over a stream of bytes |
| `FrameQueue` | abstract: what the two promise together |
| `Serving` | `serve` from start to end, its mDNS record, and discover |
| `Relay` | share, unshare, list-files, its cache, and the search for a proxy |
| `MC...` | small instances for TLC: of FileSession, ContactStore, KeyRotation, Vault, FrameStream, Serving, Relay |
| `..._proofs` | TLAPS proofs about the same seven; `Transfer_proofs` continues `FileSession_proofs` with the transfer as a whole |

`FileSession` extends `SessionCrypto` and `Chunking`, and instantiates
`Download` under a refinement mapping. `ContactStore` looks at one user's contact
table and takes a save apart; `KeyRotation` looks at the tables of all users and
takes a save as one step.

FileSession needs of each contact only whether it is unknown, active or revoked:
`contacts` in the memory of `serve`, `stored` on disk. Where these records come
from is the business of ContactStore. `Standing` is its abstract specification: a
record goes from unknown to active to revoked in memory, reaches the disk when it
is saved, and comes back from there at the next start; it goes back to active only
by a notice that names the key as the new one and comes after the key's own
(`Notice`, `late`, `Renew`). ContactStore implements it as long as handlers and
commands come one at a time (ImplementsStanding). The contacts of FileSession
change by the same steps (ChangeContact, SaveContact, StartServe). They are its
environment, so that there is nothing to check about them there; that a record goes
back to active, by a late notice or by the lost updates of ContactStore when handlers
or commands overlap, it has for the clients in the parameter `Unsettled` alone.

The other four take up what these three assume. `FrameStream` shows that the
connections FileSession has, queues of whole frames, are what the framing makes
of bytes. `Vault` has the saves, each one step in KeyRotation and Relay, write by
write together with all other files of the directory. `Relay` begins where
FileSession ends with the outcome "offline", and takes a whole transfer as one
step. `Serving` says when a `serve` that FileSession has as `up` can be found and
reached.

### FileSession and the code

A session is one run of request-file with its connection and handler thread.

| Model | Code |
|---|---|
| `cpc`, `req`, `cli` | the point `request_file` has reached or its result; its arguments; `keys`, TRANSFER_START payload, `chunks` |
| `spc`, `srv` | the point the handler thread has reached; its identity, keys, `sf`, `data`, `idx` |
| `c2s`, `s2c` | frames sent and not yet received (TLS over TCP keeps their order) |
| `up`, `ident`, `index`, `contacts` | the running `serve`: its identity, share index, contacts |
| `stored` | the records of the settled clients in contacts.json.enc |
| `disk` | what is at `sf.path` when it is opened |
| `received` | the requester's ReceivedFileStore |
| `approved`, `sealed` | history: "y" answers, ciphertexts produced |
| `RequestFile`, `RecvHandshakeResp`, `RecvReply`, `RecvTransferStart`, `RecvChunk`, `RecvTransferDone` | `Client.request_file`, `perform_handshake_initiator`, `_do_request`, `_recv_transfer`, split where the command waits in `recv_frame` |
| `TlsDone`, `TlsFails` | `wrap_socket` in `Server._handle_connection`, before `settimeout` |
| `Dispatch`, `RecvFileRequest`, `Consent`, `OpenFile`, `SendChunk`, `SendDone` | `Server._dispatch`, `perform_handshake_responder`, `_handle_file_session`, `_send_file`, split at each receive, prompt or send |
| `ClientIOFails`, `HandlerIOFails` | `ConnectionError`, `OSError`, `socket.timeout` in either program |
| `ChangeContact`, `SaveContact` | a handler thread that has a CONTACT_REQUEST or KEY_ROTATE_NOTICE: the record in memory, then `_save` (`mark_revoked`, storage.py:129-131) |
| `ClientDies`, `StartServe`, `StopServe`, `EditFile` | machines, processes and users |

Step boundaries are the blocking calls, because nothing between two of them
reads state that another actor writes - except `contacts` and `disk`, each of
which a handler reads once in a step. A frame that reaches a client that is
gone is lost. StopServe loses any subset of what its connections still had in
flight.

A handler thread begins with the TLS handshake (`spc[s] = "tls"`), which
server.py:89 runs on a socket that has no timeout yet. It is through when the
client's part has come, with the HANDSHAKE_INIT behind it (TlsDone), or fails when
the client has closed the connection (TlsFails), as it does after the 10 s of
client.py:36 at the latest. A client whose machine went down closes nothing
(`cpc[s] = "dead"`): its handler stays where it is until the operating system gives
the connection up, if it does.

Sessions are honest: both ends run this program. A peer can still have another
identity than expected, an owner the requester does not know, or a file that
differs from what was signed.

### ContactStore and the code

`mem[p]` is the table of process p, `enc` and `meta` the two files. Each
encryption takes a fresh nonce, so a nonce is the number of the encryption and
`_load` succeeds exactly when `enc.nonce = meta`. `_save` takes six steps
(SaveBegins, Copy, OpenEnc, WriteEnc, OpenMeta, WriteMeta), since threads share
the table it iterates over and processes share the files it writes. In Copy, a
table that grew since the iteration began raises RuntimeError; a record changed
meanwhile is copied in either form. `open` empties each file before it is filled,
and what is in it then opens under no nonce (None); so may two ciphertexts of
different lengths that two processes wrote into one file. A crash from OpenEnc to
WriteMeta therefore leaves a store that nobody can load, and `enc.table` is what
was last written, whether it can be read or not. Handler threads run
ContactRequest, Insert, KeyRotate, AddSuccessor and Reply; commands AddContact,
VerifyContact, Exchanged, Confirm, Tell, GiveUp and Abort. StopServe may come
between any two steps and takes all threads along.

`noticed` says that a key is rotated once and its notice sent once. Notices of two
rotations in a row may come in either order, also when they are handled one at a
time: nothing in server.py:282-310 looks at the order, and the later one of two that
came the wrong way round puts a record without the revocation over that of the
middle key. `overtaken` is the history of these keys. `Old` are contacts from before
the first step. Addresses, aliases and lookups by prefix are left
out, as no property here depends on them; they belong to KeyRotation.

`serial` is chosen in Init and never changes. Where it is FALSE, threads and
commands overlap as they like, which is what the code permits. Where it is TRUE,
every step ends with OneAtATime: at most one handler or command is at work, and
commands only while `serve` is stopped. It
is the condition of four properties (AckedSurvives, ReadableWhenSerial,
VerifiedUntilReplaced, ImplementsStanding), and shows what the store achieves before
threads and processes get in each other's way; crashes come at every step in both
cases.

### KeyRotation and the code

| Model | Code |
|---|---|
| `key[p]`, `disk[p]` | identity.key and the saved contacts of peer p, in the order of the dictionary |
| `serve[p]` | what the running `serve` of p loaded at its start and has changed since, or None |
| `cmd[p]` | the command of p: where it is, the identity and table it loaded, the contact its loop has reached |
| `conns` | a connection each: the request on its way, a handler between its two saves, or the answer on its way |
| `AddContact`, `ReceiveAccept` | `Client.add_contact` up to its send, and from its receive |
| `HandleContactRequest` | `Server._dispatch`, `_handle_contact_request` |
| `RotateKey`, `SaveIdentity`, `Notify`, `ReceiveReply`, `FinishRotation` | `cmd_rotate_key` and the rounds of `Client.notify_key_rotation`, split at prompts and receives |
| `HandleNotice`, `AddSuccessor` | `Server._handle_key_rotate` up to its first save, and the rest |
| `ConnectionFails`, `Kill`, `StartServe`, `StopServe` | timeouts and errors, processes, users |

Identities are numbered in the order a peer makes them, which is what
fingerprints are compared for. A peer's `serve` comes back at the same port, so
that an address is either that port or 0: add-contact announces 0 unless it is
given --listen-port (client.py:61). A connection that is on its way to a `serve`
that stops is lost, and so is an answer for which the command no longer waits;
the handler works on in either case. One command runs per peer at a time; two at
once only differ in lost updates, which ContactStore has.

### Vault and the code

| Model | Code |
|---|---|
| `files` | the files of `~/.p2pshare`, each absent, emptied, filled, or a mixture of two writes; `Store` groups them |
| `proc[p].pw`, `.fkey` | the password typed, and `App._file_key` |
| `proc[p].todo`, `.opened` | the writes of a save still to come, and whether the first file has been emptied by `open(path, "w")` |
| `draws` | salts, nonces and keys from os.urandom: each save has a number of its own |
| `hurt` | history: stores a save of which was cut short by `End`, or begun while another process was in one |
| `Start`, `Unlock`, `DeriveFileKey`, `LoadStores` | `App.load_stores`, split where files are written |
| `SaveContacts`, `SaveIndex`, `SaveReceived`, `Rotate` | the four saves; then `Open` and `Fill` for each file |
| `End` | the command ends or is killed, before, between or inside its writes |

A load of a store is one step. One that comes between two writes of another
process finds a half and fails, and a process that ends early is what `End` gives
at any time. Where a file is filled by two processes that both opened it, the
longer write leaves a tail behind the shorter one (`Mixed`); the files whose
contents have one length (identity.key, storage.salt, and in effect the two small
JSON files of a key and a nonce) cannot mix. Keys are terms: a ciphertext opens
exactly under the password, salt and nonce it was made with.

### FrameStream and the code

`line` is every byte given to sendall, `written` how far sendall has got, `taken`
how far recv has. `want` and `have` are the `n` and `len(buf)` of `_recv_exact`;
its buffer is the last `have` bytes taken. A recv returns any non-empty piece of
what is written and asked for. `SendTooLarge` is the ValueError of send_frame;
`Close` the end of the sender at any byte; `RecvFails` the ConnectionError or
socket.timeout of the receiver. Pack and Unpack are struct's `!I`, in arithmetic.
The refinement mapping takes the frames sent and not yet returned for the queue,
and empties it when recv_frame has raised.

### Serving and the code

| Model | Code |
|---|---|
| `pc[p]`, `run[p]` | where cmd_serve of p is; which start of `serve` this is |
| `temp[p]` | the PEM files in the temporary directory, with the run that made them |
| `listening[p]`, `record[p]` | the port of `Server._sock`; what the network has under the peer's service name |
| `scan` | `discover_peers`: additions on_change has not been called for, `found`, and (history) who was there all the time (`steady`) and which of them could not be resolved or parsed (`missed`) |
| `cut` | history, for each run: it ended before its `try` ("unstarted") or was killed later ("killed"), its record could not be withdrawn ("record"), its files not be removed ("cert", "key") |
| `Start`, `WritePem`, `Bind`, `Register` | `make_server_ssl_context`, `Server.start`, `MDNSAdvertiser.start` |
| `Interrupt`, `Unregister`, `CloseSocket`, `Unlink` | Ctrl+C, and the `finally` of cmd_serve; each `os.unlink` may fail (server.py:76-77) |
| `BindFails`, `Kill`, `Expire` | a taken port, a killed process, the time to live of a record |
| `BeginScan`, `OnChange`, `EndScan` | `discover_peers` and its callback |

zeroconf is external. What is taken from its use here: a browser is told of the
names there are and then of names that are new, from a thread of its own, and
get_service_info gives the record as it is when it is asked for, or None when no
answer comes in its three seconds. OnChange then passes the record over for the rest
of the scan (discovery.py:90, 98-99), whether its peer is there or not.

### Relay and the code

| Model | Code |
|---|---|
| `identity`, `shared`, `serve` | each peer's identity.key and share_index.json, and what its running `serve` loaded of them, with its address |
| `owner` | the `original_owner` an id was signed under |
| `book`, `cache` | the user's contacts and file_list_cache/ |
| `answer`, `cmd[c]` | the list-files between receive and write, with whether the cache file is open; a request-file with the contacts it loaded and its place in them |
| `ListFiles`, `OpenCache`, `WriteCache`, `LoseAnswer` | `Client.list_files` and `_write_cache`, which empties the file and then fills it; a failure or a kill may come in between |
| `RequestFile`, `AskOwner` | `Client.request_file`; the second way out of AskOwner is the ConnectionError or OSError on which it turns to proxies |
| `Candidate`, `Search`, `NotFound` | the loop of `_proxy_download`: each failure goes on to the next contact |
| `AddContact`, `Rotate` | add-contact, and a rotation whose notice the user's `serve` gets or does not (KeyRotation) |

Whoever listens at a contact's address answers list-files, the contact itself or a
`serve` that has taken the address over: the answer is kept under the contact's key
(client.py:100, 118). A missing cache file and one that is no JSON are the same to
a search as an empty list (client.py:346-350). Two list-files of one contact may have
the file open at once; what a shorter list leaves behind of a longer one is no JSON.
`tried`, `listed` and `torn` are histories: who was asked, whose cached list has had
the file ever since the search began, but for moments when it was being rewritten,
and whose was being rewritten when the search read it.

## 3. Runs

All instances set CHECK_DEADLOCK FALSE: commands and connections end, a server may stay
stopped, and the bounded model then has nothing left to do.

| Run | Instance | Question |
|---|---|---|
| `one` | one connection, fair; 2 identities, 2 starts of `serve`, any edits | Is the download atomic seen from outside (ImplementsDownload)? Do alarms have a cause (AlarmHasCause)? Does a revoked contact stay out, also after a restart (RevokedStaysOut)? Does every request end (RequestTerminates), and every handler end, wait at its prompt or for a client that vanished in the TLS handshake (HandlerReleased)? Types (130,000 states) |
| `pair` | two connections of one peer, three files of lengths 3, 0 and 2, chunks of 2 (1.4 million states) | Does consent stay with its connection (DataOnlyAfterConsent)? Do keys and nonces stay apart (KeyAgreement, NonceNeverReused)? Does the store both write hold only published bytes (SavedIsPublished)? Do files of all lengths pass without an alarm (AlarmHasCause)? |
| `contacts` | two threads and a command, two contacts, two rotations in a row in either order, 2 messages, 2 starts, `serial` or not (4.9 million states) | Can anything but the user verify a contact (VerifiedOnlyByUser)? If `serial`, and as far as the store opens: does what was acknowledged survive but for overtaken keys (AckedSurvives), and what was reported as verified (VerifiedUntilReplaced)? Is the store readable when nobody saves (ReadableWhenSerial)? Does a record change as Standing says (ImplementsStanding)? Types |
| `contacts_race` | two threads | finding, see section 6 |
| `contacts_stale` | one thread, one command | finding, see section 6 |
| `rotation` | two peers, fair; each rotates once, runs 2 commands; 1 and 2 starts of `serve` (350,000 states) | Are only replaced keys revoked (RevocationFollowsRotation)? Does a revocation last (RevokedForGood)? Does rotate-key end (RotationEnds)? Types |
| `rotation_lookup` | the same, one rotates | finding, see section 6 |
| `vault` | two processes, one password, 4 commands, 6 saves (3 million states) | Does damage stay confined to what was cut short or overlapped (DamageConfined)? Do the halves of a received file belong together (ReceivedMatchesMeta)? Types |
| `vault_password` | one process, two passwords | finding, see section 6 |
| `frames` | MAX_FRAME 3, frames of 1, 2, 3 and 4 bytes, 3 sends, fair | Is it a queue of whole frames (ImplementsQueue)? Does each frame that was let pass arrive (FrameArrives)? Types |
| `serving` | two peers, two ports, 3 starts (5.2 million states) | Can who is advertised be reached (AdvertisedIsListening)? Does an orderly end leave only files that could not be removed (OrderlyEndTidies)? Does a scan find who stayed, but for records it could not resolve (SteadyIsFound)? Types |
| `relay` | two peers, one rotates, two addresses, one file, two list-files and a request-file, fair (680,000 states) | Has a search that gives up asked everyone whose list had the file, but for a list that was being rewritten as it was read (SearchIsComplete)? Does it end (RequestEnds)? Types |

**Bounds and why they are enough.** A file of three bytes in chunks of two has
a full and a partial chunk, so that reordering, early ends and a change of
size that changes the number of chunks all occur; `pair` adds the empty file and
the exact multiple. The edits keep the length with other
bytes, shorten the file to one chunk, delete it and restore it. Two identities
are "the expected one" and "another one"; MaxBoots = 2 is one restart, with or
without rotation, in the middle of everything. Two connections are enough for
interference: a session reads no state of more than one other. The runs with
two connections use one start and one key, because the restarts concern a
connection alone and are in `one`; the proofs do not have the bounds.
For the contact store, two rotations give a key that is both successor and
revoked, and their notices in the wrong order a late one; the two keys that are
rotated are contacts from the start (`Old`), so that two messages are enough for
that as well as to keep two threads busy, which is what it takes to mix two saves.
The command is the second process, and a third reader of the files. Two starts are a
`serve` killed inside or outside a save, and one that loads what it or the command
left, or cannot. For key rotation, two peers
that both rotate are rotator and contact of each other; two commands let each
add the other and then rotate, or rotate and then ask with what its `serve`
loaded before; the second start of `serve` is a restart between any two of these
steps. A third peer would be one more round of a loop whose rounds share nothing
but the table. In `vault` a directory is set up, damaged, and opened by two
commands more; six draws are identity, salt and four saves. Two processes are
what an overlap takes; further ones add overlaps of the same two-step writes. In
`frames`, MAX_FRAME = 3 makes frames shorter than, as long as and longer than the
limit, each shorter or longer than the four bytes of a header; with three sends
the bytes of one piece cannot cross more than one border that matters, since recv
never asks for more than the frame it is in. In `serving`, three starts give a
restart of one peer on another port beside one start of the other. In `relay`,
two starts let a peer come back with another key or address, or start where the other
one was, and three contacts are both keys of one peer and the other peer. Two
list-files at once (MaxLists) may have the same cache file open, or be between an
old list and a new one. Symmetry exchanges both connections
(`pair`), both threads (`contacts`), both processes (`vault`) or both peers
(`serving`), and is used with safety properties only.

**Fairness.** `FairSpec` assumes weak fairness of the steps of the command and
of the handler thread of each session. Both programs set a 120 s socket timeout
once the TLS handshake is done (`client.py:39`, `server.py:90`), so that a blocked
receive is always followed by a frame or by an exception, and the operating system
runs every thread. In the TLS handshake the handler has no timeout: TlsFails is fair
only while the client's machine is up, whose operating system then closes the
connection. Nothing is assumed of users: Consent, RequestFile, EditFile, StartServe,
StopServe and ClientDies have no fairness. This is why HandlerReleased allows a
handler to stay in `consent` - `_default_consent` calls `input()`, which has no
timeout - and, with a client that has vanished, in `tls`, while
RequestTerminates needs no such exception. In KeyRotation,
`FairSpec` assumes weak fairness of the command alone, for the same reason: each
round of notify_key_rotation connects and receives under the timeout of
client.py:39. Nothing is assumed of the contacts' handlers, which may never
answer, nor of users: SaveIdentity waits for an answer at a prompt and Kill may
never happen. In FrameStream, `FairSpec` assumes weak fairness of Write and of
Recv: the operating system carries bytes that were handed to sendall, and a
blocked recv has a timeout; nothing is assumed of the sender, which may close at
any byte. In Relay it assumes weak fairness of each request-file's own steps, by
the timeouts of client.py:36 and 38; peers, users and list-files have none.

## 4. Properties

Stated in full, with the code they are about, next to their definitions.

* `FileSession`: TypeOK, SavedIsPublished, DataOnlyAfterConsent, KeyAgreement,
  NonceNeverReused, AlarmHasCause (invariants); RevokedStaysOut (safety over
  time: no file transfer starts on a connection that had not been admitted
  when its peer was revoked, nor on a later one if the revocation was saved);
  RequestTerminates, HandlerReleased (liveness); ImplementsDownload
  (refinement).
* `ContactStore`: TypeOK, VerifiedOnlyByUser; AckedSurvives, ReadableWhenSerial,
  VerifiedUntilReplaced and ImplementsStanding (refinement), for handlers and
  commands that come one at a time; StoreReadable without that condition and
  VerificationLasts, which do not hold.
* `KeyRotation`: TypeOK, RevocationFollowsRotation, RevokedForGood,
  RotationEnds; LookupFindsActive, which does not hold.
* `Vault`: TypeOK, ReceivedMatchesMeta; DamageConfined, which holds while the
  password stays the same and fails when rotate-key changes it.
* `FrameStream`: TypeOK, ImplementsQueue (refinement), FrameArrives (liveness).
* `Serving`: TypeOK, AdvertisedIsListening, OrderlyEndTidies, SteadyIsFound.
* `Relay`: TypeOK, SearchIsComplete, RequestEnds (liveness).

SavedIsPublished speaks of the whole store, while ImplementsDownload says which
request changes it, to what, and that every other outcome leaves it alone.
AlarmHasCause is their counterpart: it excludes the implementation that rejects
everything. AckedSurvives does not hold when handlers overlap (two saves can lose
each other's records), which is its condition, nor for a store that a kill inside
a save left unreadable, nor for the revocation of an `overtaken` key: what it says
is that nothing else takes an acknowledged fact away. ReadableWhenSerial is the
counterpart of the finding `contacts_race`: the same property under the condition
that makes it true. VerifiedUntilReplaced is that of `contacts_stale`, for whoever
can load the store, with one exception that remains: a peer may add the user with
its new key, and be verified, before its KEY_ROTATE_NOTICE is handled; `add` then
puts a fresh record over the verified one (server.py:310). RevokedStaysOut has its
condition on `stored` because mark_revoked changes the record in memory before it
saves (storage.py:129-131): a `serve` killed in between comes back with the
contact active, and a connection made after that is admitted. DamageConfined
states for the whole directory what the code achieves without atomic writes: it
allows the loss of exactly the store whose own save was cut short, and of what is
locked with a damaged identity or salt. It would fail if a start rewrote a file
that is there, or a save of one store touched another. SearchIsComplete speaks of
the lists a search could have seen at any moment (`listed`), because others
rewrite them while it runs, and excepts a list that was empty or half-written at
the moment it was read (`torn`): client.py:346-350 takes that for no list, and
passes the contact over. It would fail if a refusal, a failure or an alarm of one
proxy kept the search from the next. OrderlyEndTidies has its exceptions for each
file: that the record could not be withdrawn, or the certificate not be removed,
does not excuse a private key that is left. SteadyIsFound has them for each
record. RevokedForGood holds as long as each peer rotates once. With two rotations
in a row the two notices run in two handler threads of a contact: if the second is
handled first, the first one then adds the middle key again with `revoked` False,
though it is replaced already (server.py:303-310); section 5 shows that this is
the only way.

Every property of a passing run comes with a mutant - an operator of the same
module with a plausible bug, such as `Server._handle_file_session` without the
`return` after a denial - under which the run must fail.

## 5. Proofs

For every number of sessions, clients, identities, restarts and messages, and
for contents of any length and every chunk size:

| Theorem | Statement |
|---|---|
| `TypeCorrect` | `Spec => []TypeOK` (FileSession) |
| `StoreIntegrity` | `Spec => []SavedIsPublished` |
| `ConsentRespected` | `Spec => []DataOnlyAfterConsent` |
| `KeysAgree` | `Spec => []KeyAgreement` |
| `NoNonceReuse` | `Spec => []NonceNeverReused` |
| `Refines` | `Spec => ImplementsDownload` |
| `RevocationHolds` | `Spec => RevokedStaysOut` |
| `JoinUndoesChunk` | the chunks of a file, joined by index, are the file (Transfer_proofs) |
| `AlarmsHaveCause` | `Spec => []AlarmHasCause` (Transfer_proofs) |
| `StoreTypeCorrect` | `Spec => []TypeOK` (ContactStore) |
| `OnlyUserVerifies` | `Spec => []VerifiedOnlyByUser` |
| `PromisesSurvive` | `Spec => []AckedSurvives`: if handlers and commands come one at a time, in any order |
| `SerialStoreReadable` | `Spec => []ReadableWhenSerial`: under the same condition |
| `VerifiedLasts` | `Spec => []VerifiedUntilReplaced`: under the same condition |
| `StandingImplemented` | `Spec => ImplementsStanding`: under the same condition |
| `TypeCorrect` | `Spec => []TypeOK` (KeyRotation): in particular, one record per key |
| `OnlyOldKeysRevoked` | `Spec => []RevocationFollowsRotation` |
| `OnlyOvertakenNoticesUnrevoke` | `Spec => RevokedUnlessOvertaken`: any number of rotations |
| `RevokedKeysStay` | `Spec => RevokedForGood`, if `MaxKey[p] <= 2` for every peer |
| `TypeCorrect`, `ReceivedHalvesMatch` | `Spec => []TypeOK`, `Spec => []ReceivedMatchesMeta` (Vault) |
| `DamageStaysConfined` | `Spec => []DamageConfined`, if there is one password |
| `OnlyThePasswordIsLost` | `Spec => []ReadableUnderSome`: any passwords |
| `TypeCorrect`, `FramesAreAQueue` | `Spec => []TypeOK`, `Spec => ImplementsQueue` (FrameStream) |
| `TypeCorrect`, `AdvertisedCanBeReached`, `PemFilesAreTidied`, `SteadyPeersAreFound` | `Spec => []` of TypeOK, AdvertisedIsListening, OrderlyEndTidies, SteadyIsFound (Serving) |
| `TypeCorrect`, `SearchesAreComplete` | `Spec => []TypeOK`, `Spec => []SearchIsComplete` (Relay) |

**Assumptions.** SessionAssumption, ChunkSizeAssumption and
AnnouncementAssumption, StoreAssumption, NewKeyAssumption and NoneIsNoTable,
RotationAssumption and NoneIsNoServe, VaultAssumption and WrittenAssumption,
FrameAssumption, ServingAssumption, RelayAssumption: the constants have the types
the code gives them, and sentinels are not values (None is no announcement, what
a save writes is not one of the states None, Empty and Mixed). NewKeyAssumption says that a
rotation makes a key other than the one it replaces: `Identity.generate` draws a
new one (p2pshare.py:354). FrameAssumption bounds
MAX_FRAME by 2^31-1, which is five hundred times what it is. TLC evaluates them
in every run. Two theorems have a hypothesis of their own, one password and one
rotation of each peer; without it their properties fail, and a second theorem
beside each says what is true then. The symbolic reading of cryptography is in the definitions
of SessionCrypto, not in an assumption: two terms are equal exactly when
everything that went into them is.

**FileSession.** The properties are not inductive: that a saved file is the
published one depends on the START the client trusts being the one its own
handler sent, which depends on what is in flight. The invariant `Inv` is a
conjunction over sessions, so that a step of one session only has to be shown
to leave the others `Untouched`:

* `Typed`: the fields of the session have their types;
* `Begun`: a command that has not started has no thread and no frames, and a
  thread belongs to a command that has;
* `Custody`: every TRANSFER_START in flight or accepted announces the file and
  the hash the index has for it, and a request names a known file;
* `Consented`: a thread past its prompt, and each frame of a file, belongs to an
  approved session;
* `Keyed`: the keys at both ends are derived from this session's own ephemeral
  keys and nonces, and a HANDSHAKE_RESP in flight carries them.

There is one lemma for each action, or each family of actions that end or go on
in the same way (CommandEnds, CommandGoesOn, HandlerEndsInv, HandlerGoesOn).
KeysAgree then needs only that ephemeral keys of different sessions differ.
NoNonceReuse adds `SealedOnce`: each ciphertext so far is chunk i of the data of
some session, for an i below the index that session has reached - the index
only grows, and session keys never change once set (SessionFixed). Refines maps
each action to Ask, Save, Fail or a stutter of Download, using Custody to see
that what is saved is what was asked for. RevocationHolds needs of each action what
it can do to one client's record (RecordSteps), and `RevocationInv`:
a saved revocation is in memory as well, and a handler thread lives only while
`serve` does. A revocation in memory then lasts as long as `serve` runs and a
saved one for good (StaysRevoked), so that a connection on which the client is not
yet admitted is `ShutOut` until its thread ends.

**The transfer.** That no alarm comes from the protocol itself needs the whole
order of frames. `InStep` numbers them - response, answer, START, each chunk,
DONE - and says that what is in flight are exactly the next ones the command will
meet, each with the contents its number calls for, and that while the handler
lives none is missing between the two ends. `Collected` says that the command has
chunk 0 up to the last it took, of the file the handler read; `Explained` is the
property for one session. A frame out of order, a chunk that does not open or a
hash that differs then has one of the three causes. The last step is
JoinUndoesChunk. It is an induction over the chunks, done without the library's
induction theorems by taking the least number at which the two sides differ
(`Least`, from WFMin) and deriving a contradiction; FlattenIs does the same for
FlattenSeq of the community modules, which is defined by a recursive function.

**ContactStore.** A table is `Backed` when each verified record is of a
fingerprint in `confirmed`. `Inv` says that each table anywhere is a Backed
table: the processes' (MemOK), the file (FilesOK), and the copies a save in
progress works on (ActorsOK). The last is what makes VerifiedOnlyByUser
inductive: a stale copy may be written long after the table it came from has
changed. `confirmed` only grows, so a copy stays Backed.

For the other four theorems, `SerialInv` adds what is so while nothing overlaps
(SerialNext assumes OneAtATime before and after the step, which SerialStep has
from `serial`). A table does not change while it is
saved, so that the copy is the table (SaveOK) and the file holds the table of `serve`
when the reply goes out (PromiseOK). What was `Promised` - acknowledged, and not the
revocation of an overtaken key - holds in what was last written to the file, in
`serve` and in the command that may write its own table back (FactsKept); this is
where a command beside `serve` would break it. A record is only ever put over
another for a successor, and a key is not revoked before its notice has come
(NoticedFirst). If the successor's own notice came before, KeyRotate makes the
successor overtaken, and nothing is promised of its revocation any more; if not,
nobody was told that it is revoked, and no other handler can tell it while this
one is at work (PromiseOK). Without NewKeyAssumption a key could be its own
successor, and AddSuccessor would undo the revocation it follows. NoncesOK says that
a running `serve` has the store readable but from the opening of the first file to
the filling of the second, the states in `Torn`; what was there before is the same
again after its save. A kill leaves each part as it is.

VerifiedLasts and StandingImplemented rest on `StandingInv` besides, which follows single
records through every table that may still be written. In a table that is `Sane` only noticed
keys are revoked, and every contact that was reported as verified is so, but for
successors that a notice has announced. A command's table has `Grown` from the file it loaded:
more contacts, the same revocations. A thread about to add a successor
puts it over a revoked record only if that key was overtaken (SuccessorOK), which is
Renew of Standing. So what a save does to the record on disk is Save or AddContact of
Standing (RecordSteps, a lemma for each kind of action), and each notice is Notice
(NoticeStep).

**KeyRotation.** That a contact's table never runs ahead of the identity on the
rotating peer's disk depends on what the messages under way can make of it. `Inv`
therefore bounds keys everywhere: each table is `Sound` (one record per key, no
key above its peer's present one, no revoked one that is not below it) on disk
(DisksOK), in `serve` (ServesOK) and in commands (CmdsOK); an answer carries a
key its sender has or had, a contact request its sender's, and a notice a key
that is already replaced (ConnsOK). The last holds because a command in its loop
has an identity older than the one on disk, while one that still waits for its
user has exactly that one (CmdsOK): SaveIdentity is the step from the second to
the first. The lemmas on Met, Put and MarkRevoked show that each keeps a table
Sound; a lemma per action does the rest.

RevokedForGood does not hold for every number of rotations, and its proof shows
why. A record is put anew by contact requests, which touch no existing record,
and by AddSuccessor, which replaces the record of the key a notice introduces.
`Overtaken` names the one bad case: the record in question is revoked while the
notice that introduces its key is still being handled. OnlyOvertakenNoticesUnrevoke proves
that there is no other. With one rotation of each peer a revoked key is the
peer's first (FirstKeysOnly, with `KeysBounded` for commands and messages), which
no notice introduces, so that RevokedKeysStay follows.

**Vault.** That the halves of a received file match depends on which writes are
still to come: `IInv` says of each pending write, and of each file, that a
ciphertext in files/&lt;id&gt;.enc has as body the number of its nonce, and
metadata describe the number of theirs (`Good`). The nonce of a save is drawn by
it alone, so equal nonces mean one save. Overlaps and crashes need no case of
their own: they only take away writes or add Empty and Mixed.

DamageConfined says of each store not in `hurt` that it opens, which depends on
four files and on every process. `DamageInv` has four parts: what a process has
still to write is the rest of one save, of a shape its place allows (`Shaped`); a
store that is not hurt is absent, whole, or in the one save under way, which has
left exactly the empty or half-written file that its place says (`Sound`);
everything locked, and every key a process has derived, uses the salt of this
directory (`OneSalt`), because a salt is made only where there is none and a
second one made at once hurts it; and nothing is locked before there is an
identity (`Keyed`). A store is therefore either hurt, or whole under the salt. That its password
is the identity's needs that there is one password; ReadableUnderSome is what remains when
there are more, and makes the finding `vault_password` exact: rotate-key under
another password destroys no data, it leaves it under the old password.

**FrameStream.** `Layout` says that the frames sent lie on the line one behind
the other, each as its length and its bytes (FrameAt), and that the next one
begins where the last one ends. `Reading` says that what recv_frame has in hand
is a beginning of the header, or of the body, of the frame after those it has
returned. Then a completed header is the length of that frame (HeaderRead, with
UnpackPack: struct.unpack undoes struct.pack), and a completed body is that frame
(BodyRead), so that RecvBody is Receive of FrameQueue, RecvFails is Break,
SendFrame is Send, and all else stutters (Refines). It follows that a header
never announces more than MAX_FRAME: "too_large" is not reached between two peers
that run this program.

**Serving.** `Withdrawn` says where a run of `serve` can be advertised: not before
Register, and after Unregister only with the cause in `cut`; with it
AdvertisedIsListening and OrderlyEndTidies are inductive. `SteadyIsKnown` adds to
SteadyIsFound that what is steady is still advertised as it was, and found, passed
over or pending.

**Relay.** `Present` says that nobody serves or is known by a key its peer has not
saved, so that a notice adds a key that is new to the table. `Searched` says that a
search has dealt with all contacts before its place - each was revoked, the offline
one, asked, once without the file in its list, or torn when it was read - and that a
list that has had the file all along has it now or is being rewritten.

**Only model-checked.** RequestTerminates, HandlerReleased, RotationEnds,
FrameArrives and RequestEnds: liveness under fairness needs ENABLED, which the
prover cannot treat. Every other property of a passing run is a theorem. TLC
checked the invariants before they were proved: DamageInv on both instances of
Vault, KeysBounded on that of `rotation`, SerialInv and StandingInv on that of `contacts` with
`serial`, and one message and one start more.

## 6. Findings

* **Two saves at once make the contacts unreadable** (`contacts_race`).
  `ContactStore._save` writes contacts.json.enc and then contacts.json.meta
  (storage.py:93-95) without a lock, and each connection has a thread of its own.
  In the counterexample the handlers of two CONTACT_REQUESTs of one peer are in
  their saves at once; one writes contacts.json.enc after the other has, and the
  other its nonce after the one has written its own. The ciphertext then lies
  beside a nonce that is not its own, and no later process can load the contacts.
* **A verification is undone by a running `serve`** (`contacts_stale`).
  verify-contact loads, changes and writes the whole table. `serve` still has
  the table it loaded at its start, and writes it back with its next save:
  the contact reported as "marked as verified" (p2pshare.py:236) is unverified
  again.
* **After a rotation the address leads to the revoked key**
  (`rotation_lookup`). The successor is added behind the revoked record, at the
  same address; `_require_contact` (client.py:328) returns the first record
  there, and request-file refuses it as REVOKED whatever the user verifies.
* **A new password locks the stores** (`vault_password`). rotate-key asks for a
  "Password for new key" and saves the new identity under it (p2pshare.py:359-366).
  The contacts and received files stay encrypted with the key derived from the old
  password, and load_stores takes one password for both. With the old one
  Identity.load fails, with the new one ContactStore._load; both end every command.
  In the counterexample one process saves its contacts, rotates, and nobody is ever
  killed.

Met while modelling. The first two contradict what the source says of itself; they
have no runs of their own, because they can be read off the definitions: in Relay,
Share is the only action that puts a file into an index, and in Serving, BindFails
and an Interrupt outside "running" leave `temp` as it is.

* A received file is never offered to others. src/README.md:3 speaks of "offline
  relay", and server.py:234-235 has a comment on sending "a previously received file
  (encrypted in received store)"; but _send_file opens `sf.path` only, and only `share`
  puts files into the share index that list-files and FILE_REQUEST go by. A search for
  a proxy can therefore get the file from its owner under another contact, and from
  nobody else.
* A taken port, and Ctrl+C anywhere outside the `try` of cmd_serve, leave the PEM
  files, one of them the private key (p2pshare.py:126), although make_server_ssl_context
  says "caller should clean up temp files" (tls_utils.py:70). Serving has both, as runs
  that end "unstarted".

No document says otherwise of these:

* A client that vanishes during the TLS handshake keeps its handler thread for good:
  the timeout comes after wrap_socket (server.py:89-90).
* Notices of two rotations that come in the wrong order leave the middle key active
  (server.py:303-310), also when they are handled one at a time.
* A list-files answered by somebody who has taken over a contact's address is kept
  under that contact (client.py:100, 118).
* A list-files that is writing its cache makes a search pass that contact over
  (client.py:346-354).
* All handler threads and nobody in particular read one stdin (server.py:331): which
  question a line answers is up to the operating system. Each prompt has an answer of
  its own in FileSession.
* notify_key_rotation counts an ERROR reply as "[OK] Notified" (client.py:316).
  A `serve` that loaded its contacts before add-contact saved the peer beside it
  answers so; the old key stays active on that disk.
* Without --listen-port, add-contact announces port 0 (client.py:61), and that
  contact can never be notified.
* Two share commands at once each write back the index they loaded, and one
  file is lost (storage.py:152).
* list-files keeps its answer under the first contact at the address
  (client.py:100, 118): after a rotation, under the revoked one.
* An OSError of accept ends the accept loop, while `serve` stays advertised
  (server.py:84).

## 7. Not modelled, and the plan

* Argument parsing, list-contacts and printing, the fields of certificates and the
  options of ssl contexts: no state.
* Aliases, and lookup of a contact by a prefix of its fingerprint.
* The bits of `chunk_nonce`: that XOR with an index below 2^64 is injective is
  in SessionCrypto's reading of a nonce as base and index.
* Modes of files (os.chmod), and directories.
* Dishonest peers: every actor runs this program.

Worth doing next: `chunk_nonce` over bits on narrow words in TLC; a contact store
whose handlers overlap but never save at once, to find out how much of
AckedSurvives a lock around `_save` alone would give; KeyRotation composed with
the six-step save of ContactStore; the step lemmas of RequestTerminates that do
not need ENABLED (which steps bring a request nearer to its end).
