---------------------------- MODULE ContactStore ----------------------------
(***************************************************************************)
(* One user's contacts: the table each process holds in memory and the two *)
(* files contacts.json.enc and contacts.json.meta they all write.  `serve` *)
(* changes its table from many handler threads without a lock              *)
(* (CONTACT_REQUEST, KEY_ROTATE_NOTICE); add-contact and verify-contact    *)
(* are processes of their own that load the table, wait for a peer or for  *)
(* the user, and write the whole table back.  Any process may die at any   *)
(* step.  Addresses and aliases are left out.                              *)
(***************************************************************************)
EXTENDS Integers, FiniteSets

CONSTANTS
  Thread,      \* handler threads of `serve`
  Command,     \* runs of add-contact or verify-contact
  Fp,          \* fingerprints of peers' keys
  Successor,   \* the key each rotated key is replaced by
  Old,         \* keys that are contacts from before
  MaxMessages, \* bound: messages served in all
  MaxBoots,    \* bound: how often `serve` starts
  None

ASSUME StoreAssumption ==
  /\ DOMAIN Successor \subseteq Fp /\ Successor \in [DOMAIN Successor -> Fp]
  /\ Old \subseteq Fp
  /\ MaxMessages \in Nat /\ MaxBoots \in Nat
  /\ "serve" \notin Command /\ Thread \intersect Command = {}

\* The key that replaces another is a new one (Identity.generate).
ASSUME NewKeyAssumption == \A f \in DOMAIN Successor : Successor[f] # f

ASSUME NoneAssumption == None \notin Nat

VARIABLES
  mem,        \* the table of each process, None when it is not running
  pc, job,    \* threads and commands: control state, what they are doing
  enc, meta,  \* the two files: the nonce is 0 as long as nothing is saved, and None
              \* when what is in the file is no ciphertext or no nonce; the table is
              \* what was last written, which nobody reads unless the store opens
  uses,       \* encryptions so far: each takes a nonce of its own
  messages, boots,
  noticed,    \* keys whose KEY_ROTATE_NOTICE has come
  overtaken,  \* history: keys whose own notice came before their predecessor's
  confirmed,  \* history: fingerprints the user has confirmed
  acked,      \* history: what a CONTACT_ACCEPT has told its peer
  told,       \* history: fingerprints reported "marked as verified"
  serial      \* whether handlers and commands come one at a time, for good

files == <<enc, meta, uses>>
world == <<messages, boots, noticed>>
history == <<confirmed, acked, told, overtaken>>
vars == <<mem, pc, job, files, world, history, serial>>

Actor == Thread \union Command
Process == {"serve"} \union Command

\* A table maps each fingerprint it has to its Contact record.
Entry == [verified : BOOLEAN, revoked : BOOLEAN, successor : Fp \union {None}]
Table == UNION {[D -> Entry] : D \in SUBSET Fp}
NoContacts == [f \in {} |-> None]

ASSUME NoneIsNoTable == None \notin Table

Fresh == [verified |-> FALSE, revoked |-> FALSE, successor |-> None]

Put(table, f, entry) ==
  [g \in DOMAIN table \union {f} |-> IF g = f THEN entry ELSE table[g]]

NoJob == [fp |-> None, then |-> "idle", begun |-> NoContacts, snap |-> NoContacts,
          nonce |-> 0]

Init ==
  /\ mem = [p \in Process |-> None]
  /\ pc = [x \in Actor |-> "idle"]
  /\ job = [x \in Actor |-> NoJob]
  /\ enc = [nonce |-> 0, table |-> [f \in Old |-> Fresh]] /\ meta = 0 /\ uses = 0
  /\ messages = 0 /\ boots = 0 /\ noticed = {}
  /\ confirmed = {} /\ acked = {} /\ told = {} /\ overtaken = {}
  /\ serial \in BOOLEAN

Running(p) == mem[p] # None

\* The table an actor works on: its process's.
Home(x) == IF x \in Command THEN x ELSE "serve"

\* x goes to pc, about contact f; "then" is what follows its next _save.
Goto(x, to, f, then) ==
  /\ pc' = [pc EXCEPT ![x] = to]
  /\ job' = [job EXCEPT ![x].fp = f, ![x].then = then]

----------------------------------------------------------------------------
(* ContactStore._load.  AES-GCM opens contacts.json.enc with the nonce in  *)
(* contacts.json.meta only if the two were written by one _save.           *)

Readable == enc.nonce # None /\ enc.nonce = meta

\* Mutant: a store that does not open is taken for an empty one.
LoadedOrEmpty(p) ==
  mem' = [mem EXCEPT ![p] = IF Readable THEN enc.table ELSE NoContacts]

Loaded(p) == Readable /\ mem' = [mem EXCEPT ![p] = enc.table]

----------------------------------------------------------------------------
(* The handler threads.                                                    *)

Receives(t) == Running("serve") /\ pc[t] = "idle" /\ messages < MaxMessages

\* Mutant: a revoked contact is taken for an unknown one.
KnownUnrevoked(table, f) == f \in DOMAIN table /\ ~table[f].revoked

\* contacts.get(fp) is not None.
Known(table, f) == f \in DOMAIN table

\* _handle_contact_request up to its first write; a known peer gets its address
\* updated and saved.  One with a bad signature is answered with an ERROR and
\* changes nothing.
ContactRequest(t) ==
  /\ Receives(t)
  /\ messages' = messages + 1
  /\ \E f \in Fp :
       Goto(t, IF Known(mem["serve"], f) THEN "save" ELSE "insert", f, "reply")
  /\ UNCHANGED <<mem, files, boots, noticed, history>>

\* contacts.add: by a thread or an add-contact that found no record of f.
Insert(x) ==
  /\ pc[x] = "insert"
  /\ mem' = [mem EXCEPT ![Home(x)] = Put(@, job[x].fp, Fresh)]
  /\ pc' = [pc EXCEPT ![x] = "save"]
  /\ UNCHANGED <<job, files, world, history>>

\* _handle_key_rotate up to the first save: mark_revoked.  A key is rotated once,
\* and its notice sent once; it may come after the one its successor is rotated
\* with.
KeyRotate(t) ==
  /\ Receives(t)
  /\ messages' = messages + 1
  /\ \E f \in DOMAIN Successor \ noticed :
       /\ noticed' = noticed \union {f}
       /\ overtaken' = overtaken \union ({Successor[f]} \intersect noticed)
       /\ \/ UNCHANGED <<mem, pc, job>>
          \/ /\ Known(mem["serve"], f)
             /\ mem' = [mem EXCEPT !["serve"][f].revoked = TRUE,
                                   !["serve"][f].successor = Successor[f]]
             /\ Goto(t, "save", f, "successor")
  /\ UNCHANGED <<files, boots, confirmed, acked, told>>

\* Mutant: the new key inherits what the user confirmed of the old one.
InheritVerified(old) == [Fresh EXCEPT !.verified = old.verified]

\* The Contact made for the new key: address and alias of the old one.
SuccessorOf(old) == Fresh

\* The rest of _handle_key_rotate: add the new key, over any record of it.
AddSuccessor(t) ==
  /\ pc[t] = "successor"
  /\ LET f == job[t].fp IN
       mem' = [mem EXCEPT !["serve"] = Put(@, Successor[f], SuccessorOf(@[f]))]
  /\ pc' = [pc EXCEPT ![t] = "save"]
  /\ job' = [job EXCEPT ![t].then = "accept"]
  /\ UNCHANGED <<files, world, history>>

\* The CONTACT_ACCEPT that ends either handler.
Reply(t) ==
  /\ pc[t] \in {"reply", "accept"}
  /\ LET f == job[t].fp IN
       acked' = acked \union
         IF pc[t] = "reply" THEN {<<"known", f>>}
         ELSE {<<"known", Successor[f]>>, <<"revoked", f>>}
  /\ pc' = [pc EXCEPT ![t] = "idle"]
  /\ job' = [job EXCEPT ![t] = NoJob]
  /\ UNCHANGED <<mem, files, world, confirmed, told, overtaken>>

----------------------------------------------------------------------------
(* ContactStore._save.                                                     *)

\* The table is copied record by record.  When another thread has added a
\* record meanwhile, the iteration raises RuntimeError and the handler ends;
\* a record changed meanwhile is copied as it was or as it is.
SaveBegins(x) ==
  /\ pc[x] = "save"
  /\ pc' = [pc EXCEPT ![x] = "copy"]
  /\ job' = [job EXCEPT ![x].begun = mem[Home(x)]]
  /\ UNCHANGED <<mem, files, world, history>>

Copy(x) ==
  /\ pc[x] = "copy"
  /\ LET now == mem[Home(x)]
         begun == job[x].begun
     IN  \/ /\ DOMAIN now # DOMAIN begun
            /\ pc' = [pc EXCEPT ![x] = "idle"]
            /\ job' = [job EXCEPT ![x] = NoJob]
         \/ /\ DOMAIN now = DOMAIN begun
            /\ \E fresh \in SUBSET DOMAIN now :
                 job' = [job EXCEPT ![x].begun = NoContacts,
                                    ![x].snap =
                           [f \in DOMAIN now |-> IF f \in fresh THEN now[f] ELSE begun[f]]]
            /\ pc' = [pc EXCEPT ![x] = "open_enc"]
  /\ UNCHANGED <<mem, files, world, history>>

\* open(..., "wb") empties contacts.json.enc,
OpenEnc(x) ==
  /\ pc[x] = "open_enc"
  /\ enc' = [enc EXCEPT !.nonce = None]
  /\ pc' = [pc EXCEPT ![x] = "write_enc"]
  /\ UNCHANGED <<mem, job, meta, uses, world, history>>

\* and the ciphertext is written; over one that another process has written since
\* then, the end of that one may stay behind it.
WriteEnc(x) ==
  /\ pc[x] = "write_enc"
  /\ uses' = uses + 1
  /\ \E nonce \in {uses + 1} \union ({None} \ {enc.nonce}) :
       enc' = [nonce |-> nonce, table |-> job[x].snap]
  /\ job' = [job EXCEPT ![x].snap = NoContacts, ![x].nonce = uses + 1]
  /\ pc' = [pc EXCEPT ![x] = "open_meta"]
  /\ UNCHANGED <<mem, meta, world, history>>

\* contacts.json.meta likewise; what is written to it is always of one length.
OpenMeta(x) ==
  /\ pc[x] = "open_meta"
  /\ meta' = None
  /\ pc' = [pc EXCEPT ![x] = "write_meta"]
  /\ UNCHANGED <<mem, job, enc, uses, world, history>>

\* Mutant: the nonce is the one that the store was created with.
MetaOnce(nonce) == 1

MetaFor(nonce) == nonce

WriteMeta(x) ==
  /\ pc[x] = "write_meta"
  /\ meta' = MetaFor(job[x].nonce)
  /\ pc' = [pc EXCEPT ![x] = job[x].then]
  /\ job' = [job EXCEPT ![x].nonce = 0]
  /\ UNCHANGED <<mem, enc, uses, world, history>>

----------------------------------------------------------------------------
(* add-contact and verify-contact.                                         *)

AddContact(c) ==
  /\ pc[c] = "idle" /\ Loaded(c)
  /\ \E f \in Fp : Goto(c, "exchange", f, "added")
  /\ UNCHANGED <<files, world, history>>

VerifyContact(c) ==
  /\ pc[c] = "idle" /\ Loaded(c)
  /\ \E f \in Fp : Known(enc.table, f) /\ Goto(c, "prompt", f, "told")
  /\ UNCHANGED <<files, world, history>>

\* A command ends, and its process with it.
Quit(c) ==
  /\ pc' = [pc EXCEPT ![c] = "done"]
  /\ job' = [job EXCEPT ![c] = NoJob]
  /\ mem' = [mem EXCEPT ![c] = None]

\* The store is unreadable, or has no such contact.
GiveUp(c) ==
  /\ pc[c] = "idle"
  /\ ~Readable \/ \E f \in Fp : ~Known(enc.table, f)
  /\ pc' = [pc EXCEPT ![c] = "done"]
  /\ UNCHANGED <<mem, job, files, world, history>>

\* add-contact has the peer's CONTACT_ACCEPT: update_address or add.
Exchanged(c) ==
  /\ pc[c] = "exchange"
  /\ pc' = [pc EXCEPT ![c] = IF Known(mem[c], job[c].fp) THEN "save" ELSE "insert"]
  /\ UNCHANGED <<mem, job, files, world, history>>

\* verify-contact: the user answers "y"; mark_verified.
Confirm(c) ==
  /\ pc[c] = "prompt"
  /\ confirmed' = confirmed \union {job[c].fp}
  /\ mem' = [mem EXCEPT ![c][job[c].fp].verified = TRUE]
  /\ pc' = [pc EXCEPT ![c] = "save"]
  /\ UNCHANGED <<job, files, world, acked, told, overtaken>>

\* "Contact added ...", "[OK] ... marked as verified."
Tell(c) ==
  /\ pc[c] \in {"added", "told"}
  /\ told' = told \union IF pc[c] = "told" THEN {job[c].fp} ELSE {}
  /\ Quit(c)
  /\ UNCHANGED <<files, world, confirmed, acked, overtaken>>

\* Cancelled by the user, refused by the peer, or killed, between any two steps.
Abort(c) ==
  /\ pc[c] \notin {"idle", "done"}
  /\ Quit(c)
  /\ UNCHANGED <<files, world, history>>

----------------------------------------------------------------------------
(* `serve` starts and stops.                                               *)

StartServe ==
  /\ ~Running("serve") /\ boots < MaxBoots
  /\ boots' = boots + 1
  /\ Loaded("serve")
  /\ UNCHANGED <<pc, job, files, messages, noticed, history>>

\* Mutant: handler threads that outlive the server.
Outlive == pc

\* Daemon threads end with the process.
Killed == [x \in Actor |-> IF x \in Thread THEN "idle" ELSE pc[x]]

StopServe ==
  /\ Running("serve")
  /\ mem' = [mem EXCEPT !["serve"] = None]
  /\ pc' = Killed
  /\ job' = [x \in Actor |-> IF x \in Thread THEN NoJob ELSE job[x]]
  /\ UNCHANGED <<files, world, history>>

Handler(t) == ContactRequest(t) \/ KeyRotate(t) \/ AddSuccessor(t) \/ Reply(t)
Start(c) == AddContact(c) \/ VerifyContact(c) \/ GiveUp(c)
Cli(c) == Start(c) \/ Exchanged(c) \/ Confirm(c) \/ Tell(c) \/ Abort(c)
Save(x) ==
  SaveBegins(x) \/ Copy(x) \/ OpenEnc(x) \/ WriteEnc(x) \/ OpenMeta(x) \/ WriteMeta(x)

Busy(x) == pc[x] \notin {"idle", "done"}

\* Commands run only while `serve` is stopped, and its connections do not overlap.
OneAtATime ==
  /\ \A x, y \in Actor : Busy(x) /\ Busy(y) => x = y
  /\ \A c \in Command : Busy(c) => ~Running("serve")

Step ==
  \/ \E t \in Thread : Handler(t)
  \/ \E c \in Command : Cli(c)
  \/ \E x \in Actor : Insert(x) \/ Save(x)
  \/ StartServe \/ StopServe

\* Nothing in the program keeps them from overlapping; some users may.
Next == Step /\ (serial => OneAtATime') /\ serial' = serial

Spec == Init /\ [][Next]_vars

----------------------------------------------------------------------------
(* Properties.                                                             *)

ThreadStates == {"idle", "insert", "save", "copy", "open_enc", "write_enc", "open_meta",
                 "write_meta", "successor", "reply", "accept"}
CommandStates == {"idle", "exchange", "prompt", "insert", "save", "copy", "open_enc",
                  "write_enc", "open_meta", "write_meta", "added", "told", "done"}

\* Type invariant: tables are tables, and a thread works only while `serve` runs.
TypeOK ==
  /\ mem \in [Process -> Table \union {None}]
  /\ pc \in [Actor -> ThreadStates \union CommandStates]
  /\ \A t \in Thread : pc[t] \in ThreadStates /\ (pc[t] # "idle" => Running("serve"))
  /\ \A c \in Command : pc[c] \in CommandStates
  /\ job \in [Actor -> [fp : Fp \union {None}, then : ThreadStates \union CommandStates,
                        begun : Table, snap : Table, nonce : Nat]]
  /\ enc \in [nonce : Nat \union {None}, table : Table] /\ meta \in Nat \union {None}
  /\ uses \in Nat
  /\ messages \in 0..MaxMessages /\ boots \in 0..MaxBoots
  /\ noticed \subseteq DOMAIN Successor /\ overtaken \subseteq Fp
  /\ confirmed \subseteq Fp /\ told \subseteq Fp
  /\ acked \subseteq {"known", "revoked"} \X Fp
  /\ serial \in BOOLEAN

\* No record says "verified", in memory or on disk, of a key the user has not
\* confirmed: whichever threads, commands and crashes come together, a peer is
\* never verified by rotating its key or by asking again
\* (Server._handle_key_rotate, Server._handle_contact_request, Client.add_contact).
VerifiedOnlyByUser ==
  /\ \A p \in Process : Running(p) =>
       \A f \in DOMAIN mem[p] : mem[p][f].verified => f \in confirmed
  /\ \A f \in DOMAIN enc.table : enc.table[f].verified => f \in confirmed

Holds(table, fact) ==
  /\ fact[2] \in DOMAIN table
  /\ fact[1] = "revoked" => table[fact[2]].revoked

\* What a CONTACT_ACCEPT has told a peer stays so, in memory and on disk as long
\* as the store opens, through later messages, crashes and restarts: the key it
\* added is known, the key it revoked is revoked - unless that key was announced
\* as a successor only after its own notice, which puts a record without the
\* revocation over it.  This is for handlers and commands that come one at a time
\* (Server._handle_key_rotate, ContactStore.add, ContactStore._save).
AckedSurvives ==
  serial => \A fact \in acked \ ({"revoked"} \X overtaken) :
              /\ Running("serve") => Holds(mem["serve"], fact)
              /\ Readable => Holds(enc.table, fact)

\* Whenever `serve` runs and nobody is saving, the next process can load the
\* store: contacts.json.meta is the nonce of contacts.json.enc (_save, _load).
StoreReadable ==
  Running("serve") /\ (\A x \in Actor : ~Busy(x)) => Readable

\* The same for handlers and commands that come one at a time, wherever they are
\* killed: a `serve` that could load the store leaves it so, until it is killed
\* inside a save itself.
ReadableWhenSerial == serial => StoreReadable

\* A contact reported "marked as verified" is verified on disk from then on
\* (cmd_verify_contact, ContactStore.mark_verified).
VerificationLasts ==
  Readable => \A f \in told : f \in DOMAIN enc.table /\ enc.table[f].verified

\* For handlers and commands that come one at a time, whoever can load the store
\* finds it verified until its key is announced as another's successor: the mark
\* survives every other message, command and restart, the rotation of its own key
\* too, and a kill leaves it or, inside a save, a store that nobody can load
\* (ContactStore.mark_verified, _save, _load, Server._handle_key_rotate).
VerifiedUntilReplaced ==
  serial /\ Readable =>
    \A f \in told : \/ f \in DOMAIN enc.table /\ enc.table[f].verified
                    \/ \E g \in noticed : Successor[g] = f

RecordOf(table, f) ==
  IF f \notin DOMAIN table THEN "unknown" ELSE IF table[f].revoked THEN "revoked" ELSE "active"

Standing == INSTANCE Standing WITH
  Peer <- Fp,
  view <- [f \in Fp |-> IF Running("serve") THEN RecordOf(mem["serve"], f) ELSE "off"],
  kept <- [f \in Fp |-> RecordOf(enc.table, f)],
  late <- overtaken

\* And each key's record goes the way Standing says: unknown, active, revoked by
\* its own notice only, and back while `serve` runs only by a predecessor's notice
\* that comes later still, and at a restart only as far as the last table written
\* (ContactStore.add, mark_revoked, _save, _load, Server._handle_key_rotate).
ImplementsStanding == Standing!Init /\ [][serial => Standing!Next]_vars
=============================================================================
