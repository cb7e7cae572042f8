------------------------------- MODULE Vault -------------------------------
(***************************************************************************)
(* The data directory of one user, file by file: what every command opens  *)
(* and creates when it starts (App.load_stores), and what serve and the    *)
(* commands write to it afterwards.  Nothing is locked and nothing is      *)
(* written atomically: a file is emptied when it is opened and filled when *)
(* it is written, most stores consist of two files, and a process may die  *)
(* or be overtaken by another one at any of these steps.                   *)
(***************************************************************************)
EXTENDS Integers, Sequences, FiniteSets

CONSTANTS
  Process,    \* slots for `serve` and commands over this directory
  Password,
  MaxRuns,    \* bound: commands run
  MaxDraws,   \* bound: saves, each with random values of its own
  None, Empty, Mixed  \* a file not there; emptied; a mixture of two writes

ASSUME VaultAssumption ==
  /\ MaxRuns \in Nat /\ MaxDraws \in Nat
  /\ None # Empty /\ None # Mixed /\ None \notin Password

Key == "identity.key"
KeyMeta == "identity.key.meta"
Salt == "storage.salt"
Contacts == "contacts.json.enc"
ContactsMeta == "contacts.json.meta"
Index == "share_index.json"
Received == "files/id.enc"
ReceivedMeta == "files/id.meta"

\* The files of each store.
Store == [identity |-> {Key, KeyMeta}, salt |-> {Salt}, contacts |-> {Contacts, ContactsMeta},
          index |-> {Index}, received |-> {Received, ReceivedMeta}]
File == UNION {Store[x] : x \in DOMAIN Store}
StoreOf(f) == CHOOSE x \in DOMAIN Store : f \in Store[x]

VARIABLES
  files,      \* the directory
  pc, proc,   \* each process: control state; password, file key, writes to do
  draws,      \* random values so far: salts, nonces, identities
  runs,
  hurt        \* history: stores a save of which was cut short or overlapped another

vars == <<files, pc, proc, draws, runs, hurt>>

\* "todo": the writes to come; "opened": the first of them has emptied its file.
NoProc == [pw |-> None, fkey |-> None, todo |-> <<>>, opened |-> FALSE]

Init ==
  /\ files = [f \in File |-> None]
  /\ pc = [p \in Process |-> "idle"] /\ proc = [p \in Process |-> NoProc]
  /\ draws = 0 /\ runs = 0 /\ hurt = {}

There(f) == files[f] # None
Whole(f) == files[f] \notin {None, Empty, Mixed}

----------------------------------------------------------------------------
(* argon2id_derive and AES-GCM as terms: a ciphertext opens with the key   *)
(* and the nonce it was made with, and shows what was put in.              *)

Derive(pw, salt) == <<pw, salt>>
Sealed(key, nonce, body) == [key |-> key, nonce |-> nonce, body |-> body]
Opens(ct, key, nonce) == ct.key = key /\ ct.nonce = nonce

Cipher == [key : Password \X Nat, nonce : Nat, body : Nat]
Meta == [nonce : Nat, of : Nat]

\* What a save writes is neither nothing nor a mixture.
ASSUME WrittenAssumption ==
  \A state \in {None, Empty, Mixed} : state \notin Nat \union Cipher \union Meta

----------------------------------------------------------------------------
(* Writing files.                                                          *)

Saving(p, x) == proc[p].todo # <<>> /\ StoreOf(proc[p].todo[1][1]) = x

\* p is about to make these writes to the store x, and then goes on at `then`.
Begins(p, x, writes, then) ==
  /\ draws < MaxDraws /\ draws' = draws + 1
  /\ pc' = [pc EXCEPT ![p] = then]
  /\ hurt' = IF \E q \in Process \ {p} : Saving(q, x) THEN hurt \union {x} ELSE hurt
  /\ UNCHANGED <<files, runs>>

\* open(path, "w"): the file is there, and empty.
Open(p) ==
  /\ proc[p].todo # <<>> /\ ~proc[p].opened
  /\ files' = [files EXCEPT ![proc[p].todo[1][1]] = Empty]
  /\ proc' = [proc EXCEPT ![p].opened = TRUE]
  /\ UNCHANGED <<pc, draws, runs, hurt>>

\* The files whose length depends on what is in them.
Growing == {Contacts, Index, Received, ReceivedMeta}

\* The write itself.  When another process has filled the file since, and with
\* something longer, the rest of that remains.
Fill(p) ==
  /\ proc[p].opened
  /\ LET f == proc[p].todo[1][1] IN
       \/ files' = [files EXCEPT ![f] = proc[p].todo[1][2]]
       \/ f \in Growing /\ files[f] # Empty /\ files' = [files EXCEPT ![f] = Mixed]
  /\ proc' = [proc EXCEPT ![p].todo = Tail(@), ![p].opened = FALSE]
  /\ UNCHANGED <<pc, draws, runs, hurt>>

At(p, where) == pc[p] = where /\ proc[p].todo = <<>>

----------------------------------------------------------------------------
(* App.load_stores.  Each load reads its files at once: one that comes      *)
(* between two writes of another process fails, which End allows as well.  *)

Fails(p) ==
  /\ pc' = [pc EXCEPT ![p] = "idle"] /\ proc' = [proc EXCEPT ![p] = NoProc]
  /\ UNCHANGED <<files, draws, runs, hurt>>

GoesOn(p, to) ==
  /\ pc' = [pc EXCEPT ![p] = to]
  /\ UNCHANGED <<files, draws, runs, hurt>>

Start(p) ==
  /\ pc[p] = "idle" /\ runs < MaxRuns
  /\ runs' = runs + 1
  /\ \E pw \in Password : proc' = [proc EXCEPT ![p].pw = pw]
  /\ pc' = [pc EXCEPT ![p] = "unlock"]
  /\ UNCHANGED <<files, draws, hurt>>

\* Identity.save.
IdentityWrites(pw, n) ==
  << <<Key, Sealed(Derive(pw, n), n, n)>>, <<KeyMeta, n>> >>

\* Identity.load: the key from the password and the salt in identity.key.meta.
Unlocks(pw) ==
  /\ Whole(KeyMeta) /\ Whole(Key)
  /\ files[Key].key = Derive(pw, files[KeyMeta])

\* Mutant: the file key is not derived when an identity is there already.
AfterUnlockSkip == "load"

\* What follows Identity.load.
AfterUnlock == "salt"

\* load_or_create_identity.
Unlock(p) ==
  /\ At(p, "unlock")
  /\ \/ /\ There(Key) /\ Unlocks(proc[p].pw)
        /\ GoesOn(p, AfterUnlock) /\ UNCHANGED proc
     \/ There(Key) /\ ~Unlocks(proc[p].pw) /\ Fails(p)
     \/ /\ ~There(Key)
        /\ proc' = [proc EXCEPT ![p].todo = IdentityWrites(proc[p].pw, draws + 1)]
        /\ Begins(p, "identity", proc'[p].todo, "salt")

\* Mutant: every start makes a salt.
NeverThere == FALSE

\* os.path.exists(salt_path).
SaltThere == There(Salt)

\* _derive_file_key.  argon2id_derive refuses an empty salt.
DeriveFileKey(p) ==
  /\ At(p, "salt")
  /\ \/ /\ SaltThere /\ Whole(Salt)
        /\ proc' = [proc EXCEPT ![p].fkey = Derive(proc[p].pw, files[Salt])]
        /\ GoesOn(p, "load")
     \/ SaltThere /\ ~Whole(Salt) /\ Fails(p)
     \/ /\ ~SaltThere
        /\ proc' = [proc EXCEPT ![p].fkey = Derive(proc[p].pw, draws + 1),
                                ![p].todo = << <<Salt, draws + 1>> >>]
        /\ Begins(p, "salt", proc'[p].todo, "load")

\* ContactStore._load: no contacts.json.enc is no error.
ContactsLoad(key) ==
  There(Contacts) =>
    Whole(ContactsMeta) /\ Whole(Contacts) /\ Opens(files[Contacts], key, files[ContactsMeta])

\* ShareIndex._load: what is empty or mixed is no JSON.
IndexLoads == There(Index) => Whole(Index)

LoadStores(p) ==
  /\ At(p, "load")
  /\ \/ /\ ContactsLoad(proc[p].fkey) /\ IndexLoads
        /\ GoesOn(p, "work") /\ UNCHANGED proc
     \/ ~(ContactsLoad(proc[p].fkey) /\ IndexLoads) /\ Fails(p)

----------------------------------------------------------------------------
(* What a process does then.                                               *)

\* Mutant: a nonce that is not drawn anew.
FixedNonce(n) == 0

\* os.urandom(12).
Nonce(n) == n

\* ContactStore._save, after whatever change of the table.
SaveContacts(p) ==
  /\ At(p, "work")
  /\ LET n == draws + 1 IN
       proc' = [proc EXCEPT ![p].todo = << <<Contacts, Sealed(proc[p].fkey, Nonce(n), n)>>,
                                           <<ContactsMeta, Nonce(n)>> >>]
  /\ Begins(p, "contacts", proc'[p].todo, "work")

\* share and unshare: ShareIndex._save.
SaveIndex(p) ==
  /\ At(p, "work")
  /\ proc' = [proc EXCEPT ![p].todo = << <<Index, draws + 1>> >>]
  /\ Begins(p, "index", proc'[p].todo, "work")

\* request-file: ReceivedFileStore.save.  "of" is what the metadata describe.
SaveReceived(p) ==
  /\ At(p, "work")
  /\ LET n == draws + 1 IN
       proc' = [proc EXCEPT ![p].todo = << <<Received, Sealed(proc[p].fkey, Nonce(n), n)>>,
                                           <<ReceivedMeta, [nonce |-> Nonce(n), of |-> n]>> >>]
  /\ Begins(p, "received", proc'[p].todo, "work")

\* rotate-key: a new identity under a password of the user's choice.
Rotate(p) ==
  /\ At(p, "work")
  /\ \E pw \in Password :
       proc' = [proc EXCEPT ![p].todo = IdentityWrites(pw, draws + 1)]
  /\ Begins(p, "identity", proc'[p].todo, "work")

\* The process ends, by itself or killed at any point.
End(p) ==
  /\ pc[p] # "idle"
  /\ hurt' = hurt \union {x \in DOMAIN Store : Saving(p, x)}
  /\ pc' = [pc EXCEPT ![p] = "idle"] /\ proc' = [proc EXCEPT ![p] = NoProc]
  /\ UNCHANGED <<files, draws, runs>>

Step(p) ==
  \/ Open(p) \/ Fill(p)
  \/ Start(p) \/ Unlock(p) \/ DeriveFileKey(p) \/ LoadStores(p)
  \/ SaveContacts(p) \/ SaveIndex(p) \/ SaveReceived(p) \/ Rotate(p) \/ End(p)

Next == \E p \in Process : Step(p)

Spec == Init /\ [][Next]_vars

----------------------------------------------------------------------------
(* Properties.                                                             *)

\* What a save writes to the file f.
Content(f) ==
  CASE f \in {Key, Contacts, Received} -> Cipher
    [] f = ReceivedMeta -> Meta
    [] OTHER -> Nat

\* Type invariant: in particular, a process at work has a key for its files.
TypeOK ==
  /\ DOMAIN files = File
  /\ \A f \in File : files[f] \in {None, Empty, Mixed} \union Content(f)
  /\ pc \in [Process -> {"idle", "unlock", "salt", "load", "work"}]
  /\ DOMAIN proc = Process
  /\ \A p \in Process :
       /\ DOMAIN proc[p] = DOMAIN NoProc /\ proc[p].opened \in BOOLEAN
       /\ proc[p].pw \in IF pc[p] = "idle" THEN {None} ELSE Password
       /\ pc[p] \in {"load", "work"} => proc[p].fkey \in Password \X Nat
       /\ \A i \in DOMAIN proc[p].todo :
            proc[p].todo[i][1] \in File /\ proc[p].todo[i][2] \in Content(proc[p].todo[i][1])
  /\ draws \in Nat /\ runs \in Nat /\ hurt \subseteq DOMAIN Store

\* What the user opens the directory with: the password of the identity.
CurrentKey == Derive(files[Key].key[1], files[Salt])

\* The store x is there whole, in the sense of the code that reads it.
Intact(x) ==
  CASE x = "identity" -> (There(Key) => Whole(Key) /\ \E pw \in Password : Unlocks(pw))
    [] x = "salt"     -> (There(Salt) => Whole(Salt))
    [] x = "index"    -> IndexLoads
    [] x = "contacts" -> ContactsLoad(CurrentKey)
    [] x = "received" ->
         (There(Received) =>
            /\ Whole(ReceivedMeta) /\ Whole(Received)
            /\ Opens(files[Received], CurrentKey, files[ReceivedMeta].nonce))

\* Whether a store can be opened depends on these.
Needs(x) == IF x \in {"contacts", "received"} THEN {x, "salt", "identity"} ELSE {x}

\* Damage is confined: a store that cannot be opened had a save cut short or
\* overlapped by another, or the salt or the identity it is locked with had.
\* Everything else a process does, starting, sharing, rotating the key, being
\* killed between two saves, leaves every store as readable as it was
\* (App.load_stores, Identity.save, ContactStore._save, ShareIndex._save,
\* ReceivedFileStore.save).
DamageConfined ==
  \A x \in DOMAIN Store :
    (\A p \in Process, y \in Needs(x) : ~Saving(p, y)) =>
      Needs(x) \intersect hurt # {} \/ Intact(x)

\* Whatever processes, crashes and passwords come together, a received file that
\* opens is the one its metadata describe, never one half of each of two
\* downloads (ReceivedFileStore.save and load).
ReceivedMatchesMeta ==
  /\ Whole(Received) /\ Whole(ReceivedMeta)
  /\ files[Received].nonce = files[ReceivedMeta].nonce
  => files[Received].body = files[ReceivedMeta].of
=============================================================================
