------------------------------- MODULE Relay -------------------------------
(***************************************************************************)
(* Finding a file: the share indexes of the peers and what their serves    *)
(* loaded of them, the file lists one user has cached, and the commands    *)
(* list-files and request-file of that user, with the search for a proxy   *)
(* when the owner does not answer.  A transfer is one step here, with the  *)
(* outcomes FileSession gives it; reading and writing a store is one step, *)
(* as Vault shows it may be taken for readers that come in between.        *)
(* A peer may rotate its key, and may come to serve where another one did. *)
(***************************************************************************)
EXTENDS Integers, Sequences, FiniteSets

CONSTANTS
  Peer, FileId,
  Address,       \* a host and a port: what serve comes to listen on
  Request,       \* slots for the user's request-file
  MaxLists,      \* bound: the user's list-files at once
  MaxStarts,   \* bound: starts of serve
  Rotating,    \* bound: the peers that rotate their key, once
  MaxBook,     \* bound: the user's contacts
  None

Key == (Peer \X {1}) \union (Rotating \X {2})

ASSUME RelayAssumption ==
  /\ MaxStarts \in Nat /\ MaxBook \in Nat /\ MaxLists \in Nat /\ Rotating \subseteq Peer
  /\ None \notin Key /\ None \notin [key : Key, index : SUBSET FileId, at : Address]

VARIABLES
  identity,  \* each peer's key on disk
  shared,    \* share_index.json of each peer
  owner,     \* the key an id was shared and signed under, or None
  serve,     \* the running serve of each peer, or None
  book,      \* contacts.json.enc of the user
  cache,     \* file_list_cache of the user: what is kept for each key; no file, an
             \* empty one and one that is no JSON are the same to a search: no list
  answer,    \* the list-files that were answered: the key asked, the list it got and
             \* whether it has the cache file open; two that are alike are one
  cmd,       \* each request-file
  starts

vars == <<identity, shared, owner, serve, book, cache, answer, cmd, starts>>

world == <<identity, shared, owner, serve, starts>>

\* "book": the contacts the command has loaded; "i": its place in them; "tried": the
\* proxies asked; "listed": history, the keys whose cached list has had the file
\* ever since the search began, but for moments when it was being rewritten; "torn":
\* history, the keys whose list was being rewritten when the search read it.
NoRequest == [pc |-> "idle", book |-> <<>>, key |-> None, file |-> None, i |-> 0,
              tried |-> {}, listed |-> {}, torn |-> {}]

Init ==
  /\ identity = [p \in Peer |-> <<p, 1>>]
  /\ shared = [p \in Peer |-> {}] /\ owner = [f \in FileId |-> None]
  /\ serve = [p \in Peer |-> None]
  /\ book = <<>> /\ cache = [k \in Key |-> {}]
  /\ answer = {} /\ cmd = [c \in Request |-> NoRequest]
  /\ starts = 0

----------------------------------------------------------------------------
(* The peers.                                                              *)

\* share: under an id of its own, signed with the present key.
Share(p) ==
  \E f \in FileId :
    /\ owner[f] = None
    /\ owner' = [owner EXCEPT ![f] = identity[p]]
    /\ shared' = [shared EXCEPT ![p] = @ \union {f}]
    /\ UNCHANGED <<identity, serve, book, cache, answer, cmd, starts>>

Unshare(p) ==
  \E f \in shared[p] :
    /\ shared' = [shared EXCEPT ![p] = @ \ {f}]
    /\ UNCHANGED <<identity, owner, serve, book, cache, answer, cmd, starts>>

At(a) == {p \in Peer : serve[p] # None /\ serve[p].at = a}

\* serve loads identity and index once, and listens where nobody does.
StartServe(p) ==
  /\ serve[p] = None /\ starts < MaxStarts
  /\ starts' = starts + 1
  /\ \E a \in Address :
       /\ At(a) = {}
       /\ serve' = [serve EXCEPT ![p] = [key |-> identity[p], index |-> shared[p], at |-> a]]
  /\ UNCHANGED <<identity, shared, owner, book, cache, answer, cmd>>

StopServe(p) ==
  /\ serve[p] # None
  /\ serve' = [serve EXCEPT ![p] = None]
  /\ UNCHANGED <<identity, shared, owner, book, cache, answer, cmd, starts>>

\* ShareIndex.public_list and get, of the index as it was loaded.
Listed(p) == serve[p].index

----------------------------------------------------------------------------
(* The user's contacts.                                                    *)

KeysIn(b) == {b[i].key : i \in DOMAIN b}
RecordOf(b, k) == CHOOSE i \in DOMAIN b : b[i].key = k

Contact(k, a) == [key |-> k, at |-> a, revoked |-> FALSE]

\* Mutant: every contact is taken for a new one.
NeverKnown(k) == FALSE

\* ContactStore.get.
Known(k) == k \in KeysIn(book)

\* add-contact at p's present address (KeyRotation).
AddContact(p) ==
  /\ serve[p] # None
  /\ LET k == serve[p].key IN
       book' = IF Known(k)
               THEN [book EXCEPT ![RecordOf(book, k)].at = serve[p].at]
               ELSE Append(book, Contact(k, serve[p].at))
  /\ Len(book') <= MaxBook
  /\ UNCHANGED <<world, cache, answer, cmd>>

\* rotate-key.  The user's serve gets the notice, or it does not (KeyRotation).
Rotate(p) ==
  LET old == identity[p]
      new == <<p, old[2] + 1>> IN
    /\ new \in Key
    /\ identity' = [identity EXCEPT ![p] = new]
    /\ \/ /\ Known(old) /\ ~book[RecordOf(book, old)].revoked
          /\ Len(book) < MaxBook
          /\ book' = Append([book EXCEPT ![RecordOf(book, old)].revoked = TRUE],
                            Contact(new, book[RecordOf(book, old)].at))
       \/ UNCHANGED book
    /\ UNCHANGED <<shared, owner, serve, cache, answer, cmd, starts>>

----------------------------------------------------------------------------
(* The commands.                                                           *)

\* _require_contact: the first contact at its address.
First(b, i) == \A j \in 1..(i - 1) : b[j].at # b[i].at

\* list-files: whoever listens at the contact's address answers with what it has
\* loaded; who that is is not checked.  Or it refuses, or nobody is there, and then
\* the cached list is shown.
ListFiles ==
  /\ Cardinality(answer) < MaxLists
  /\ \E i \in DOMAIN book :
       /\ First(book, i)
       /\ \E p \in At(book[i].at) :
            answer' = answer \union {[key |-> book[i].key, files |-> Listed(p), open |-> FALSE]}
  /\ UNCHANGED <<world, book, cache, cmd>>

\* A list-files is between the truncation and the end of the cache file of k.
Rewriting(k) == \E a \in answer : a.open /\ a.key = k

\* What the searches that are going on had of the lists, after one has changed.
Relisted ==
  cmd' = [d \in Request |->
            [cmd[d] EXCEPT !.listed = {k \in @ : cmd[d].file \in cache'[k] \/ Rewriting(k)'}]]

\* _write_cache: open(.., "w") leaves the file empty,
OpenCache(a) ==
  /\ ~a.open
  /\ answer' = (answer \ {a}) \union {[a EXCEPT !.open = TRUE]}
  /\ cache' = [cache EXCEPT ![a.key] = {}]
  /\ UNCHANGED <<world, book, cmd>>

\* and json.dump fills it.  Over the list of another list-files that has come in
\* between, a shorter one leaves the end of that.
WriteCache(a) ==
  /\ a.open
  /\ \/ cache' = [cache EXCEPT ![a.key] = a.files]
     \/ cache[a.key] # {} /\ cache' = [cache EXCEPT ![a.key] = {}]
  /\ answer' = answer \ {a}
  /\ Relisted
  /\ UNCHANGED <<world, book>>

\* list-files is refused, or ends or is killed where it is.
LoseAnswer(a) ==
  /\ answer' = answer \ {a}
  /\ UNCHANGED <<world, book, cache>>
  /\ Relisted

Ends(c) == cmd' = [cmd EXCEPT ![c] = NoRequest]

\* request-file, for any id.
RequestFile(c) ==
  /\ cmd[c].pc = "idle"
  /\ \E i \in DOMAIN book, f \in FileId :
       /\ First(book, i) /\ ~book[i].revoked
       /\ cmd' = [cmd EXCEPT ![c] = [NoRequest EXCEPT
                    !.pc = "owner", !.book = book, !.key = book[i].key, !.file = f]]
  /\ UNCHANGED <<world, book, cache, answer>>

\* A session with the contact gets as far as the data, and these are accepted.
Delivers(contact, f, b) ==
  /\ \E p \in At(contact.at) : serve[p].key = contact.key /\ f \in Listed(p)
  /\ owner[f] \in KeysIn(b)

\* _do_request: the file, a denial, an error or an alarm; or no connection, or one
\* that is lost on the way.
AskOwner(c) ==
  /\ cmd[c].pc = "owner"
  /\ \/ At(cmd[c].book[RecordOf(cmd[c].book, cmd[c].key)].at) # {} /\ Ends(c)
     \/ cmd' = [cmd EXCEPT ![c].pc = "search", ![c].i = 1,
                           ![c].listed = {k \in Key : cmd[c].file \in cache[k]}]
  /\ UNCHANGED <<world, book, cache, answer>>

Candidate(c, contact) ==
  /\ contact.key # cmd[c].key /\ ~contact.revoked
  /\ cmd[c].file \in cache[contact.key]

\* Mutant: break where the loop has continue.
GivesUp(c) == Len(cmd[c].book) + 1

\* Mutant: a proxy that failed is asked again.
AsksAgain(c) == cmd[c].i

\* The next contact, whatever was wrong with this one.
NextContact(c) == cmd[c].i + 1

\* One round of the loop of _proxy_download.
Search(c) ==
  /\ cmd[c].pc = "search" /\ cmd[c].i \in DOMAIN cmd[c].book
  /\ LET contact == cmd[c].book[cmd[c].i] IN
       \/ /\ ~Candidate(c, contact)
          /\ cmd' = [cmd EXCEPT ![c].i = NextContact(c),
                                ![c].torn = @ \union {k \in {contact.key} : Rewriting(k)}]
       \/ /\ Candidate(c, contact) /\ Delivers(contact, cmd[c].file, cmd[c].book)
          /\ Ends(c)
       \/ /\ Candidate(c, contact)
          /\ cmd' = [cmd EXCEPT ![c].i = NextContact(c), ![c].tried = @ \union {contact.key}]
  /\ UNCHANGED <<world, book, cache, answer>>

NotFound(c) ==
  /\ cmd[c].pc = "search" /\ cmd[c].i \notin DOMAIN cmd[c].book
  /\ cmd' = [cmd EXCEPT ![c].pc = "not found"]
  /\ UNCHANGED <<world, book, cache, answer>>

Finish(c) ==
  /\ cmd[c].pc = "not found"
  /\ Ends(c)
  /\ UNCHANGED <<world, book, cache, answer>>

Step(c) == AskOwner(c) \/ Search(c) \/ NotFound(c) \/ Finish(c)

Next ==
  \/ \E p \in Peer :
       \/ Share(p) \/ Unshare(p) \/ StartServe(p) \/ StopServe(p)
       \/ AddContact(p) \/ Rotate(p)
  \/ ListFiles
  \/ \E a \in answer : OpenCache(a) \/ WriteCache(a) \/ LoseAnswer(a)
  \/ \E c \in Request : RequestFile(c) \/ Step(c)

Spec == Init /\ [][Next]_vars

\* Every connection, and every wait on one, is bounded by a timeout.
FairSpec == Spec /\ \A c \in Request : WF_vars(Step(c))

----------------------------------------------------------------------------
(* Properties.                                                             *)

Contacts == [key : Key, at : Address, revoked : BOOLEAN]

Requests == [pc : {"idle", "owner", "search", "not found"}, book : Seq(Contacts),
             key : Key \union {None}, file : FileId \union {None}, i : 0..(MaxBook + 1),
             tried : SUBSET Key, listed : SUBSET Key, torn : SUBSET Key]

\* Type invariant; the user has one contact of each key.
TypeOK ==
  /\ identity \in [Peer -> Key] /\ \A p \in Peer : identity[p][1] = p
  /\ shared \in [Peer -> SUBSET FileId]
  /\ owner \in [FileId -> Key \union {None}]
  /\ serve \in [Peer -> [key : Key, index : SUBSET FileId, at : Address] \union {None}]
  /\ book \in Seq(Contacts) /\ Len(book) <= MaxBook
  /\ \A i, j \in DOMAIN book : book[i].key = book[j].key => i = j
  /\ cache \in [Key -> SUBSET FileId]
  /\ answer \subseteq [key : Key, files : SUBSET FileId, open : BOOLEAN]
  /\ cmd \in [Request -> Requests]
  /\ starts \in 0..MaxStarts

\* When request-file gives up, it has asked every contact that it might have asked:
\* those that were not revoked, other than the one that is offline, whose cached
\* list had the file before and after every time it was rewritten, while earlier
\* proxies refused or failed.  Only a contact whose list a list-files had emptied
\* and not yet filled at the moment the search read it is passed over
\* (Client._proxy_download, _read_cache, _write_cache).
SearchIsComplete ==
  \A c \in Request : cmd[c].pc = "not found" =>
    \A i \in DOMAIN cmd[c].book :
      LET contact == cmd[c].book[i] IN
        \/ contact.revoked \/ contact.key = cmd[c].key
        \/ contact.key \in cmd[c].tried \/ contact.key \notin cmd[c].listed
        \/ contact.key \in cmd[c].torn

\* Every request-file comes to an end, however peers come and go meanwhile
\* (Client.request_file, Client._proxy_download).
RequestEnds == \A c \in Request : cmd[c].pc = "owner" ~> cmd[c].pc = "idle"
=============================================================================
