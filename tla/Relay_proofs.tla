----------------------------- MODULE Relay_proofs -----------------------------
(***************************************************************************)
(* Proofs about Relay, for any number of peers, files, contacts and        *)
(* commands.                                                               *)
(***************************************************************************)
EXTENDS Relay, TLAPS

----------------------------------------------------------------------------
(* The inductive invariant.                                                *)

Served == [key : Key, index : SUBSET FileId, at : Address]
Lists == [key : Key, files : SUBSET FileId, open : BOOLEAN]

PeersOK ==
  /\ identity \in [Peer -> Key] /\ \A p \in Peer : identity[p][1] = p
  /\ shared \in [Peer -> SUBSET FileId]
  /\ owner \in [FileId -> Key \union {None}]
  /\ serve \in [Peer -> Served \union {None}]
  /\ starts \in 0..MaxStarts

BookOK ==
  /\ book \in Seq(Contacts) /\ Len(book) <= MaxBook
  /\ \A i, j \in DOMAIN book : book[i].key = book[j].key => i = j

ListsOK ==
  /\ cache \in [Key -> SUBSET FileId]
  /\ answer \subseteq Lists

CmdOK ==
  /\ cmd \in [Request -> Requests]
  /\ \A c \in Request : Len(cmd[c].book) <= MaxBook

\* The search r has dealt with the contact at place j.
Dealt(r, j) ==
  \/ r.book[j].revoked \/ r.book[j].key = r.key
  \/ r.book[j].key \in r.tried \/ r.book[j].key \notin r.listed \/ r.book[j].key \in r.torn

\* A search has dealt with all contacts before its place.
Searched(r) ==
  /\ r.pc \in {"search", "not found"} =>
       r.i >= 1 /\ \A j \in DOMAIN r.book : j < r.i => Dealt(r, j)
  /\ r.pc = "not found" => r.i \notin DOMAIN r.book
  /\ r.pc = "search" => r.i <= Len(r.book) + 1
  /\ \A k \in r.listed : r.file \in cache[k] \/ Rewriting(k)

SearchesOK == \A c \in Request : Searched(cmd[c])

\* The peer of the key k has that one or a later one.
Past(k) == k[2] <= identity[k[1]][2]

\* No serve has, and the user knows no key that the peer has not saved.
Present ==
  /\ \A p \in Peer : serve[p] # None => serve[p].key[1] = p /\ Past(serve[p].key)
  /\ \A k \in KeysIn(book) : Past(k)

Typed == PeersOK /\ BookOK /\ ListsOK /\ CmdOK

IInv == Typed /\ Present /\ SearchesOK

LEMMA TypesFollow == Typed => TypeOK
  BY DEF Typed, PeersOK, BookOK, ListsOK, CmdOK, TypeOK, Served, Lists

LEMMA RequestIs ==
  ASSUME NEW r \in Requests
  PROVE  /\ r.book \in Seq(Contacts) /\ r.i \in Int
         /\ r.tried \subseteq Key /\ r.listed \subseteq Key /\ r.torn \subseteq Key
         /\ r.key \in Key \union {None} /\ r.file \in FileId \union {None}
<1>1. /\ r.book \in Seq(Contacts) /\ r.i \in 0..(MaxBook + 1)
      /\ r.tried \subseteq Key /\ r.listed \subseteq Key /\ r.torn \subseteq Key
      /\ r.key \in Key \union {None} /\ r.file \in FileId \union {None}
  BY DEF Requests
<1>2. \A i \in 0..(MaxBook + 1) : i \in Int
  BY RelayAssumption
<1> QED
  BY <1>1, <1>2

LEMMA BeyondBook ==
  ASSUME NEW b \in Seq(Contacts), NEW i \in Int, i >= 1, i \notin DOMAIN b,
         NEW j \in DOMAIN b
  PROVE  j < i
  OBVIOUS

LEMMA CompletenessFollows == IInv => SearchIsComplete
<1> SUFFICES ASSUME IInv, NEW c \in Request, cmd[c].pc = "not found"
             PROVE  \A j \in DOMAIN cmd[c].book : Dealt(cmd[c], j)
  BY DEF SearchIsComplete, Dealt
<1>1. cmd[c] \in Requests /\ Searched(cmd[c])
  BY DEF IInv, Typed, CmdOK, SearchesOK
<1>2. ASSUME NEW r \in Requests, Searched(r), r.pc = "not found"
      PROVE  \A j \in DOMAIN r.book : Dealt(r, j)
  BY <1>2, RequestIs, BeyondBook DEF Searched
<1> QED
  BY <1>1, <1>2

----------------------------------------------------------------------------
(* Contacts.                                                               *)

LEMMA KeyIs == \A k \in Key : k[1] \in Peer /\ k[2] \in {1, 2} /\ k # None
  BY RelayAssumption DEF Key

LEMMA RecordOfIs ==
  ASSUME NEW b, NEW k \in KeysIn(b)
  PROVE  RecordOf(b, k) \in DOMAIN b /\ b[RecordOf(b, k)].key = k
<1>1. \E i \in DOMAIN b : b[i].key = k
  BY DEF KeysIn
<1> QED
  BY <1>1 DEF RecordOf

\* Changing a record but for its key.
LEMMA ChangeRecord ==
  ASSUME BookOK, NEW i \in DOMAIN book, NEW r \in Contacts, r.key = book[i].key,
         NEW new, new = [book EXCEPT ![i] = r]
  PROVE  /\ new \in Seq(Contacts) /\ Len(new) = Len(book) /\ KeysIn(new) = KeysIn(book)
         /\ \A j, l \in DOMAIN new : new[j].key = new[l].key => j = l
<1>1. book \in Seq(Contacts) /\ DOMAIN book = 1..Len(book) /\ Len(book) \in Nat
  BY DEF BookOK
<1>2. /\ new = [j \in 1..Len(book) |-> IF j = i THEN r ELSE book[j]]
  BY <1>1
<1>3. \A j \in 1..Len(book) : new[j] \in Contacts /\ new[j].key = book[j].key
  BY <1>1, <1>2
<1>4. new \in Seq(Contacts) /\ Len(new) = Len(book) /\ DOMAIN new = 1..Len(book)
  BY <1>1, <1>2, <1>3
<1>5. KeysIn(new) = KeysIn(book)
  BY <1>1, <1>3, <1>4 DEF KeysIn
<1> QED
  BY <1>1, <1>3, <1>4, <1>5 DEF BookOK

\* Adding a contact with a new key.
LEMMA AppendContact ==
  ASSUME NEW b \in Seq(Contacts), \A i, j \in DOMAIN b : b[i].key = b[j].key => i = j,
         NEW k \in Key, NEW a \in Address, k \notin KeysIn(b),
         NEW new, new = Append(b, Contact(k, a))
  PROVE  /\ new \in Seq(Contacts) /\ Len(new) = Len(b) + 1
         /\ \A i, j \in DOMAIN new : new[i].key = new[j].key => i = j
         /\ KeysIn(new) \subseteq KeysIn(b) \union {k}
<1>1. Contact(k, a) \in Contacts /\ Contact(k, a).key = k
  BY DEF Contact, Contacts
<1>2. new \in Seq(Contacts) /\ Len(new) = Len(b) + 1 /\ DOMAIN new = 1..(Len(b) + 1)
      /\ DOMAIN b = 1..Len(b) /\ Len(b) \in Nat
  BY <1>1
<1>3. \A i \in 1..Len(b) : new[i] = b[i] /\ new[i].key # k
  BY <1>2 DEF KeysIn
<1>4. new[Len(b) + 1].key = k
  BY <1>1
<1>5. KeysIn(new) \subseteq KeysIn(b) \union {k}
  BY <1>2, <1>3, <1>4 DEF KeysIn
<1> QED
  BY <1>2, <1>3, <1>4, <1>5

----------------------------------------------------------------------------
(* What leaves the parts of the invariant alone.                           *)

LEMMA SameSearches ==
  ASSUME SearchesOK, UNCHANGED <<cache, answer, cmd>>
  PROVE  SearchesOK'
  BY DEF SearchesOK, Searched, Dealt, Rewriting

LEMMA SamePresent ==
  ASSUME Present, UNCHANGED <<identity, serve, book>>
  PROVE  Present'
  BY DEF Present, Past, KeysIn

LEMMA SameTypes ==
  /\ PeersOK /\ UNCHANGED world => PeersOK'
  /\ BookOK /\ UNCHANGED book => BookOK'
  /\ ListsOK /\ UNCHANGED <<cache, answer>> => ListsOK'
  /\ CmdOK /\ UNCHANGED cmd => CmdOK'
  BY DEF world, PeersOK, BookOK, ListsOK, CmdOK

----------------------------------------------------------------------------
(* The peers.                                                              *)

LEMMA ShareStep ==
  ASSUME IInv, NEW p \in Peer, Share(p)
  PROVE  IInv'
<1> PICK f \in FileId :
      /\ owner[f] = None /\ owner' = [owner EXCEPT ![f] = identity[p]]
      /\ shared' = [shared EXCEPT ![p] = @ \union {f}]
  BY DEF Share
<1>1. UNCHANGED <<identity, serve, book, cache, answer, cmd, starts>>
  BY DEF Share
<1>2. identity[p] \in Key /\ identity[p][1] = p /\ identity[p] # None
  BY RelayAssumption DEF IInv, Typed, PeersOK
<1>3. PeersOK'
  BY <1>1, <1>2 DEF IInv, Typed, PeersOK
<1> QED
  BY <1>1, <1>3, SameSearches, SamePresent, SameTypes DEF IInv, Typed

LEMMA PeerStep ==
  ASSUME IInv, NEW p \in Peer, Unshare(p) \/ StartServe(p) \/ StopServe(p)
  PROVE  IInv'
<1>1. UNCHANGED <<identity, owner, book, cache, answer, cmd>>
  BY DEF Unshare, StartServe, StopServe
<1>2. PeersOK /\ MaxStarts \in Nat
  BY RelayAssumption DEF IInv, Typed
<1>3. PeersOK'
  <2>1. CASE Unshare(p)
    BY <1>1, <1>2, <2>1 DEF Unshare, PeersOK
  <2>2. CASE StartServe(p)
    <3>1. PICK a \in Address :
            serve' = [serve EXCEPT ![p] = [key |-> identity[p], index |-> shared[p], at |-> a]]
      BY <2>2 DEF StartServe
    <3> DEFINE new == [key |-> identity[p], index |-> shared[p], at |-> a]
    <3>2. new \in Served
      BY <1>2 DEF PeersOK, Served
    <3> HIDE DEF new
    <3>3. serve' = [serve EXCEPT ![p] = new]
      BY <3>1 DEF new
    <3> QED
      BY <1>1, <1>2, <2>2, <3>2, <3>3 DEF PeersOK, StartServe
  <2>3. CASE StopServe(p)
    BY <1>1, <1>2, <2>3 DEF StopServe, PeersOK
  <2> QED
    BY <2>1, <2>2, <2>3
<1>4. Present'
  <2>1. CASE StartServe(p)
    <3>1. PICK a \in Address :
            serve' = [serve EXCEPT ![p] = [key |-> identity[p], index |-> shared[p], at |-> a]]
      BY <2>1 DEF StartServe
    <3>2. serve'[p].key = identity[p] /\ \A q \in Peer \ {p} : serve'[q] = serve[q]
      BY <1>2, <3>1 DEF PeersOK
    <3>3. identity[p] \in Key /\ identity[p][1] = p
      BY <1>2 DEF PeersOK
    <3>4. Past(identity[p])
      BY <3>3, KeyIs DEF Past
    <3> QED
      BY <1>1, <3>2, <3>3, <3>4 DEF IInv, Present, Past, KeysIn
  <2>2. CASE StopServe(p)
    BY <1>1, <1>2, <2>2 DEF StopServe, PeersOK, IInv, Present, Past, KeysIn
  <2>3. CASE Unshare(p)
    BY <1>1, <2>3, SamePresent DEF Unshare, IInv
  <2> QED
    BY <2>1, <2>2, <2>3
<1> QED
  BY <1>1, <1>3, <1>4, SameSearches, SameTypes DEF IInv, Typed

----------------------------------------------------------------------------
(* The user's contacts.                                                    *)

LEMMA BookStep ==
  ASSUME IInv, BookOK', PeersOK', Present', UNCHANGED <<shared, owner, serve, cache, answer, cmd>>
  PROVE  IInv'
  BY SameSearches, SameTypes DEF IInv, Typed

LEMMA AddContactStep ==
  ASSUME IInv, NEW p \in Peer, AddContact(p)
  PROVE  IInv'
<1>1. serve[p] \in Served
  BY DEF AddContact, IInv, Typed, PeersOK
<1> DEFINE k == serve[p].key
           a == serve[p].at
<1>2. k \in Key /\ a \in Address
  BY <1>1 DEF Served
<1>3. /\ book' = IF Known(k) THEN [book EXCEPT ![RecordOf(book, k)].at = a]
                  ELSE Append(book, Contact(k, a))
      /\ Len(book') <= MaxBook
      /\ UNCHANGED <<world, cache, answer, cmd>>
  BY DEF AddContact
<1> HIDE DEF k, a
<1>4. BookOK
  BY DEF IInv, Typed
<1>5. BookOK' /\ KeysIn(book') \subseteq KeysIn(book) \union {k}
  <2>1. CASE Known(k)
    <3> DEFINE i == RecordOf(book, k)
               r == [book[i] EXCEPT !.at = a]
    <3>1. i \in DOMAIN book
      BY <2>1, RecordOfIs DEF Known
    <3>2. book[i] \in Contacts
      BY <1>4, <3>1 DEF BookOK
    <3>3. r \in Contacts /\ r.key = book[i].key
      BY <1>2, <3>2 DEF Contacts
    <3>4. book' = [book EXCEPT ![i] = r]
      BY <1>3, <2>1
    <3> HIDE DEF i, r
    <3> QED
      <4>1. /\ book' \in Seq(Contacts) /\ Len(book') = Len(book) /\ KeysIn(book') = KeysIn(book)
            /\ \A j, l \in DOMAIN book' : book'[j].key = book'[l].key => j = l
        <5> DEFINE b == [book EXCEPT ![i] = r]
        <5>1. /\ b \in Seq(Contacts) /\ Len(b) = Len(book) /\ KeysIn(b) = KeysIn(book)
              /\ \A j, l \in DOMAIN b : b[j].key = b[l].key => j = l
          BY <1>4, <3>1, <3>3, ChangeRecord
        <5> QED
          BY <3>4, <5>1
      <4> QED
        BY <1>3, <4>1 DEF BookOK
  <2>2. CASE ~Known(k)
    <3>1. PICK key \in Key, at \in Address : key = k /\ at = a
      BY <1>2
    <3>2. key \notin KeysIn(book) /\ book' = Append(book, Contact(key, at))
      BY <1>3, <2>2, <3>1 DEF Known
    <3>3. book \in Seq(Contacts) /\ \A i, j \in DOMAIN book : book[i].key = book[j].key => i = j
      BY <1>4 DEF BookOK
    <3>4. PICK new : new = Append(book, Contact(key, at))
      OBVIOUS
    <3>5. new \in Seq(Contacts) /\ KeysIn(new) \subseteq KeysIn(book) \union {key}
      BY <3>2, <3>3, <3>4, AppendContact
    <3>6. \A i, j \in DOMAIN new : new[i].key = new[j].key => i = j
      <4> TAKE i, j \in DOMAIN new
      <4> QED
        BY SMTT(30), <3>2, <3>3, <3>4, AppendContact
    <3>7. book' = new
      BY <3>2, <3>4
    <3> QED
      BY <1>3, <3>1, <3>5, <3>6, <3>7 DEF BookOK
  <2> QED
    BY <2>1, <2>2
<1>6. PeersOK'
  BY <1>3, SameTypes DEF IInv, Typed
<1>7. Present'
  <2>2. k = serve[p].key /\ serve[p] # None
    BY DEF k, AddContact
  <2>3. Present /\ UNCHANGED <<identity, serve>>
    BY <1>3 DEF IInv, world
  <2> QED
    BY <1>5, <2>2, <2>3 DEF Present, Past
<1> QED
  BY <1>3, <1>5, <1>6, <1>7, BookStep DEF world

LEMMA RotateStep ==
  ASSUME IInv, NEW p \in Peer, Rotate(p)
  PROVE  IInv'
<1> DEFINE old == identity[p]
           new == <<p, old[2] + 1>>
           i == RecordOf(book, old)
<1>1. /\ new \in Key /\ identity' = [identity EXCEPT ![p] = new]
      /\ \/ /\ Known(old) /\ Len(book) < MaxBook
            /\ book' = Append([book EXCEPT ![i].revoked = TRUE], Contact(new, book[i].at))
         \/ UNCHANGED book
      /\ UNCHANGED <<shared, owner, serve, cache, answer, cmd, starts>>
  BY DEF Rotate
<1>2. new[1] = p
  OBVIOUS
<1> HIDE DEF new
<1>3. PeersOK'
  BY <1>1, <1>2 DEF IInv, Typed, PeersOK
<1>4. BookOK /\ MaxBook \in Nat
  BY RelayAssumption DEF IInv, Typed
<1>5. old \in Key /\ old[1] = p /\ new[2] = old[2] + 1 /\ old[2] \in {1, 2}
  BY KeyIs DEF IInv, Typed, PeersOK, new
<1>6. identity \in [Peer -> Key]
  BY DEF IInv, Typed, PeersOK
<1>7. \A k \in Key : Past(k) => Past(k)'
  BY <1>1, <1>2, <1>5, <1>6, KeyIs DEF Past
<1>8. new \notin KeysIn(book)
  <2>1. ~Past(new)
    BY <1>2, <1>5, KeyIs DEF Past
  <2> QED
    BY <2>1 DEF IInv, Present
<1>9. new[2] <= identity'[new[1]][2] /\ new \in Key
  BY <1>1, <1>2, <1>5, <1>6
<1>10. BookOK' /\ KeysIn(book') \subseteq KeysIn(book) \union {new}
  <2>1. CASE UNCHANGED book
    BY <1>4, <2>1 DEF BookOK, KeysIn
  <2>2. CASE /\ Known(old) /\ Len(book) < MaxBook
             /\ book' = Append([book EXCEPT ![i].revoked = TRUE], Contact(new, book[i].at))
    <3>1. i \in DOMAIN book
      BY <2>2, RecordOfIs DEF Known
    <3> DEFINE r == [book[i] EXCEPT !.revoked = TRUE]
               b == [book EXCEPT ![i] = r]
    <3>2. book[i] \in Contacts
      BY <1>4, <3>1 DEF BookOK
    <3>3. r \in Contacts /\ r.key = book[i].key /\ book[i].at \in Address
      BY <3>2 DEF Contacts
    <3>4. book' = Append(b, Contact(new, book[i].at))
      BY <2>2
    <3> HIDE DEF i, r
    <3>5. /\ b \in Seq(Contacts) /\ Len(b) = Len(book) /\ KeysIn(b) = KeysIn(book)
          /\ \A j, l \in DOMAIN b : b[j].key = b[l].key => j = l
      BY <1>4, <3>1, <3>3, ChangeRecord
    <3> HIDE DEF b
    <3>6. /\ book' \in Seq(Contacts) /\ Len(book') = Len(book) + 1
          /\ \A j, l \in DOMAIN book' : book'[j].key = book'[l].key => j = l
          /\ KeysIn(book') \subseteq KeysIn(book) \union {new}
      <4> DEFINE at == book[i].at
      <4>1. book' = Append(b, Contact(new, at)) /\ at \in Address
        BY <3>3, <3>4
      <4> HIDE DEF at
      <4>2. new \notin KeysIn(b)
        BY <1>8, <3>5
      <4> DEFINE a == Append(b, Contact(new, at))
      <4>3. /\ a \in Seq(Contacts) /\ Len(a) = Len(b) + 1
            /\ \A j, l \in DOMAIN a : a[j].key = a[l].key => j = l
            /\ KeysIn(a) \subseteq KeysIn(b) \union {new}
        BY <1>9, <3>5, <4>1, <4>2, AppendContact
      <4> QED
        BY <3>5, <4>1, <4>3
    <3>7. Len(book') <= MaxBook
      BY <1>4, <2>2, <3>5, <3>6 DEF BookOK
    <3> QED
      BY <3>6, <3>7 DEF BookOK
  <2> QED
    BY <1>1, <2>1, <2>2
<1>11. Present'
  <2>1. KeysIn(book) \subseteq Key
    <3>1. \A j \in DOMAIN book : book[j] \in Contacts
      BY <1>4 DEF BookOK
    <3> QED
      BY <3>1 DEF KeysIn, Contacts
  <2>2. \A q \in Peer : serve[q] # None => serve[q].key \in Key
    BY DEF IInv, Typed, PeersOK, Served
  <2>3. Present /\ UNCHANGED serve
    BY <1>1 DEF IInv
  <2>4. \A k \in KeysIn(book') : Past(k)'
    BY <1>7, <1>9, <1>10, <2>1, <2>3 DEF Present, Past
  <2> QED
    BY <1>7, <2>2, <2>3, <2>4 DEF Present
<1> QED
  BY <1>1, <1>3, <1>10, <1>11, BookStep

----------------------------------------------------------------------------
(* The commands.                                                           *)

\* A search that goes on as r.
LEMMA CmdChanges ==
  ASSUME IInv, NEW c \in Request, NEW r \in Requests, Len(r.book) <= MaxBook, Searched(r),
         cmd' = [cmd EXCEPT ![c] = r], UNCHANGED <<world, book, cache, answer>>
  PROVE  IInv'
<1>1. \A d \in Request : cmd'[d] = IF d = c THEN r ELSE cmd[d]
  BY DEF IInv, Typed, CmdOK
<1>2. CmdOK'
  BY <1>1 DEF IInv, Typed, CmdOK
<1>3. SearchesOK'
  <2>1. ASSUME NEW d \in Request PROVE Searched(cmd[d])'
    <3>1. cache' = cache
      BY DEF world
    <3>2. CASE d = c
      <4>1. cmd'[d] = r
        BY <1>1, <3>2
      <4> QED
        BY <3>1, <4>1 DEF Searched, Dealt, Rewriting
    <3>3. CASE d # c
      <4>1. cmd'[d] = cmd[d]
        BY <1>1, <3>3
      <4>2. Searched(cmd[d])
        BY DEF IInv, SearchesOK
      <4> QED
        BY <3>1, <4>1, <4>2 DEF Searched, Dealt, Rewriting
    <3> QED
      BY <3>2, <3>3
  <2> QED
    BY <2>1 DEF SearchesOK
<1>4. UNCHANGED <<identity, shared, owner, serve, starts>>
  BY DEF world
<1> QED
  BY <1>2, <1>3, <1>4, SamePresent, SameTypes DEF IInv, Typed

LEMMA NoRequestIs == NoRequest \in Requests /\ Len(NoRequest.book) = 0 /\ Searched(NoRequest)
  BY RelayAssumption DEF NoRequest, Requests, Searched, Dealt

LEMMA EndsStep ==
  ASSUME IInv, NEW c \in Request, Ends(c), UNCHANGED <<world, book, cache, answer>>
  PROVE  IInv'
<1>1. Len(NoRequest.book) <= MaxBook
  BY NoRequestIs, RelayAssumption
<1> QED
  BY <1>1, NoRequestIs, CmdChanges DEF Ends

\* A record stays one of its kind when one field changes.
LEMMA FieldSet ==
  ASSUME NEW A, NEW B, NEW C, NEW D, NEW E, NEW F, NEW G,
         NEW q \in [pc : A, book : B, key : C, file : D, i : E, tried : F, listed : G, torn : G]
  PROVE  /\ \A x \in A : [q EXCEPT !.pc = x] \in
                         [pc : A, book : B, key : C, file : D, i : E, tried : F, listed : G, torn : G]
         /\ \A x \in B : [q EXCEPT !.book = x] \in
                         [pc : A, book : B, key : C, file : D, i : E, tried : F, listed : G, torn : G]
         /\ \A x \in C : [q EXCEPT !.key = x] \in
                         [pc : A, book : B, key : C, file : D, i : E, tried : F, listed : G, torn : G]
         /\ \A x \in D : [q EXCEPT !.file = x] \in
                         [pc : A, book : B, key : C, file : D, i : E, tried : F, listed : G, torn : G]
         /\ \A x \in E : [q EXCEPT !.i = x] \in
                         [pc : A, book : B, key : C, file : D, i : E, tried : F, listed : G, torn : G]
         /\ \A x \in F : [q EXCEPT !.tried = x] \in
                         [pc : A, book : B, key : C, file : D, i : E, tried : F, listed : G, torn : G]
         /\ \A x \in G : [q EXCEPT !.listed = x] \in
                         [pc : A, book : B, key : C, file : D, i : E, tried : F, listed : G, torn : G]
         /\ \A x \in G : [q EXCEPT !.torn = x] \in
                         [pc : A, book : B, key : C, file : D, i : E, tried : F, listed : G, torn : G]
  BY SMT

LEMMA RequestSet ==
  ASSUME NEW q \in Requests
  PROVE  /\ \A x \in {"idle", "owner", "search", "not found"} : [q EXCEPT !.pc = x] \in Requests
         /\ \A x \in Seq(Contacts) : [q EXCEPT !.book = x] \in Requests
         /\ \A x \in Key \union {None} : [q EXCEPT !.key = x] \in Requests
         /\ \A x \in FileId \union {None} : [q EXCEPT !.file = x] \in Requests
         /\ \A x \in 0..(MaxBook + 1) : [q EXCEPT !.i = x] \in Requests
         /\ \A x \in SUBSET Key : [q EXCEPT !.tried = x] \in Requests
         /\ \A x \in SUBSET Key : [q EXCEPT !.listed = x] \in Requests
         /\ \A x \in SUBSET Key : [q EXCEPT !.torn = x] \in Requests
  BY FieldSet, Zenon DEF Requests

LEMMA RequestFileStep ==
  ASSUME IInv, NEW c \in Request, RequestFile(c)
  PROVE  IInv'
<1> PICK i \in DOMAIN book, f \in FileId :
      cmd' = [cmd EXCEPT ![c] = [NoRequest EXCEPT
                !.pc = "owner", !.book = book, !.key = book[i].key, !.file = f]]
  BY DEF RequestFile
<1>1. book \in Seq(Contacts) /\ Len(book) <= MaxBook /\ book[i] \in Contacts
  BY DEF IInv, Typed, BookOK
<1> DEFINE k == book[i].key
           r == [NoRequest EXCEPT !.pc = "owner", !.book = book, !.key = k, !.file = f]
<1>2. k \in Key
  BY <1>1 DEF Contacts
<1> HIDE DEF k
<1>3. r \in Requests
  <2>1. [NoRequest EXCEPT !.pc = "owner"] \in Requests
    BY NoRequestIs, RequestSet
  <2>2. [[NoRequest EXCEPT !.pc = "owner"] EXCEPT !.book = book] \in Requests
    BY <1>1, <2>1, RequestSet
  <2>3. [[[NoRequest EXCEPT !.pc = "owner"] EXCEPT !.book = book] EXCEPT !.key = k] \in Requests
    BY <1>2, <2>2, RequestSet
  <2> QED
    BY <2>3, RequestSet
<1>4. r.pc = "owner" /\ r.book = book /\ r.listed = {}
  BY Zenon DEF NoRequest
<1>5. cmd' = [cmd EXCEPT ![c] = r] /\ UNCHANGED <<world, book, cache, answer>>
  BY DEF k, RequestFile
<1> HIDE DEF r
<1>6. Searched(r) /\ Len(r.book) <= MaxBook
  BY <1>1, <1>4 DEF Searched
<1> QED
  BY <1>3, <1>5, <1>6, CmdChanges

\* What the invariant says of the request c.
LEMMA RequestOf ==
  ASSUME IInv, NEW c \in Request
  PROVE  /\ cmd[c] \in Requests /\ Len(cmd[c].book) <= MaxBook /\ Searched(cmd[c])
         /\ cache \in [Key -> SUBSET FileId]
  BY DEF IInv, Typed, CmdOK, SearchesOK, ListsOK

LEMMA AskOwnerStep ==
  ASSUME IInv, NEW c \in Request, AskOwner(c)
  PROVE  IInv'
<1>1. UNCHANGED <<world, book, cache, answer>>
  BY DEF AskOwner
<1>2. CASE Ends(c)
  BY <1>1, <1>2, EndsStep
<1> DEFINE listed == {k \in Key : cmd[c].file \in cache[k]}
<1>3. CASE cmd' = [cmd EXCEPT ![c].pc = "search", ![c].i = 1, ![c].listed = listed]
  <2> DEFINE q == cmd[c]
             r == [q EXCEPT !.pc = "search", !.i = 1, !.listed = listed]
  <2>1. cmd' = [cmd EXCEPT ![c] = r]
    BY <1>3, Zenon
  <2>2. q \in Requests /\ Len(q.book) <= MaxBook /\ listed \subseteq Key
        /\ \A k \in listed : q.file \in cache[k]
    BY RequestOf
  <2> HIDE DEF q, listed
  <2>3. r.pc = "search" /\ r.i = 1 /\ r.listed = listed /\ r.book = q.book /\ r.file = q.file
    BY <2>2, Zenon DEF Requests
  <2>4. 1 \in 0..(MaxBook + 1)
    BY RelayAssumption
  <2>5. [q EXCEPT !.pc = "search"] \in Requests
    BY <2>2, RequestSet
  <2>6. [[q EXCEPT !.pc = "search"] EXCEPT !.i = 1] \in Requests
    BY <2>4, <2>5, RequestSet
  <2>7. r \in Requests
    BY <2>2, <2>6, RequestSet
  <2> HIDE DEF r
  <2>8. q.book \in Seq(Contacts)
    BY <2>2, RequestIs
  <2>9. Len(q.book) \in Nat /\ DOMAIN q.book = 1..Len(q.book)
    BY <2>8
  <2>10. r.i >= 1 /\ (\A j \in DOMAIN r.book : ~(j < r.i)) /\ r.i <= Len(r.book) + 1
    BY <2>3, <2>9
  <2>11. Searched(r) /\ Len(r.book) <= MaxBook
    BY <2>2, <2>3, <2>10 DEF Searched
  <2> QED
    BY <1>1, <2>1, <2>7, <2>11, CmdChanges
<1> QED
  BY <1>2, <1>3 DEF AskOwner

LEMMA SearchStep ==
  ASSUME IInv, NEW c \in Request, Search(c)
  PROVE  IInv'
<1> DEFINE q == cmd[c]
           contact == q.book[q.i]
<1>1. UNCHANGED <<world, book, cache, answer>> /\ q.pc = "search" /\ q.i \in DOMAIN q.book
  BY DEF Search
<1>2. q \in Requests /\ Len(q.book) <= MaxBook /\ Searched(q)
  BY RequestOf
<1>3. /\ q.book \in Seq(Contacts) /\ q.i \in Int
      /\ q.tried \subseteq Key /\ q.listed \subseteq Key /\ q.torn \subseteq Key
  BY <1>2, RequestIs
<1>4. contact.key \in Key
  <2>1. contact \in Contacts
    BY <1>1, <1>3
  <2> QED
    BY <2>1 DEF Contacts
<1>5. ~Candidate(c, contact) => Dealt(q, q.i) \/ Rewriting(contact.key)
  <2>1. contact.key \in q.listed => q.file \in cache[contact.key] \/ Rewriting(contact.key)
    BY <1>2 DEF Searched
  <2> QED
    BY <2>1 DEF Candidate, Dealt
<1>6. CASE Ends(c)
  BY <1>1, <1>6, EndsStep
<1> DEFINE seen == {k \in {contact.key} : Rewriting(k)}
<1>7. \/ /\ ~Candidate(c, contact)
         /\ cmd' = [cmd EXCEPT ![c].i = q.i + 1, ![c].torn = @ \union seen]
      \/ Ends(c)
      \/ /\ Candidate(c, contact)
         /\ cmd' = [cmd EXCEPT ![c].i = q.i + 1, ![c].tried = @ \union {contact.key}]
  BY DEF Search, NextContact
<1>8. q.i \in 1..Len(q.book) /\ Len(q.book) \in Nat /\ q.i + 1 \in 0..(MaxBook + 1)
  BY SMTT(30), <1>1, <1>2, <1>3, RelayAssumption
<1>9. ASSUME NEW r \in Requests, r.pc = q.pc, r.i = q.i + 1, r.book = q.book, r.key = q.key,
             r.file = q.file, r.listed = q.listed, q.tried \subseteq r.tried,
             q.torn \subseteq r.torn, Dealt(r, q.i)
      PROVE  Searched(r) /\ Len(r.book) <= MaxBook
  <2>1. \A j \in DOMAIN r.book : j < r.i => j < q.i \/ j = q.i
    BY <1>3, <1>8, <1>9
  <2>2. \A j \in DOMAIN r.book : Dealt(q, j) => Dealt(r, j)
    BY <1>9 DEF Dealt
  <2>3. \A j \in DOMAIN q.book : j < q.i => Dealt(q, j)
    BY <1>1, <1>2 DEF Searched
  <2>4. r.i >= 1 /\ r.i <= Len(r.book) + 1
    BY <1>8, <1>9
  <2>5. \A k \in r.listed : r.file \in cache[k] \/ Rewriting(k)
    BY <1>2, <1>9 DEF Searched
  <2> QED
    BY <1>1, <1>2, <1>9, <2>1, <2>2, <2>3, <2>4, <2>5 DEF Searched
<1>10. CASE /\ ~Candidate(c, contact)
            /\ cmd' = [cmd EXCEPT ![c].i = q.i + 1, ![c].torn = @ \union seen]
  <2> DEFINE n == q.i + 1
             torn == q.torn \union seen
             r == [q EXCEPT !.i = n, !.torn = torn]
  <2>1. cmd' = [cmd EXCEPT ![c] = r]
    BY <1>10, Zenon
  <2>2. n \in 0..(MaxBook + 1)
    BY <1>8
  <2>3. torn \subseteq Key /\ q.torn \subseteq torn /\ (Dealt(q, q.i) \/ q.book[q.i].key \in torn)
    BY <1>3, <1>4, <1>5, <1>10
  <2> HIDE DEF q, n, torn
  <2>4. [q EXCEPT !.i = n] \in Requests
    BY <1>2, <2>2, RequestSet
  <2>5. r \in Requests
    BY <2>3, <2>4, RequestSet
  <2>6. r.pc = q.pc /\ r.i = n /\ r.book = q.book /\ r.key = q.key /\ r.file = q.file
        /\ r.listed = q.listed /\ r.tried = q.tried /\ r.torn = torn
    BY <1>2, Zenon DEF Requests
  <2> HIDE DEF r
  <2>7. Dealt(r, q.i)
    BY <2>3, <2>6 DEF Dealt
  <2>8. Searched(r) /\ Len(r.book) <= MaxBook
    BY <1>9, <2>3, <2>5, <2>6, <2>7 DEF n
  <2> QED
    BY <1>1, <2>1, <2>5, <2>8, CmdChanges
<1>11. CASE /\ Candidate(c, contact)
            /\ cmd' = [cmd EXCEPT ![c].i = q.i + 1, ![c].tried = @ \union {contact.key}]
  <2> DEFINE n == q.i + 1
             tried == q.tried \union {contact.key}
             r == [q EXCEPT !.i = n, !.tried = tried]
  <2>1. cmd' = [cmd EXCEPT ![c] = r]
    BY <1>11, Zenon
  <2>2. n \in 0..(MaxBook + 1)
    BY <1>8
  <2>3. tried \subseteq Key /\ q.book[q.i].key \in tried /\ q.tried \subseteq tried
    BY <1>3, <1>4, <1>11
  <2> HIDE DEF q, n, tried
  <2>4. [q EXCEPT !.i = n] \in Requests
    BY <1>2, <2>2, RequestSet
  <2>5. r \in Requests
    BY <2>3, <2>4, RequestSet
  <2>6. r.pc = q.pc /\ r.i = n /\ r.book = q.book /\ r.key = q.key /\ r.file = q.file
        /\ r.listed = q.listed /\ r.tried = tried /\ r.torn = q.torn
    BY <1>2, Zenon DEF Requests
  <2> HIDE DEF r
  <2>7. Dealt(r, q.i)
    BY <2>3, <2>6 DEF Dealt
  <2>8. Searched(r) /\ Len(r.book) <= MaxBook
    BY <1>9, <2>3, <2>5, <2>6, <2>7 DEF n
  <2> QED
    BY <1>1, <2>1, <2>5, <2>8, CmdChanges
<1> QED
  BY <1>6, <1>7, <1>10, <1>11
LEMMA NotFoundStep ==
  ASSUME IInv, NEW c \in Request, NotFound(c)
  PROVE  IInv'
<1> DEFINE q == cmd[c]
           r == [q EXCEPT !.pc = "not found"]
<1>1. /\ UNCHANGED <<world, book, cache, answer>> /\ q.pc = "search" /\ q.i \notin DOMAIN q.book
      /\ cmd' = [cmd EXCEPT ![c] = r]
  <2>1. cmd' = [cmd EXCEPT ![c].pc = "not found"]
    BY DEF NotFound
  <2>2. cmd' = [cmd EXCEPT ![c] = r]
    BY <2>1, Zenon
  <2> QED
    BY <2>2 DEF NotFound
<1>2. q \in Requests /\ Len(q.book) <= MaxBook /\ Searched(q)
  BY RequestOf
<1> HIDE DEF q
<1>3. r \in Requests
  BY <1>2, RequestSet
<1>4. r.pc = "not found" /\ r.i = q.i /\ r.book = q.book /\ r.key = q.key /\ r.file = q.file
      /\ r.listed = q.listed /\ r.tried = q.tried /\ r.torn = q.torn
  BY <1>2, Zenon DEF Requests
<1> HIDE DEF r
<1>5. \A j \in DOMAIN r.book : Dealt(q, j) => Dealt(r, j)
  BY <1>4 DEF Dealt
<1>6. Searched(r) /\ Len(r.book) <= MaxBook
  BY <1>1, <1>2, <1>4, <1>5 DEF Searched
<1> QED
  BY <1>1, <1>3, <1>6, CmdChanges

LEMMA FinishStep ==
  ASSUME IInv, NEW c \in Request, Finish(c)
  PROVE  IInv'
  BY EndsStep DEF Finish

\* What a list-files does to the lists under a search: what the search still holds
\* for listed has the file, or is being rewritten.
LEMMA RelistedStep ==
  ASSUME IInv, ListsOK', Relisted, UNCHANGED <<world, book>>
  PROVE  IInv'
<1> DEFINE Kept(d) == {k \in cmd[d].listed : cmd[d].file \in cache'[k] \/ Rewriting(k)'}
<1>1. cmd' = [d \in Request |-> [cmd[d] EXCEPT !.listed = Kept(d)]]
  BY DEF Relisted
<1>2. ASSUME NEW d \in Request
      PROVE  cmd'[d] \in Requests /\ Len(cmd'[d].book) <= MaxBook /\ Searched(cmd[d])'
  <2> DEFINE q == cmd[d]
             listed == Kept(d)
             r == [q EXCEPT !.listed = listed]
  <2>1. q \in Requests /\ Len(q.book) <= MaxBook /\ Searched(q)
    BY RequestOf
  <2>2. listed \subseteq q.listed /\ \A k \in listed : q.file \in cache'[k] \/ Rewriting(k)'
    OBVIOUS
  <2>3. cmd'[d] = r
    BY <1>1, Zenon
  <2> HIDE DEF q, listed
  <2>4. q.listed \subseteq Key
    BY <2>1, RequestIs
  <2>5. r \in Requests
    BY <2>1, <2>2, <2>4, RequestSet
  <2>6. r.pc = q.pc /\ r.i = q.i /\ r.book = q.book /\ r.key = q.key /\ r.file = q.file
        /\ r.listed = listed /\ r.tried = q.tried /\ r.torn = q.torn
    BY <2>1, Zenon DEF Requests
  <2> HIDE DEF r
  <2>7. \A j \in DOMAIN r.book : Dealt(q, j) => Dealt(r, j)
    BY <2>2, <2>6 DEF Dealt
  <2>8. \A k \in r.listed : r.file \in cache'[k] \/ Rewriting(k)'
    BY <2>2, <2>6
  <2>9. /\ r.pc \in {"search", "not found"} =>
             r.i >= 1 /\ \A j \in DOMAIN r.book : j < r.i => Dealt(r, j)
        /\ r.pc = "not found" => r.i \notin DOMAIN r.book
        /\ r.pc = "search" => r.i <= Len(r.book) + 1
    BY <2>1, <2>6, <2>7 DEF Searched
  <2> QED
    BY <2>1, <2>3, <2>5, <2>6, <2>8, <2>9 DEF Searched, Dealt
<1>3. CmdOK' /\ SearchesOK'
  BY <1>1, <1>2 DEF CmdOK, SearchesOK
<1>4. PeersOK' /\ BookOK'
  BY SameTypes DEF IInv, Typed
<1>5. Present'
  BY SamePresent DEF IInv, world
<1> QED
  BY <1>3, <1>4, <1>5 DEF IInv, Typed

LEMMA WriteCacheStep ==
  ASSUME IInv, NEW a \in answer, WriteCache(a) \/ LoseAnswer(a)
  PROVE  IInv'
<1>1. ListsOK /\ a \in Lists
  BY DEF IInv, Typed, ListsOK
<1>2. a.key \in Key /\ a.files \subseteq FileId
  BY <1>1 DEF Lists
<1>3. ListsOK' /\ Relisted /\ UNCHANGED <<world, book>>
  BY <1>1, <1>2 DEF WriteCache, LoseAnswer, ListsOK
<1> QED
  BY <1>3, RelistedStep

\* list-files begins, or empties the cached list of a key: that is being rewritten.
LEMMA ListStep ==
  ASSUME IInv, ListFiles \/ \E a \in answer : OpenCache(a)
  PROVE  IInv'
<1>1. UNCHANGED <<world, book, cmd>>
  BY DEF ListFiles, OpenCache
<1>2. ListsOK /\ PeersOK /\ BookOK /\ SearchesOK /\ CmdOK
  BY DEF IInv, Typed
<1>3. /\ ListsOK'
      /\ \A k \in Key : Rewriting(k) => Rewriting(k)'
      /\ \A k \in Key : cache'[k] = cache[k] \/ Rewriting(k)'
  <2>1. CASE ListFiles
    <3>1. PICK i \in DOMAIN book : \E p \in At(book[i].at) :
            answer' = answer \union {[key |-> book[i].key, files |-> Listed(p), open |-> FALSE]}
      BY <2>1 DEF ListFiles
    <3>2. PICK p \in At(book[i].at) :
            answer' = answer \union {[key |-> book[i].key, files |-> Listed(p), open |-> FALSE]}
      BY <3>1
    <3>3. book[i] \in Contacts /\ serve[p] \in Served
      BY <1>2, <3>2 DEF BookOK, PeersOK, At
    <3> DEFINE k == book[i].key
               files == Listed(p)
    <3>4. k \in Key /\ files \subseteq FileId
      BY <3>3 DEF Contacts, Served, Listed
    <3> HIDE DEF k, files
    <3>5. [key |-> k, files |-> files, open |-> FALSE] \in Lists
      BY <3>4 DEF Lists
    <3>6. answer' \subseteq Lists /\ answer \subseteq answer' /\ UNCHANGED cache
      BY <1>2, <2>1, <3>2, <3>5 DEF ListsOK, ListFiles, k, files
    <3> QED
      BY <1>2, <3>6 DEF ListsOK, Rewriting
  <2>2. CASE \E a \in answer : OpenCache(a)
    <3>1. PICK a \in answer : OpenCache(a)
      BY <2>2
    <3> DEFINE new == [a EXCEPT !.open = TRUE]
    <3>2. a \in Lists
      BY <1>2 DEF ListsOK
    <3>3. new \in Lists /\ new.open /\ new.key = a.key /\ a.key \in Key
      BY <3>2 DEF Lists
    <3>4. /\ ~a.open /\ answer' = (answer \ {a}) \union {new}
          /\ cache' = [cache EXCEPT ![a.key] = {}]
      BY <3>1 DEF OpenCache
    <3> HIDE DEF new
    <3>5. ListsOK'
      BY <1>2, <3>2, <3>3, <3>4 DEF ListsOK
    <3>6. Rewriting(a.key)'
      BY <3>3, <3>4 DEF Rewriting
    <3> QED
      BY <1>2, <3>4, <3>5, <3>6 DEF ListsOK, Rewriting
  <2> QED
    BY <2>1, <2>2
<1>4. SearchesOK'
  <2>1. ASSUME NEW d \in Request PROVE Searched(cmd[d])'
    <3>1. cmd[d] \in Requests /\ Searched(cmd[d])
      BY RequestOf
    <3>2. cmd[d].listed \subseteq Key
      BY <3>1, RequestIs
    <3> QED
      BY <1>1, <1>3, <3>1, <3>2 DEF Searched, Dealt
  <2> QED
    BY <2>1 DEF SearchesOK
<1>5. PeersOK' /\ BookOK' /\ CmdOK'
  BY <1>1, SameTypes DEF IInv, Typed
<1>6. Present'
  BY <1>1, SamePresent DEF IInv, world
<1> QED
  BY <1>3, <1>4, <1>5, <1>6 DEF IInv, Typed

----------------------------------------------------------------------------
(* The theorems.                                                           *)

LEMMA InitHolds == Init => IInv
<1> SUFFICES ASSUME Init PROVE IInv
  OBVIOUS
<1>1. PeersOK
  BY RelayAssumption DEF Init, PeersOK, Key
<1>2. BookOK /\ Present
  BY RelayAssumption DEF Init, BookOK, Present, KeysIn
<1>3. ListsOK
  BY DEF Init, ListsOK
<1>4. CmdOK /\ SearchesOK
  <2>1. Len(NoRequest.book) <= MaxBook
    BY NoRequestIs, RelayAssumption
  <2>2. Searched(NoRequest)
    BY NoRequestIs
  <2> QED
    BY <2>1, <2>2, NoRequestIs DEF Init, CmdOK, SearchesOK
<1> QED
  BY <1>1, <1>2, <1>3, <1>4 DEF IInv, Typed

LEMMA Inductive == IInv /\ [Next]_vars => IInv'
<1> SUFFICES ASSUME IInv, [Next]_vars PROVE IInv'
  OBVIOUS
<1>1. ASSUME NEW p \in Peer,
             \/ Share(p) \/ Unshare(p) \/ StartServe(p) \/ StopServe(p)
             \/ AddContact(p) \/ Rotate(p)
      PROVE  IInv'
  BY <1>1, ShareStep, PeerStep, AddContactStep, RotateStep
<1>2. CASE ListFiles \/ \E a \in answer : OpenCache(a) \/ WriteCache(a) \/ LoseAnswer(a)
  BY <1>2, ListStep, WriteCacheStep
<1>3. ASSUME NEW c \in Request, RequestFile(c) \/ Step(c)
      PROVE  IInv'
  BY <1>3, RequestFileStep, AskOwnerStep, SearchStep, NotFoundStep, FinishStep DEF Step
<1>4. CASE UNCHANGED vars
  <2>1. UNCHANGED world /\ UNCHANGED <<identity, shared, owner, serve, book, cache, answer, cmd>>
    BY <1>4 DEF vars, world
  <2> QED
    BY <2>1, SameSearches, SamePresent, SameTypes DEF IInv, Typed
<1> QED
  BY <1>1, <1>2, <1>3, <1>4 DEF Next

\* The inductive invariant holds throughout.
THEOREM Invariant == Spec => []IInv
  BY InitHolds, Inductive, PTL DEF Spec

\* The type invariant; the user has one contact of each key (KeyRotation's notice,
\* Client.add_contact).
THEOREM TypeCorrect == Spec => []TypeOK
<1>1. IInv => TypeOK
  BY TypesFollow DEF IInv
<1> QED
  BY <1>1, Invariant, PTL

\* A search that gives up has asked every contact that it might have asked, but for
\* those whose cached list was being rewritten when it read it
\* (Client._proxy_download, _read_cache, _write_cache).
THEOREM SearchesAreComplete == Spec => []SearchIsComplete
  BY Invariant, CompletenessFollows, PTL
=============================================================================
