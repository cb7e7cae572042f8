------------------------- MODULE KeyRotation_proofs -------------------------
(***************************************************************************)
(* For any number of peers, identities, commands and restarts: tables are  *)
(* dictionaries, nobody knows a key that its peer has not saved, and       *)
(* nobody takes a peer's present key for revoked.                          *)
(***************************************************************************)
EXTENDS KeyRotation, TLAPS

\* A table nobody needs to be ashamed of when the peers' keys are K.
Sound(table, K) ==
  /\ IsTable(table)
  /\ \A i \in DOMAIN table :
       /\ table[i].key <= K[table[i].peer]
       /\ table[i].revoked => table[i].key < K[table[i].peer]

\* Keys only grow, and a sound table stays sound when they do.
LEMMA SoundStays ==
  ASSUME NEW K \in [Peer -> Nat], NEW L \in [Peer -> Nat], \A p \in Peer : K[p] <= L[p],
         NEW table, Sound(table, K)
  PROVE  Sound(table, L)
<1> SUFFICES ASSUME NEW i \in DOMAIN table
             PROVE  /\ table[i].key <= L[table[i].peer]
                    /\ table[i].revoked => table[i].key < L[table[i].peer]
  BY DEF Sound
<1>1. table[i] \in Record
  BY DEF Sound, IsTable
<1>2. table[i].peer \in Peer /\ table[i].key \in Nat
  BY <1>1 DEF Record
<1>3. K[table[i].peer] \in Nat /\ L[table[i].peer] \in Nat /\ K[table[i].peer] <= L[table[i].peer]
  BY <1>2
<1> QED
  BY <1>2, <1>3 DEF Sound

\* Records replaced one by one under their own keys leave a table.
LEMMA ReplaceRecords ==
  ASSUME NEW table, IsTable(table), NEW new \in Seq(Record),
         DOMAIN new = DOMAIN table,
         \A i \in DOMAIN table : IsOf(new[i], table[i].peer, table[i].key)
  PROVE  IsTable(new)
  BY DEF IsTable, IsOf

LEMMA AppendRecord ==
  ASSUME NEW K \in [Peer -> Nat], NEW table, Sound(table, K), NEW rec \in Record,
         ~Has(table, rec.peer, rec.key), rec.key <= K[rec.peer], ~rec.revoked
  PROVE  Sound(Append(table, rec), K)
<1> DEFINE new == Append(table, rec)
<1>1. table \in Seq(Record) /\ new \in Seq(Record)
  BY DEF Sound, IsTable
<1>2. /\ DOMAIN table = 1..Len(table) /\ DOMAIN new = 1..(Len(table) + 1)
      /\ Len(table) \in Nat
      /\ \A i \in 1..Len(table) : new[i] = table[i]
      /\ new[Len(table) + 1] = rec
  BY <1>1
<1>3. IsTable(new)
  <2> SUFFICES ASSUME NEW i \in DOMAIN new, NEW j \in DOMAIN new,
                      IsOf(new[j], new[i].peer, new[i].key)
               PROVE  i = j
    BY <1>1 DEF IsTable
  <2>1. CASE i \in DOMAIN table /\ j \in DOMAIN table
    BY <2>1, <1>2 DEF Sound, IsTable
  <2>2. CASE i \in DOMAIN table /\ j = Len(table) + 1
    BY <2>2, <1>2 DEF Has, IsOf
  <2>3. CASE i = Len(table) + 1 /\ j \in DOMAIN table
    BY <2>3, <1>2 DEF Has, IsOf
  <2> QED
    BY <1>2, <2>1, <2>2, <2>3
<1>4. \A i \in DOMAIN new :
        /\ new[i].key <= K[new[i].peer]
        /\ new[i].revoked => new[i].key < K[new[i].peer]
  BY <1>2 DEF Sound
<1> QED
  BY <1>3, <1>4 DEF Sound

LEMMA FreshRecord ==
  ASSUME NEW p \in Peer, NEW k \in Nat, NEW open \in BOOLEAN
  PROVE  /\ Fresh(p, k, open) \in Record /\ ~Fresh(p, k, open).revoked
         /\ Fresh(p, k, open).peer = p /\ Fresh(p, k, open).key = k
  BY DEF Fresh, Record

\* ContactStore.add of a key the peer has saved.
LEMMA PutSound ==
  ASSUME NEW K \in [Peer -> Nat], NEW table, Sound(table, K),
         NEW p \in Peer, NEW k \in Nat, k <= K[p], NEW open \in BOOLEAN
  PROVE  Sound(Put(table, Fresh(p, k, open)), K)
<1> DEFINE rec == Fresh(p, k, open)
           new == [i \in DOMAIN table |-> IF IsOf(table[i], p, k) THEN rec ELSE table[i]]
<1>1. rec \in Record /\ ~rec.revoked /\ rec.peer = p /\ rec.key = k
  BY FreshRecord
<1>2. CASE ~Has(table, p, k)
  BY <1>1, <1>2, AppendRecord DEF Put
<1>3. CASE Has(table, p, k)
  <2>1. new \in Seq(Record) /\ DOMAIN new = DOMAIN table
    BY <1>1 DEF Sound, IsTable
  <2>2. \A i \in DOMAIN table : IsOf(new[i], table[i].peer, table[i].key)
    BY <1>1 DEF IsOf
  <2>3. IsTable(new)
    BY <2>1, <2>2, ReplaceRecords DEF Sound
  <2>4. \A i \in DOMAIN new : /\ new[i].key <= K[new[i].peer]
                              /\ new[i].revoked => new[i].key < K[new[i].peer]
    BY <1>1 DEF Sound
  <2>5. Put(table, rec) = new
    BY <1>1, <1>3 DEF Put
  <2> QED
    BY <2>3, <2>4, <2>5 DEF Sound
<1> QED
  BY <1>2, <1>3

\* An exchange of keys, at either end.
LEMMA MetSound ==
  ASSUME NEW K \in [Peer -> Nat], NEW table, Sound(table, K),
         NEW p \in Peer, NEW k \in Nat, k <= K[p], NEW open \in BOOLEAN
  PROVE  Sound(Met(table, p, k, open), K)
<1> DEFINE new == [i \in DOMAIN table |->
                     IF IsOf(table[i], p, k) THEN Readdressed(table[i], open) ELSE table[i]]
<1>1. CASE ~Has(table, p, k)
  BY <1>1, FreshRecord, AppendRecord DEF Met
<1>2. CASE Has(table, p, k)
  <2>1. table \in Seq(Record) /\ \A i \in DOMAIN table : table[i] \in Record
    BY DEF Sound, IsTable
  <2>2. \A i \in DOMAIN table :
          /\ new[i] \in Record
          /\ new[i].peer = table[i].peer /\ new[i].key = table[i].key
          /\ new[i].revoked = table[i].revoked
    BY <2>1 DEF Readdressed, Record
  <2>3. new \in Seq(Record) /\ DOMAIN new = DOMAIN table
    BY <2>1, <2>2
  <2>4. IsTable(new)
    BY <2>2, <2>3, ReplaceRecords DEF Sound, IsOf
  <2>5. Met(table, p, k, open) = new
    BY <1>2 DEF Met
  <2> QED
    BY <2>2, <2>3, <2>4, <2>5 DEF Sound
<1> QED
  BY <1>1, <1>2

\* mark_revoked of a key that is not the peer's present one.
LEMMA RevokedSound ==
  ASSUME NEW K \in [Peer -> Nat], NEW table, Sound(table, K),
         NEW p \in Peer, NEW k \in Nat, k < K[p], NEW succ \in Nat
  PROVE  Sound(MarkRevoked(table, p, k, succ), K)
<1> DEFINE new == [i \in DOMAIN table |->
                     IF IsOf(table[i], p, k)
                     THEN [table[i] EXCEPT !.revoked = TRUE, !.succ = succ] ELSE table[i]]
<1>1. table \in Seq(Record) /\ \A i \in DOMAIN table : table[i] \in Record
  BY DEF Sound, IsTable
<1>2. \A i \in DOMAIN table :
        /\ new[i] \in Record
        /\ new[i].peer = table[i].peer /\ new[i].key = table[i].key
        /\ new[i].revoked => table[i].revoked \/ IsOf(table[i], p, k)
  BY <1>1 DEF Record
<1>3. new \in Seq(Record) /\ DOMAIN new = DOMAIN table
  <2>1. DOMAIN new = 1..Len(table) /\ DOMAIN table = 1..Len(table) /\ Len(table) \in Nat
    BY <1>1
  <2> HIDE DEF new
  <2>2. \A i \in 1..Len(table) : new[i] \in Record
    BY <1>2, <2>1
  <2>3. new = [i \in 1..Len(table) |-> new[i]]
    BY <2>1 DEF new
  <2> QED
    BY <2>1, <2>2, <2>3
<1>4. IsTable(new)
  BY <1>2, <1>3, ReplaceRecords DEF Sound, IsOf
<1>5. \A i \in DOMAIN new : /\ new[i].key <= K[new[i].peer]
                            /\ new[i].revoked => new[i].key < K[new[i].peer]
  BY <1>2, <1>3 DEF Sound, IsOf
<1> QED
  BY <1>4, <1>5 DEF Sound, MarkRevoked

----------------------------------------------------------------------------
(***************************************************************************)
(* The inductive invariant.  What reaches a table came from a command or a *)
(* connection, so these carry the bounds too: a command in its loop of     *)
(* notices has an older identity than the one on disk, one that waits for  *)
(* its user still has the one on disk, and a notice names a key that has   *)
(* been replaced.                                                          *)
(***************************************************************************)
Command == [pc : {"idle", "await_accept", "confirm", "notify", "await_reply"},
            key : Nat, table : Seq(Record), next : Nat]
Conn == [from : Peer, run : Nat, next : Nat, to : Peer, kind : {"contact", "notice"},
         key : Nat, open : BOOLEAN, stage : {"arrived", "revoked", "accept", "error"},
         answer : Nat]

CountersOK == runs \in [Peer -> Nat] /\ boots \in [Peer -> Nat]
KeysOK == key \in [Peer -> Nat]
DisksOK == disk \in [Peer -> Seq(Record)] /\ \A p \in Peer : Sound(disk[p], key)

ServeOK(p) ==
  Running(p) =>
    /\ serve[p] \in [key : Nat, table : Seq(Record)]
    /\ serve[p].key <= key[p] /\ Sound(serve[p].table, key)
ServesOK == DOMAIN serve = Peer /\ serve = [p \in Peer |-> serve[p]] /\ \A p \in Peer : ServeOK(p)

CmdOK(p) ==
  /\ Sound(cmd[p].table, key) /\ cmd[p].key <= key[p]
  /\ cmd[p].pc \in {"notify", "await_reply"} => cmd[p].key < key[p]
  /\ cmd[p].pc = "confirm" => cmd[p].key = key[p]
CmdsOK == cmd \in [Peer -> Command] /\ \A p \in Peer : CmdOK(p)

ConnOK(c) ==
  /\ c \in Conn
  /\ Answered(c) \/ Running(c.to)
  /\ c.key <= key[c.from] /\ c.answer <= key[c.to]
  /\ c.kind = "notice" => c.key < key[c.from]
  /\ c.stage = "revoked" => c.kind = "notice"
ConnsOK == \A c \in conns : ConnOK(c)

Inv == CountersOK /\ KeysOK /\ DisksOK /\ ServesOK /\ CmdsOK /\ ConnsOK

LEMMA EmptyTable ==
  ASSUME NEW K \in [Peer -> Nat]
  PROVE  <<>> \in Seq(Record) /\ Sound(<<>>, K)
BY DEF Sound, IsTable

LEMMA InitInv == Init => Inv
<1> SUFFICES ASSUME Init PROVE Inv
  OBVIOUS
<1>1. KeysOK /\ CountersOK
  BY DEF Init, KeysOK, CountersOK
<1>2. <<>> \in Seq(Record) /\ Sound(<<>>, key)
  BY <1>1, EmptyTable DEF KeysOK
<1>3. DisksOK
  BY <1>2 DEF Init, DisksOK
<1>4. ServesOK
  BY DEF Init, ServesOK, ServeOK, Running
<1>5. NoCommand \in Command /\ NoCommand.table = <<>> /\ NoCommand.key = 0 /\ NoCommand.pc = "idle"
  BY <1>2 DEF NoCommand, Command
<1>6. CmdsOK
  BY <1>1, <1>2, <1>5 DEF Init, CmdsOK, CmdOK, KeysOK
<1>7. ConnsOK
  BY DEF Init, ConnsOK
<1> QED
  BY <1>1, <1>3, <1>4, <1>6, <1>7 DEF Inv

----------------------------------------------------------------------------
(* What the parts of an action preserve.                                   *)

\* A command that ends.
LEMMA CommandEnds ==
  ASSUME Inv, NEW p \in Peer, cmd' = [cmd EXCEPT ![p] = NoCommand], key' = key
  PROVE  CmdsOK'
<1>1. <<>> \in Seq(Record) /\ Sound(<<>>, key) /\ key[p] \in Nat
  BY EmptyTable DEF Inv, KeysOK
<1>2. NoCommand \in Command /\ NoCommand.table = <<>> /\ NoCommand.key = 0 /\ NoCommand.pc = "idle"
  BY <1>1 DEF NoCommand, Command
<1>3. cmd' \in [Peer -> Command]
  BY <1>2 DEF Inv, CmdsOK
<1>4. ASSUME NEW q \in Peer PROVE CmdOK(q)'
  BY <1>1, <1>2 DEF Inv, CmdsOK, CmdOK
<1> QED
  BY <1>3, <1>4 DEF CmdsOK

\* A command that goes on with the same identity and table.
LEMMA CommandGoesOn ==
  ASSUME Inv, NEW p \in Peer, NEW pc \in {"notify", "await_reply"}, NEW next \in Nat,
         cmd[p].pc \in {"notify", "await_reply"},
         cmd' = [cmd EXCEPT ![p].pc = pc, ![p].next = next], key' = key
  PROVE  CmdsOK'
<1>1. cmd[p] \in Command
  BY DEF Inv, CmdsOK
<1>2. /\ cmd'[p] \in Command /\ cmd'[p].table = cmd[p].table
      /\ cmd'[p].key = cmd[p].key /\ cmd'[p].pc = pc
      /\ \A q \in Peer \ {p} : cmd'[q] = cmd[q]
  BY <1>1 DEF Inv, CmdsOK, Command
<1>3. cmd' \in [Peer -> Command]
  BY <1>2 DEF Inv, CmdsOK
<1>4. ASSUME NEW q \in Peer PROVE CmdOK(q)'
  BY <1>2 DEF Inv, CmdsOK, CmdOK
<1> QED
  BY <1>3, <1>4 DEF CmdsOK

\* A handler of q that saves a sound table.
LEMMA ServeSavesOK ==
  ASSUME Inv, NEW q \in Peer, Running(q), NEW table, Sound(table, key), ServeSaves(q, table)
  PROVE  /\ KeysOK' /\ DisksOK' /\ ServesOK' /\ key' = key
         /\ \A p \in Peer : Running(p) => Running(p)'
<1>1. key' = key /\ table \in Seq(Record)
  BY DEF ServeSaves, Sound, IsTable
<1>2. DisksOK'
  BY <1>1 DEF ServeSaves, Inv, DisksOK
<1>3. /\ serve[q] \in [key : Nat, table : Seq(Record)] /\ serve[q].key <= key[q]
      /\ serve' = [p \in Peer |-> serve'[p]] /\ DOMAIN serve' = Peer
      /\ serve'[q] = [serve[q] EXCEPT !.table = table]
      /\ \A p \in Peer \ {q} : serve'[p] = serve[p]
  BY DEF ServeSaves, Inv, ServesOK, ServeOK
<1>4. /\ serve'[q] \in [key : Nat, table : Seq(Record)]
      /\ serve'[q].key = serve[q].key /\ serve'[q].table = table
  BY <1>1, <1>3
<1>5. \A p \in Peer : ServeOK(p)'
  BY <1>1, <1>3, <1>4 DEF Inv, ServesOK, ServeOK, Running
<1>6. \A p \in Peer : Running(p) => Running(p)'
  BY <1>3, <1>4, NoneIsNoServe DEF Running
<1> QED
  BY <1>1, <1>2, <1>3, <1>5, <1>6 DEF ServesOK, Inv, KeysOK

\* A reply that is sent, or is lost.
LEMMA AnswerOK ==
  ASSUME Inv, NEW c \in conns, Running(c.to), NEW stage \in {"accept", "error"},
         Answer(c, stage), key' = key, \A p \in Peer : Running(p) => Running(p)'
  PROVE  ConnsOK'
<1>1. c \in Conn /\ c.to \in Peer /\ c.from \in Peer
  BY DEF Inv, ConnsOK, ConnOK, Conn
<1>2. serve[c.to].key \in Nat /\ serve[c.to].key <= key[c.to]
  BY <1>1 DEF Inv, ServesOK, ServeOK
<1> DEFINE d == [c EXCEPT !.stage = stage, !.answer = serve[c.to].key]
<1>3. /\ d \in Conn /\ d.stage = stage /\ d.answer = serve[c.to].key /\ d.to = c.to
      /\ d.from = c.from /\ d.key = c.key /\ d.kind = c.kind
  BY <1>1, <1>2 DEF Conn
<1>4. conns' \subseteq conns \union {d}
  BY DEF Answer
<1>5. ASSUME NEW e \in conns' PROVE ConnOK(e)'
  <2>1. CASE e \in conns
    BY <2>1 DEF Inv, ConnsOK, ConnOK, Answered, Conn
  <2>2. CASE e = d
    BY <2>2, <1>2, <1>3 DEF Inv, ConnsOK, ConnOK, Answered
  <2> QED
    BY <1>4, <2>1, <2>2
<1> QED
  BY <1>5 DEF ConnsOK

\* Connections that go, or stay as they are.
LEMMA ConnsKept ==
  ASSUME Inv, conns' \subseteq conns, key' = key,
         \A c \in conns' : Running(c.to) => Running(c.to)' \/ Answered(c)
  PROVE  ConnsOK'
BY DEF Inv, ConnsOK, ConnOK, Answered

\* A command that connects.
LEMMA ConnectOK ==
  ASSUME Inv, NEW p \in Peer, NEW q \in Peer, Running(q), NEW kind \in {"contact", "notice"},
         NEW open \in BOOLEAN, CmdsOK', CountersOK', key' = key, serve' = serve,
         kind = "notice" => cmd'[p].pc = "await_reply",
         conns' = conns \union {Connection(p, q, kind, open)}
  PROVE  ConnsOK'
<1> DEFINE d == Connection(p, q, kind, open)
<1>1. cmd'[p].key \in Nat /\ cmd'[p].next \in Nat /\ runs'[p] \in Nat
  BY DEF CmdsOK, CountersOK, Command
<1>2. /\ d \in Conn /\ d.from = p /\ d.to = q /\ d.key = cmd'[p].key /\ d.kind = kind
      /\ d.stage = "arrived" /\ d.answer = 0
  BY <1>1 DEF Connection, Conn
<1>3. key[q] \in Nat /\ cmd'[p].key <= key[p] /\ (kind = "notice" => cmd'[p].key < key[p])
  BY DEF Inv, KeysOK, CmdsOK, CmdOK
<1>4. ASSUME NEW c \in conns' PROVE ConnOK(c)'
  <2>1. CASE c \in conns
    BY <2>1 DEF Inv, ConnsOK, ConnOK, Running, Answered
  <2>2. CASE c = d
    BY <2>2, <1>2, <1>3 DEF ConnOK, Running, Answered
  <2> QED
    BY <2>1, <2>2
<1> QED
  BY <1>4 DEF ConnsOK

----------------------------------------------------------------------------
(* The actions.                                                            *)

\* Disks and `serve` processes that nobody touches.
LEMMA StoresKept ==
  ASSUME Inv, UNCHANGED stores
  PROVE  KeysOK' /\ DisksOK' /\ ServesOK'
BY DEF Inv, stores, KeysOK, DisksOK, ServesOK, ServeOK, Running

LEMMA AddContactInv ==
  ASSUME Inv, NEW p \in Peer, NEW q \in Peer, AddContact(p, q)
  PROVE  Inv'
<1> DEFINE new == [pc |-> "await_accept", key |-> key[p], table |-> disk[p], next |-> 0]
<1>1. /\ Running(q) /\ UNCHANGED stores /\ boots' = boots
      /\ runs' = [runs EXCEPT ![p] = @ + 1] /\ cmd' = [cmd EXCEPT ![p] = new]
  BY DEF AddContact
<1>2. /\ new \in Command /\ new.table = disk[p] /\ new.key = key[p]
      /\ new.pc = "await_accept" /\ Sound(disk[p], key) /\ key[p] \in Nat
  BY DEF Command, Inv, KeysOK, DisksOK
<1>3. CountersOK'
  BY <1>1 DEF Inv, CountersOK
<1>4. KeysOK' /\ DisksOK' /\ ServesOK' /\ key' = key /\ serve' = serve
  BY <1>1, StoresKept DEF stores
<1>5. CmdsOK'
  <2>1. cmd' \in [Peer -> Command]
    BY <1>1, <1>2 DEF Inv, CmdsOK
  <2>2. ASSUME NEW r \in Peer PROVE CmdOK(r)'
    BY <1>1, <1>2, <1>4 DEF Inv, CmdsOK, CmdOK
  <2> QED
    BY <2>1, <2>2 DEF CmdsOK
<1>6. PICK open \in BOOLEAN : conns' = conns \union {Connection(p, q, "contact", open)}
  BY DEF AddContact
<1>7. ConnsOK'
  BY <1>1, <1>3, <1>4, <1>5, <1>6, ConnectOK
<1> QED
  BY <1>3, <1>4, <1>5, <1>7 DEF Inv

LEMMA HandleContactRequestInv ==
  ASSUME Inv, NEW c \in conns, HandleContactRequest(c)
  PROVE  Inv'
<1>1. /\ c \in Conn /\ c.stage = "arrived" /\ Running(c.to)
      /\ c.to \in Peer /\ c.from \in Peer /\ c.key \in Nat /\ c.open \in BOOLEAN
      /\ c.key <= key[c.from]
  BY DEF HandleContactRequest, Inv, ConnsOK, ConnOK, Answered, Conn
<1> DEFINE table == Met(serve[c.to].table, c.from, c.key, c.open)
<1>2. Sound(table, key)
  BY <1>1, MetSound DEF Inv, ServesOK, ServeOK, KeysOK
<1>3. ServeSaves(c.to, table) /\ Answer(c, "accept") /\ UNCHANGED <<cmd, counters>>
  BY DEF HandleContactRequest
<1> HIDE DEF table
<1>4. /\ KeysOK' /\ DisksOK' /\ ServesOK' /\ key' = key
      /\ \A p \in Peer : Running(p) => Running(p)'
  BY <1>1, <1>2, <1>3, ServeSavesOK
<1>5. ConnsOK'
  BY <1>1, <1>3, <1>4, AnswerOK
<1>6. CmdsOK' /\ CountersOK'
  BY <1>3, <1>4 DEF Inv, CmdsOK, CmdOK, CountersOK, counters
<1> QED
  BY <1>4, <1>5, <1>6 DEF Inv

LEMMA ReceiveAcceptInv ==
  ASSUME Inv, NEW p \in Peer, ReceiveAccept(p)
  PROVE  Inv'
<1>1. PICK c \in conns : disk' = [disk EXCEPT ![p] = Met(cmd[p].table, c.to, c.answer, TRUE)]
  BY DEF ReceiveAccept
<1>2. /\ cmd' = [cmd EXCEPT ![p] = NoCommand] /\ conns' = conns \ Unheard(p)
      /\ UNCHANGED <<key, serve, counters>>
  BY DEF ReceiveAccept
<1>3. c.to \in Peer /\ c.answer \in Nat /\ c.answer <= key[c.to]
  BY DEF Inv, ConnsOK, ConnOK, Conn
<1> DEFINE table == Met(cmd[p].table, c.to, c.answer, TRUE)
<1>4. Sound(table, key)
  BY <1>3, MetSound DEF Inv, CmdsOK, CmdOK, KeysOK
<1>5. table \in Seq(Record)
  BY <1>4 DEF Sound, IsTable
<1>6. DisksOK'
  <2>1. disk' = [disk EXCEPT ![p] = table]
    BY <1>1
  <2> HIDE DEF table
  <2> QED
    BY <2>1, <1>2, <1>4, <1>5 DEF Inv, DisksOK
<1>7. KeysOK' /\ ServesOK' /\ CountersOK'
  BY <1>2 DEF Inv, KeysOK, ServesOK, ServeOK, Running, CountersOK, counters
<1>8. CmdsOK'
  BY <1>2, CommandEnds
<1>9. ConnsOK'
  BY <1>2, ConnsKept DEF Running
<1> QED
  BY <1>6, <1>7, <1>8, <1>9 DEF Inv

LEMMA RotateKeyInv ==
  ASSUME Inv, NEW p \in Peer, RotateKey(p)
  PROVE  Inv'
<1> DEFINE new == [pc |-> "confirm", key |-> key[p], table |-> disk[p], next |-> 0]
<1>1. /\ UNCHANGED stores /\ boots' = boots /\ conns' = conns
      /\ runs' = [runs EXCEPT ![p] = @ + 1] /\ cmd' = [cmd EXCEPT ![p] = new]
  BY DEF RotateKey
<1>2. /\ new \in Command /\ new.table = disk[p] /\ new.key = key[p]
      /\ new.pc = "confirm" /\ Sound(disk[p], key) /\ key[p] \in Nat
  BY DEF Command, Inv, KeysOK, DisksOK
<1>3. CountersOK'
  BY <1>1 DEF Inv, CountersOK
<1>4. KeysOK' /\ DisksOK' /\ ServesOK' /\ key' = key /\ serve' = serve
  BY <1>1, StoresKept DEF stores
<1>5. CmdsOK'
  <2>1. cmd' \in [Peer -> Command]
    BY <1>1, <1>2 DEF Inv, CmdsOK
  <2>2. ASSUME NEW r \in Peer PROVE CmdOK(r)'
    BY <1>1, <1>2, <1>4 DEF Inv, CmdsOK, CmdOK
  <2> QED
    BY <2>1, <2>2 DEF CmdsOK
<1>6. ConnsOK'
  BY <1>1, <1>4, ConnsKept DEF Running
<1> QED
  BY <1>3, <1>4, <1>5, <1>6 DEF Inv

\* The one step on which a key changes: it grows, and the command's own table,
\* like all others, is sound for the new keys as well.
LEMMA SaveIdentityInv ==
  ASSUME Inv, NEW p \in Peer, SaveIdentity(p)
  PROVE  Inv'
<1>1. /\ cmd[p].pc = "confirm" /\ key' = [key EXCEPT ![p] = cmd[p].key + 1]
      /\ cmd' = [cmd EXCEPT ![p].pc = "notify", ![p].next = 1]
      /\ UNCHANGED <<disk, serve, conns, counters>>
  BY DEF SaveIdentity, NewIdentity
<1>2. cmd[p] \in Command /\ cmd[p].key = key[p] /\ key \in [Peer -> Nat] /\ cmd[p].key \in Nat
  BY <1>1 DEF Inv, KeysOK, CmdsOK, CmdOK, Command
<1>3. key' \in [Peer -> Nat] /\ key'[p] = key[p] + 1 /\ \A q \in Peer : key[q] <= key'[q]
  BY <1>1, <1>2
<1>4. KeysOK' /\ CountersOK'
  BY <1>1, <1>3 DEF KeysOK, Inv, CountersOK, counters
<1>5. DisksOK'
  BY <1>1, <1>2, <1>3, SoundStays DEF Inv, DisksOK
<1>6. ServesOK'
  <2> SUFFICES ASSUME NEW q \in Peer, Running(q) PROVE ServeOK(q)'
    BY <1>1 DEF Inv, ServesOK, ServeOK, Running
  <2>1. /\ serve[q] \in [key : Nat, table : Seq(Record)]
        /\ serve[q].key <= key[q] /\ Sound(serve[q].table, key)
    BY DEF Inv, ServesOK, ServeOK
  <2>2. Sound(serve[q].table, key')
    BY <2>1, <1>2, <1>3, SoundStays
  <2>3. serve[q].key <= key'[q]
    BY <2>1, <1>2, <1>3
  <2> QED
    BY <2>1, <2>2, <2>3, <1>1 DEF ServeOK, Running
<1>7. CmdsOK'
  <2>1. /\ cmd'[p] \in Command /\ cmd'[p].table = cmd[p].table
        /\ cmd'[p].key = cmd[p].key /\ cmd'[p].pc = "notify"
        /\ \A q \in Peer \ {p} : cmd'[q] = cmd[q] /\ key'[q] = key[q]
    BY <1>1, <1>2 DEF Inv, CmdsOK, Command
  <2>2. cmd' \in [Peer -> Command]
    BY <1>1, <2>1 DEF Inv, CmdsOK
  <2>3. ASSUME NEW q \in Peer PROVE CmdOK(q)'
    <3>1. Sound(cmd[q].table, key')
      BY <1>2, <1>3, SoundStays DEF Inv, CmdsOK, CmdOK
    <3>2. Sound(cmd'[q].table, key')
      BY <3>1, <2>1
    <3>3. CASE q = p
      BY <3>2, <3>3, <2>1, <1>2, <1>3 DEF CmdOK
    <3>4. CASE q # p
      BY <3>2, <3>4, <2>1 DEF CmdOK, Inv, CmdsOK
    <3> QED
      BY <3>3, <3>4
  <2> QED
    BY <2>2, <2>3 DEF CmdsOK
<1>8. ConnsOK'
  <2> SUFFICES ASSUME NEW c \in conns PROVE ConnOK(c)'
    BY <1>1 DEF ConnsOK
  <2>1. ConnOK(c) /\ c.from \in Peer /\ c.to \in Peer /\ c.key \in Nat /\ c.answer \in Nat
    BY DEF Inv, ConnsOK, ConnOK, Conn
  <2>2. /\ key[c.from] \in Nat /\ key'[c.from] \in Nat /\ key[c.from] <= key'[c.from]
        /\ key[c.to] \in Nat /\ key'[c.to] \in Nat /\ key[c.to] <= key'[c.to]
    BY <2>1, <1>2, <1>3
  <2> QED
    BY <2>1, <2>2, <1>1 DEF ConnOK, Answered, Running
<1> QED
  BY <1>4, <1>5, <1>6, <1>7, <1>8 DEF Inv

LEMMA NotifyInv ==
  ASSUME Inv, NEW p \in Peer, Notify(p)
  PROVE  Inv'
<1> DEFINE contact == cmd[p].table[cmd[p].next]
           reachable == contact.open /\ Running(contact.peer)
<1>1. cmd[p].pc = "notify" /\ cmd[p].next \in DOMAIN cmd[p].table
  BY DEF Notify
<1>2. KeysOK' /\ DisksOK' /\ ServesOK' /\ CountersOK' /\ key' = key /\ serve' = serve
  BY StoresKept DEF Notify, Inv, CountersOK, counters, stores
<1>3. /\ cmd[p] \in Command /\ cmd[p].next \in Nat /\ cmd[p].next + 1 \in Nat
      /\ contact \in Record
  BY <1>1 DEF Inv, CmdsOK, Command
<1>4. CASE /\ contact.revoked \/ ~reachable
           /\ cmd' = [cmd EXCEPT ![p].next = NextContact(@)]
           /\ UNCHANGED conns
  <2>1. cmd' = [cmd EXCEPT ![p].pc = "notify", ![p].next = cmd[p].next + 1]
    BY <1>1, <1>3, <1>4 DEF NextContact, Command, Inv, CmdsOK
  <2> HIDE DEF contact, reachable
  <2>2. CmdsOK'
    BY <1>1, <1>2, <1>3, <2>1, CommandGoesOn
  <2>3. ConnsOK'
    BY <1>2, <1>4, ConnsKept DEF Running
  <2> QED
    BY <1>2, <2>2, <2>3 DEF Inv
<1>5. CASE /\ ~contact.revoked /\ reachable
           /\ cmd' = [cmd EXCEPT ![p].pc = "await_reply"]
           /\ conns' = conns \union {Connection(p, contact.peer, "notice", FALSE)}
  <2>1. cmd' = [cmd EXCEPT ![p].pc = "await_reply", ![p].next = cmd[p].next]
    BY <1>3, <1>5 DEF Command, Inv, CmdsOK
  <2>2. CmdsOK'
    BY <1>1, <1>2, <1>3, <2>1, CommandGoesOn
  <2>3. cmd'[p].pc = "await_reply"
    BY <1>3, <1>5 DEF Command, Inv, CmdsOK
  <2>4. contact.peer \in Peer
    BY <1>3 DEF Record
  <2>5. ConnsOK'
    BY <1>2, <1>5, <2>2, <2>3, <2>4, ConnectOK
  <2> QED
    BY <1>2, <2>2, <2>5 DEF Inv
<1> QED
  BY <1>4, <1>5 DEF Notify

LEMMA HandleNoticeInv ==
  ASSUME Inv, NEW c \in conns, HandleNotice(c)
  PROVE  Inv'
<1>1. /\ c \in Conn /\ c.kind = "notice" /\ c.stage = "arrived" /\ Running(c.to)
      /\ c.to \in Peer /\ c.from \in Peer /\ c.key \in Nat /\ c.key < key[c.from]
      /\ UNCHANGED <<cmd, counters>>
  BY DEF HandleNotice, Inv, ConnsOK, ConnOK, Answered, Conn
<1>2. CASE Answer(c, "error") /\ UNCHANGED stores
  <2>1. KeysOK' /\ DisksOK' /\ ServesOK' /\ key' = key /\ serve' = serve
    BY <1>2, StoresKept DEF stores
  <2>2. ConnsOK'
    BY <1>1, <1>2, <2>1, AnswerOK DEF Running
  <2>3. CmdsOK' /\ CountersOK'
    BY <1>1, <2>1 DEF Inv, CmdsOK, CmdOK, CountersOK, counters
  <2> QED
    BY <2>1, <2>2, <2>3 DEF Inv
<1>3. CASE /\ ServeSaves(c.to, MarkRevoked(serve[c.to].table, c.from, c.key, c.key + 1))
           /\ conns' = (conns \ {c}) \union {[c EXCEPT !.stage = "revoked"]}
  <2> DEFINE table == MarkRevoked(serve[c.to].table, c.from, c.key, c.key + 1)
             d == [c EXCEPT !.stage = "revoked"]
  <2>1. Sound(table, key)
    <3>1. key \in [Peer -> Nat]
      BY DEF Inv, KeysOK
    <3>2. ServeOK(c.to)
      BY <1>1 DEF Inv, ServesOK
    <3>3. Sound(serve[c.to].table, key)
      BY <1>1, <3>2 DEF ServeOK
    <3>4. c.key + 1 \in Nat
      BY <1>1
    <3>5. /\ c.from \in Peer /\ c.key \in Nat /\ c.key < key[c.from]
      BY <1>1
    <3> HIDE DEF table
    <3> QED
      BY <3>1, <3>3, <3>4, <3>5, RevokedSound, Zenon DEF table
  <2>2. ServeSaves(c.to, table)
    BY <1>3
  <2> HIDE DEF table
  <2>3. /\ KeysOK' /\ DisksOK' /\ ServesOK' /\ key' = key
        /\ \A p \in Peer : Running(p) => Running(p)'
    BY <1>1, <2>1, <2>2, ServeSavesOK
  <2>4. /\ d \in Conn /\ d.stage = "revoked" /\ d.kind = "notice" /\ d.to = c.to
        /\ d.from = c.from /\ d.key = c.key /\ d.answer = c.answer
    BY <1>1 DEF Conn
  <2>5. ASSUME NEW e \in conns' PROVE ConnOK(e)'
    <3>1. CASE e \in conns
      BY <3>1, <2>3 DEF Inv, ConnsOK, ConnOK, Answered, Conn
    <3>2. CASE e = d
      BY <3>2, <1>1, <2>3, <2>4 DEF Inv, ConnsOK, ConnOK, Answered
    <3> QED
      BY <1>3, <3>1, <3>2
  <2>6. CmdsOK' /\ CountersOK'
    BY <1>1, <2>3 DEF Inv, CmdsOK, CmdOK, CountersOK, counters
  <2> QED
    BY <2>3, <2>5, <2>6 DEF Inv, ConnsOK
<1> QED
  BY <1>2, <1>3 DEF HandleNotice

LEMMA AddSuccessorInv ==
  ASSUME Inv, NEW c \in conns, AddSuccessor(c)
  PROVE  Inv'
<1>1. /\ c \in Conn /\ Running(c.to) /\ c.to \in Peer /\ c.from \in Peer
      /\ c.key + 1 \in Nat /\ key[c.from] \in Nat /\ c.key + 1 <= key[c.from]
      /\ UNCHANGED <<cmd, counters>>
  BY DEF AddSuccessor, Inv, KeysOK, ConnsOK, ConnOK, Answered, Conn
<1>2. PICK open \in BOOLEAN :
        ServeSaves(c.to, Put(serve[c.to].table, Fresh(c.from, c.key + 1, open)))
  BY DEF AddSuccessor
<1> DEFINE table == Put(serve[c.to].table, Fresh(c.from, c.key + 1, open))
<1>3. Sound(table, key)
  BY <1>1, PutSound DEF Inv, ServesOK, ServeOK, KeysOK
<1>4. ServeSaves(c.to, table) /\ Answer(c, "accept")
  BY <1>2 DEF AddSuccessor
<1> HIDE DEF table
<1>5. /\ KeysOK' /\ DisksOK' /\ ServesOK' /\ key' = key
      /\ \A p \in Peer : Running(p) => Running(p)'
  BY <1>1, <1>3, <1>4, ServeSavesOK
<1>6. ConnsOK'
  BY <1>1, <1>4, <1>5, AnswerOK
<1>7. CmdsOK' /\ CountersOK'
  BY <1>1, <1>5 DEF Inv, CmdsOK, CmdOK, CountersOK, counters
<1> QED
  BY <1>5, <1>6, <1>7 DEF Inv

\* The command leaves its connection: after a reply, without one, or killed.
LEMMA CommandLeaves ==
  ASSUME Inv, NEW p \in Peer, UNCHANGED <<stores, counters>>, conns' \subseteq conns,
         \/ cmd' = [cmd EXCEPT ![p] = NoCommand]
         \/ /\ cmd[p].pc = "await_reply"
            /\ cmd' = [cmd EXCEPT ![p].pc = "notify", ![p].next = NextContact(@)]
  PROVE  Inv'
<1>1. KeysOK' /\ DisksOK' /\ ServesOK' /\ CountersOK' /\ key' = key /\ serve' = serve
  BY StoresKept DEF Inv, CountersOK, counters, stores
<1>2. ConnsOK'
  BY <1>1, ConnsKept DEF Running
<1>3. CASE cmd' = [cmd EXCEPT ![p] = NoCommand]
  BY <1>1, <1>2, <1>3, CommandEnds DEF Inv
<1>4. CASE /\ cmd[p].pc = "await_reply"
           /\ cmd' = [cmd EXCEPT ![p].pc = "notify", ![p].next = NextContact(@)]
  <2>1. cmd[p] \in Command /\ cmd[p].next + 1 \in Nat
    BY DEF Inv, CmdsOK, Command
  <2>2. cmd' = [cmd EXCEPT ![p].pc = "notify", ![p].next = cmd[p].next + 1]
    BY <1>4, <2>1 DEF NextContact, Command, Inv, CmdsOK
  <2>3. CmdsOK'
    BY <1>1, <1>4, <2>1, <2>2, CommandGoesOn
  <2> QED
    BY <1>1, <1>2, <2>3 DEF Inv
<1> QED
  BY <1>3, <1>4

LEMMA CommandGoesInv ==
  ASSUME Inv, NEW p \in Peer,
         ReceiveReply(p) \/ FinishRotation(p) \/ ConnectionFails(p) \/ Kill(p)
  PROVE  Inv'
<1>1. CASE ReceiveReply(p)
  BY <1>1, CommandLeaves DEF ReceiveReply
<1>2. CASE FinishRotation(p)
  BY <1>2, CommandLeaves DEF FinishRotation
<1>3. CASE ConnectionFails(p)
  BY <1>3, CommandLeaves DEF ConnectionFails
<1>4. CASE Kill(p)
  BY <1>4, CommandLeaves DEF Kill
<1> QED
  BY <1>1, <1>2, <1>3, <1>4

LEMMA StartServeInv ==
  ASSUME Inv, NEW p \in Peer, StartServe(p)
  PROVE  Inv'
<1> DEFINE new == [key |-> key[p], table |-> disk[p]]
<1>1. /\ serve' = [serve EXCEPT ![p] = new] /\ boots' = [boots EXCEPT ![p] = @ + 1]
      /\ UNCHANGED <<key, disk, cmd, conns, runs>>
  BY DEF StartServe
<1>2. /\ new \in [key : Nat, table : Seq(Record)] /\ new.key = key[p] /\ new.table = disk[p]
      /\ Sound(disk[p], key) /\ key[p] \in Nat
  BY DEF Inv, KeysOK, DisksOK
<1>3. CountersOK' /\ KeysOK' /\ DisksOK' /\ CmdsOK'
  BY <1>1 DEF Inv, CountersOK, KeysOK, DisksOK, CmdsOK, CmdOK
<1>4. /\ serve'[p] = new /\ \A q \in Peer \ {p} : serve'[q] = serve[q]
      /\ DOMAIN serve' = Peer /\ serve' = [q \in Peer |-> serve'[q]]
  BY <1>1 DEF Inv, ServesOK
<1>5. ServesOK'
  BY <1>1, <1>2, <1>4 DEF Inv, ServesOK, ServeOK, Running
<1>6. \A q \in Peer : Running(q) => Running(q)'
  BY <1>2, <1>4, NoneIsNoServe DEF Running
<1>7. ConnsOK'
  BY <1>1, <1>6, ConnsKept DEF Inv, ConnsOK, ConnOK, Conn
<1> QED
  BY <1>3, <1>5, <1>7 DEF Inv

LEMMA StopServeInv ==
  ASSUME Inv, NEW p \in Peer, StopServe(p)
  PROVE  Inv'
<1>1. /\ serve' = [serve EXCEPT ![p] = None]
      /\ conns' = {c \in conns : c.to = p => Answered(c)}
      /\ UNCHANGED <<key, disk, cmd, counters>>
  BY DEF StopServe
<1>2. CountersOK' /\ KeysOK' /\ DisksOK' /\ CmdsOK'
  BY <1>1 DEF Inv, CountersOK, counters, KeysOK, DisksOK, CmdsOK, CmdOK
<1>3. /\ serve'[p] = None /\ \A q \in Peer \ {p} : serve'[q] = serve[q]
      /\ DOMAIN serve' = Peer /\ serve' = [q \in Peer |-> serve'[q]]
  BY <1>1 DEF Inv, ServesOK
<1>4. ServesOK'
  BY <1>1, <1>3 DEF Inv, ServesOK, ServeOK, Running
<1>5. ConnsOK'
  BY <1>1, <1>3, ConnsKept DEF Running, Inv, ConnsOK, ConnOK, Conn
<1> QED
  BY <1>2, <1>4, <1>5 DEF Inv

LEMMA NextInv == Inv /\ [Next]_vars => Inv'
<1> SUFFICES ASSUME Inv, [Next]_vars PROVE Inv'
  OBVIOUS
<1>1. CASE UNCHANGED vars
  BY <1>1 DEF vars, stores, counters, Inv, CountersOK, KeysOK, DisksOK, ServesOK, ServeOK,
     CmdsOK, CmdOK, ConnsOK, ConnOK, Running, Answered
<1>2. ASSUME NEW p \in Peer, NEW q \in Peer, AddContact(p, q) PROVE Inv'
  BY <1>2, AddContactInv
<1>3. ASSUME NEW p \in Peer, RotateKey(p) \/ SaveIdentity(p) \/ StartServe(p) \/ StopServe(p)
      PROVE  Inv'
  BY <1>3, RotateKeyInv, SaveIdentityInv, StartServeInv, StopServeInv
<1>4. ASSUME NEW p \in Peer, CommandStep(p) \/ Kill(p) PROVE Inv'
  BY <1>4, ReceiveAcceptInv, NotifyInv, CommandGoesInv DEF CommandStep
<1>5. ASSUME NEW c \in conns, Handle(c) PROVE Inv'
  BY <1>5, HandleContactRequestInv, HandleNoticeInv, AddSuccessorInv DEF Handle
<1> QED
  BY <1>1, <1>2, <1>3, <1>4, <1>5 DEF Next

----------------------------------------------------------------------------
(* The theorems.                                                           *)

\* The invariant holds of the specification: whatever a table, a command or a
\* connection carries is bounded by what its peer has saved.
THEOREM Invariance == Spec => []Inv
<1>1. Init => Inv
  BY InitInv
<1>2. Inv /\ [Next]_vars => Inv'
  BY NextInv
<1> QED
  BY <1>1, <1>2, PTL DEF Spec

\* Types, and one record of each key in every table, for any number of peers,
\* commands and restarts.
THEOREM TypeCorrect == Spec => []TypeOK
<1>1. Inv => TypeOK
  <2> SUFFICES ASSUME Inv PROVE TypeOK
    OBVIOUS
  <2>1. key \in [Peer -> Nat] /\ runs \in [Peer -> Nat] /\ boots \in [Peer -> Nat]
    BY DEF Inv, KeysOK, CountersOK
  <2>2. DOMAIN disk = Peer /\ \A p \in Peer : IsTable(disk[p])
    BY DEF Inv, DisksOK, Sound
  <2>3. /\ DOMAIN serve = Peer
        /\ \A p \in Peer : Running(p) =>
             /\ DOMAIN serve[p] = {"key", "table"}
             /\ serve[p].key \in Nat /\ IsTable(serve[p].table)
    BY DEF Inv, ServesOK, ServeOK, Sound
  <2>4. /\ DOMAIN cmd = Peer
        /\ \A p \in Peer :
             /\ DOMAIN cmd[p] = {"pc", "key", "table", "next"}
             /\ cmd[p].pc \in {"idle", "await_accept", "confirm", "notify", "await_reply"}
             /\ cmd[p].key \in Nat /\ cmd[p].next \in Nat /\ IsTable(cmd[p].table)
    BY DEF Inv, CmdsOK, CmdOK, Command, Sound
  <2>5. conns \subseteq Conn /\ \A c \in conns : Answered(c) \/ Running(c.to)
    BY DEF Inv, ConnsOK, ConnOK
  <2> QED
    BY <2>1, <2>2, <2>3, <2>4, <2>5 DEF TypeOK, Conn
<1> QED
  BY <1>1, Invariance, PTL

\* No table anywhere has a key its peer has not saved, or takes the peer's
\* present key for revoked, wherever rotations, handlers and processes stop.
THEOREM OnlyOldKeysRevoked == Spec => []RevocationFollowsRotation
<1>1. Inv => RevocationFollowsRotation
  <2> SUFFICES ASSUME Inv, NEW table \in Tables PROVE Sound(table, key)
    BY DEF RevocationFollowsRotation, Sound
  <2> QED
    BY DEF Tables, Inv, DisksOK, ServesOK, ServeOK, CmdsOK, CmdOK
<1> QED
  BY <1>1, Invariance, PTL

----------------------------------------------------------------------------
(***************************************************************************)
(* What a running `serve` takes for revoked.  Only the second half of a    *)
(* notice writes over a record, that of the key it introduces: a revoked   *)
(* key comes back only when its own notice has overtaken the one before    *)
(* it, and with a single rotation of each peer there is none before it.    *)
(***************************************************************************)

\* Of the records revoked in table, all but those of the key k of p are so in new.
StayBut(table, new, p, k) ==
  \A i \in DOMAIN table :
    table[i].revoked /\ ~IsOf(table[i], p, k) =>
      \E j \in DOMAIN new : IsOf(new[j], table[i].peer, table[i].key) /\ new[j].revoked

Stay(table, new) ==
  \A i \in DOMAIN table :
    table[i].revoked =>
      \E j \in DOMAIN new : IsOf(new[j], table[i].peer, table[i].key) /\ new[j].revoked

LEMMA SameStays ==
  ASSUME NEW table, NEW new, DOMAIN table \subseteq DOMAIN new,
         \A i \in DOMAIN table : /\ new[i].peer = table[i].peer /\ new[i].key = table[i].key
                                 /\ table[i].revoked => new[i].revoked
  PROVE  Stay(table, new)
  BY DEF Stay, IsOf

LEMMA MetStays ==
  ASSUME NEW table \in Seq(Record), NEW p \in Peer, NEW k \in Nat, NEW open \in BOOLEAN
  PROVE  Stay(table, Met(table, p, k, open))
<1>1. CASE Has(table, p, k)
  <2>1. \A i \in DOMAIN table : table[i] \in Record
    OBVIOUS
  <2>2. \A rec \in Record : /\ Readdressed(rec, open).peer = rec.peer
                            /\ Readdressed(rec, open).key = rec.key
                            /\ Readdressed(rec, open).revoked = rec.revoked
    BY DEF Readdressed, Record
  <2>3. PICK new : new = Met(table, p, k, open)
    OBVIOUS
  <2>4. /\ DOMAIN new = DOMAIN table
        /\ \A i \in DOMAIN table : new[i] = table[i] \/ new[i] = Readdressed(table[i], open)
    BY <1>1, <2>3 DEF Met
  <2>5. \A i \in DOMAIN table : /\ new[i].peer = table[i].peer /\ new[i].key = table[i].key
                                /\ table[i].revoked => new[i].revoked
    BY <2>1, <2>2, <2>4
  <2> QED
    BY <2>3, <2>4, <2>5, SameStays
<1>2. CASE ~Has(table, p, k)
  <2>1. PICK rec \in Record : rec = Fresh(p, k, open)
    BY FreshRecord
  <2>2. /\ DOMAIN table \subseteq DOMAIN Append(table, rec)
        /\ \A i \in DOMAIN table : Append(table, rec)[i] = table[i]
    OBVIOUS
  <2>3. PICK new : new = Met(table, p, k, open)
    OBVIOUS
  <2>4. DOMAIN table \subseteq DOMAIN new /\ \A i \in DOMAIN table : new[i] = table[i]
    BY <1>2, <2>1, <2>2, <2>3 DEF Met
  <2>5. Stay(table, new)
    BY <2>4, SameStays
  <2> QED
    BY <2>3, <2>5
<1> QED
  BY <1>1, <1>2

LEMMA MarkStays ==
  ASSUME NEW table \in Seq(Record), NEW p \in Peer, NEW k \in Nat, NEW succ \in Nat
  PROVE  Stay(table, MarkRevoked(table, p, k, succ))
<1>1. \A i \in DOMAIN table : table[i] \in Record
  OBVIOUS
<1>2. \A rec \in Record : /\ [rec EXCEPT !.revoked = TRUE, !.succ = succ].peer = rec.peer
                          /\ [rec EXCEPT !.revoked = TRUE, !.succ = succ].key = rec.key
                          /\ [rec EXCEPT !.revoked = TRUE, !.succ = succ].revoked
  BY DEF Record
<1>3. PICK new : new = MarkRevoked(table, p, k, succ)
  OBVIOUS
<1>4. /\ DOMAIN new = DOMAIN table
      /\ \A i \in DOMAIN table :
           new[i] = table[i] \/ new[i] = [table[i] EXCEPT !.revoked = TRUE, !.succ = succ]
  BY <1>3 DEF MarkRevoked
<1>5. \A i \in DOMAIN table : /\ new[i].peer = table[i].peer /\ new[i].key = table[i].key
                              /\ table[i].revoked => new[i].revoked
  <2> TAKE i \in DOMAIN table
  <2> DEFINE rec == table[i]
             old == [rec EXCEPT !.revoked = TRUE, !.succ = succ]
  <2>1. rec \in Record
    BY <1>1
  <2>2. old.peer = rec.peer /\ old.key = rec.key /\ old.revoked
    BY <2>1, <1>2
  <2>3. new[i] = rec \/ new[i] = old
    BY <1>4
  <2> HIDE DEF rec, old
  <2>4. /\ new[i].peer = rec.peer /\ new[i].key = rec.key
        /\ rec.revoked => new[i].revoked
    BY <2>2, <2>3
  <2> QED
    BY <2>4 DEF rec
<1>6. Stay(table, new)
  <2> HIDE DEF Stay
  <2>1. DOMAIN table \subseteq DOMAIN new
    BY <1>4
  <2> QED
    BY <1>5, <2>1, SameStays
<1> QED
  BY <1>3, <1>6

LEMMA PutStays ==
  ASSUME NEW table \in Seq(Record), NEW p \in Peer, NEW k \in Nat, NEW open \in BOOLEAN
  PROVE  StayBut(table, Put(table, Fresh(p, k, open)), p, k)
<1>1. PICK rec \in Record : rec = Fresh(p, k, open) /\ rec.peer = p /\ rec.key = k
  BY FreshRecord
<1>2. CASE Has(table, p, k)
  BY <1>1, <1>2 DEF Put, StayBut, IsOf
<1>3. CASE ~Has(table, p, k)
  <2>1. /\ DOMAIN table \subseteq DOMAIN Append(table, rec)
        /\ \A i \in DOMAIN table : Append(table, rec)[i] = table[i]
    OBVIOUS
  <2> QED
    BY <1>1, <1>3, <2>1 DEF Put, StayBut, IsOf
<1> QED
  BY <1>2, <1>3

\* The notice that introduces the key k of p reaches q's table only now.
Overtaken(q, p, k) == \E c \in conns : AddSuccessor(c) /\ c.to = q /\ c.from = p /\ c.key + 1 = k

KeptByStep(q) ==
  Running(q) /\ serve'[q] # None =>
    \A i \in DOMAIN serve[q].table :
      serve[q].table[i].revoked =>
        \/ \E j \in DOMAIN serve'[q].table :
             /\ IsOf(serve'[q].table[j], serve[q].table[i].peer, serve[q].table[i].key)
             /\ serve'[q].table[j].revoked
        \/ Overtaken(q, serve[q].table[i].peer, serve[q].table[i].key)

\* Only an overtaken notice makes a revoked key active again, in a running `serve`.
RevokedUnlessOvertaken == [][\A q \in Peer : KeptByStep(q)]_vars

\* serve' is as it was, or q's has this table now.
LEMMA KeptBySaves ==
  ASSUME Inv, NEW q \in Peer, NEW r \in Peer, NEW table, ServeSaves(r, table), Running(r)
  PROVE  serve'[q] = serve[q] \/ (q = r /\ serve'[q].table = table)
<1>1. PICK mine \in [key : Nat, table : Seq(Record)] : mine = serve[r]
  BY DEF Inv, ServesOK, ServeOK
<1>2. [mine EXCEPT !.table = table].table = table
  BY <1>1
<1>3. serve' = [serve EXCEPT ![r] = [mine EXCEPT !.table = table]]
  BY <1>1 DEF ServeSaves
<1> QED
  BY <1>2, <1>3 DEF Inv, ServesOK

LEMMA KeptWhenSaved ==
  ASSUME Inv, NEW q \in Peer, NEW r \in Peer, NEW table, ServeSaves(r, table), Running(r),
         Stay(serve[r].table, table)
  PROVE  KeptByStep(q)
<1>1. CASE serve'[q] = serve[q]
  BY <1>1 DEF KeptByStep, IsOf
<1>2. CASE q = r /\ serve'[q].table = table
  BY <1>2 DEF KeptByStep, Stay
<1> QED
  BY <1>1, <1>2, KeptBySaves

LEMMA KeptWhenNothing ==
  ASSUME NEW q \in Peer, serve'[q] = serve[q] \/ serve'[q] = None \/ ~Running(q)
  PROVE  KeptByStep(q)
  BY DEF KeptByStep, IsOf

LEMMA KeptByHandlers ==
  ASSUME Inv, NEW q \in Peer, NEW c \in conns, Handle(c)
  PROVE  KeptByStep(q)
<1>1. /\ c \in Conn /\ c.to \in Peer /\ c.from \in Peer /\ c.key \in Nat /\ c.open \in BOOLEAN
      /\ (~Answered(c) => Running(c.to))
  BY DEF Inv, ConnsOK, ConnOK, Conn
<1>2. Running(c.to) => serve[c.to].table \in Seq(Record)
  BY <1>1 DEF Inv, ServesOK, ServeOK
<1>3. CASE HandleContactRequest(c)
  <2>1. Running(c.to) /\ ServeSaves(c.to, Met(serve[c.to].table, c.from, c.key, c.open))
    BY <1>1, <1>3 DEF HandleContactRequest, Answered
  <2>2. Stay(serve[c.to].table, Met(serve[c.to].table, c.from, c.key, c.open))
    BY <1>1, <1>2, <2>1, MetStays
  <2> QED
    BY <1>1, <2>1, <2>2, KeptWhenSaved
<1>4. CASE HandleNotice(c)
  <2>1. Running(c.to)
    BY <1>1, <1>4 DEF HandleNotice, Answered
  <2>2. CASE UNCHANGED stores
    BY <2>2, KeptWhenNothing DEF stores
  <2>3. CASE ServeSaves(c.to, MarkRevoked(serve[c.to].table, c.from, c.key, c.key + 1))
    <3>1. Stay(serve[c.to].table, MarkRevoked(serve[c.to].table, c.from, c.key, c.key + 1))
      BY <1>1, <1>2, <2>1, MarkStays
    <3> QED
      BY <1>1, <2>1, <2>3, <3>1, KeptWhenSaved
  <2> QED
    BY <1>4, <2>2, <2>3 DEF HandleNotice
<1>5. CASE AddSuccessor(c)
  <2>1. Running(c.to)
    BY <1>1, <1>5 DEF AddSuccessor, Answered
  <2>2. PICK open \in BOOLEAN :
          ServeSaves(c.to, Put(serve[c.to].table, Fresh(c.from, c.key + 1, open)))
    BY <1>5 DEF AddSuccessor
  <2>3. PICK table : table = Put(serve[c.to].table, Fresh(c.from, c.key + 1, open))
    OBVIOUS
  <2>4. StayBut(serve[c.to].table, table, c.from, c.key + 1)
    <3>1. c.key + 1 \in Nat /\ serve[c.to].table \in Seq(Record)
      BY <1>1, <1>2, <2>1
    <3> QED
      BY <1>1, <2>3, <3>1, PutStays
  <2>5. ServeSaves(c.to, table)
    BY <2>2, <2>3
  <2>6. serve'[q] = serve[q] \/ (q = c.to /\ serve'[q].table = table)
    BY <1>1, <2>1, <2>5, KeptBySaves
  <2>7. CASE serve'[q] = serve[q]
    BY <2>7, KeptWhenNothing
  <2>8. CASE q = c.to /\ serve'[q].table = table
    <3> SUFFICES ASSUME NEW i \in DOMAIN serve[q].table, serve[q].table[i].revoked,
                        ~Overtaken(q, serve[q].table[i].peer, serve[q].table[i].key)
                 PROVE  \E j \in DOMAIN table :
                          /\ IsOf(table[j], serve[q].table[i].peer, serve[q].table[i].key)
                          /\ table[j].revoked
      BY <2>8 DEF KeptByStep
    <3>1. ~IsOf(serve[q].table[i], c.from, c.key + 1)
      BY <1>5, <2>8 DEF Overtaken, IsOf
    <3> QED
      BY <2>4, <2>8, <3>1 DEF StayBut
  <2> QED
    BY <2>6, <2>7, <2>8
<1> QED
  BY <1>3, <1>4, <1>5 DEF Handle

LEMMA KeptByNext ==
  ASSUME Inv, [Next]_vars, NEW q \in Peer
  PROVE  KeptByStep(q)
<1>1. CASE UNCHANGED vars
  BY <1>1, KeptWhenNothing DEF vars, stores
<1>2. ASSUME NEW p \in Peer, NEW r \in Peer, AddContact(p, r) PROVE KeptByStep(q)
  BY <1>2, KeptWhenNothing DEF AddContact, stores
<1>3. ASSUME NEW p \in Peer, RotateKey(p) \/ SaveIdentity(p) \/ CommandStep(p) \/ Kill(p)
      PROVE  KeptByStep(q)
  <2>1. serve' = serve
    BY <1>3 DEF RotateKey, SaveIdentity, CommandStep, ReceiveAccept, Notify, ReceiveReply,
                FinishRotation, ConnectionFails, Kill, stores
  <2> QED
    BY <2>1, KeptWhenNothing
<1>4. ASSUME NEW p \in Peer, StartServe(p) \/ StopServe(p) PROVE KeptByStep(q)
  <2>1. q # p => serve'[q] = serve[q]
    BY <1>4 DEF StartServe, StopServe, Inv, ServesOK
  <2>2. ~Running(p) \/ serve'[p] = None
    BY <1>4 DEF StartServe, StopServe, Inv, ServesOK
  <2> QED
    BY <2>1, <2>2, KeptWhenNothing
<1>5. ASSUME NEW c \in conns, Handle(c) PROVE KeptByStep(q)
  BY <1>5, KeptByHandlers
<1> QED
  BY <1>1, <1>2, <1>3, <1>4, <1>5 DEF Next

\* The keys that there are: a notice is about the key of a peer that went on to another.
KeysBounded ==
  /\ \A p \in Peer : /\ key[p] \in 1..MaxKey[p]
                     /\ cmd[p].pc # "idle" => cmd[p].key >= 1
                     /\ cmd[p].pc = "confirm" => cmd[p].key < MaxKey[p]
  /\ \A c \in conns : c.key >= 1

LEMMA KeysInit == Init => KeysBounded
  BY RotationAssumption DEF Init, KeysBounded, NoCommand

\* A connection that p's command opens, and what a handler makes of one.
LEMMA ConnectionKey ==
  ASSUME NEW p, NEW q, NEW kind, NEW open, NEW k, k = cmd'[p].key
  PROVE  Connection(p, q, kind, open).key = k
  BY DEF Connection

LEMMA AnswerKeys ==
  ASSUME \A d \in conns : d \in Conn /\ d.key >= 1, NEW c \in conns, NEW stage,
         \/ Answer(c, stage)
         \/ conns' = (conns \ {c}) \union {[c EXCEPT !.stage = stage]}
  PROVE  \A d \in conns' : d.key >= 1
<1>1. c \in Conn /\ c.key >= 1
  OBVIOUS
<1>2. \A n : /\ [c EXCEPT !.stage = stage].key = c.key
             /\ [c EXCEPT !.stage = stage, !.answer = n].key = c.key
  BY <1>1 DEF Conn
<1> QED
  BY <1>1, <1>2 DEF Answer

LEMMA KeysStay ==
  ASSUME KeysBounded, UNCHANGED key, conns' \subseteq conns,
         \A p \in Peer : /\ cmd'[p].pc # "idle" => cmd'[p].key >= 1
                         /\ cmd'[p].pc = "confirm" => cmd'[p].key < MaxKey[p]
  PROVE  KeysBounded'
  BY DEF KeysBounded

LEMMA KeysInductive == Inv /\ KeysBounded /\ [Next]_vars => KeysBounded'
<1> SUFFICES ASSUME Inv, KeysBounded, [Next]_vars PROVE KeysBounded'
  OBVIOUS
<1>0. cmd \in [Peer -> Command] /\ key \in [Peer -> Nat] /\ \A c \in conns : c \in Conn
  BY DEF Inv, CmdsOK, KeysOK, ConnsOK, ConnOK
<1>1. CASE UNCHANGED vars
  BY <1>1 DEF vars, stores, KeysBounded
<1>2. ASSUME NEW p \in Peer, NEW q \in Peer, AddContact(p, q) PROVE KeysBounded'
  <2>1. /\ cmd'[p].key = key[p] /\ cmd'[p].pc = "await_accept" /\ UNCHANGED key
        /\ \A r \in Peer \ {p} : cmd'[r] = cmd[r]
    BY <1>0, <1>2 DEF AddContact, stores
  <2>2. PICK open \in BOOLEAN : conns' = conns \union {Connection(p, q, "contact", open)}
    BY <1>2 DEF AddContact
  <2>3. Connection(p, q, "contact", open).key = key[p]
    BY <2>1, ConnectionKey
  <2> QED
    BY <2>1, <2>2, <2>3 DEF KeysBounded
<1>3. ASSUME NEW p \in Peer, Notify(p) PROVE KeysBounded'
  <2>1. /\ cmd'[p].key = cmd[p].key /\ cmd'[p].pc \in {"notify", "await_reply"} /\ UNCHANGED key
        /\ cmd[p].pc = "notify" /\ \A r \in Peer \ {p} : cmd'[r] = cmd[r]
    BY <1>0, <1>3 DEF Notify, stores, Command
  <2>2. \A r : Connection(p, r, "notice", FALSE).key = cmd[p].key
    BY <2>1 DEF Connection
  <2>3. \A c \in conns' : c \in conns \/ c.key = cmd[p].key
    BY <1>3, <2>2 DEF Notify
  <2> QED
    BY <2>1, <2>3 DEF KeysBounded
<1>4. ASSUME NEW p \in Peer, RotateKey(p) PROVE KeysBounded'
  <2>1. /\ cmd'[p].key = key[p] /\ key[p] < MaxKey[p] /\ UNCHANGED <<key, conns>>
        /\ \A r \in Peer \ {p} : cmd'[r] = cmd[r]
    BY <1>0, <1>4 DEF RotateKey, stores
  <2> QED
    BY <2>1 DEF KeysBounded
<1>5. ASSUME NEW p \in Peer, SaveIdentity(p) PROVE KeysBounded'
  <2>1. /\ cmd'[p].key = cmd[p].key /\ cmd'[p].pc = "notify" /\ cmd[p].pc = "confirm"
        /\ UNCHANGED conns /\ \A r \in Peer \ {p} : cmd'[r] = cmd[r] /\ key'[r] = key[r]
        /\ key'[p] = cmd[p].key + 1
    BY <1>0, <1>5 DEF SaveIdentity, NewIdentity, Command
  <2>2. cmd[p].key \in Nat /\ MaxKey[p] \in Nat
    BY <1>0, RotationAssumption DEF Command
  <2> QED
    BY <2>1, <2>2 DEF KeysBounded
<1>6. ASSUME NEW p \in Peer,
             \/ ReceiveAccept(p) \/ ReceiveReply(p) \/ FinishRotation(p) \/ ConnectionFails(p)
             \/ Kill(p)
      PROVE  KeysBounded'
  <2>1. UNCHANGED key /\ conns' \subseteq conns
    BY <1>6 DEF ReceiveAccept, ReceiveReply, FinishRotation, ConnectionFails, Kill, stores
  <2>2. \/ cmd' = [cmd EXCEPT ![p] = NoCommand]
        \/ /\ cmd' = [cmd EXCEPT ![p].pc = "notify", ![p].next = NextContact(@)]
           /\ cmd[p].pc = "await_reply"
    BY <1>6 DEF ReceiveAccept, ReceiveReply, FinishRotation, ConnectionFails, Kill
  <2>3. /\ \A r \in Peer \ {p} : cmd'[r] = cmd[r]
        /\ \/ cmd'[p].pc = "idle"
           \/ cmd'[p].pc = "notify" /\ cmd'[p].key = cmd[p].key /\ cmd[p].pc = "await_reply"
    BY <1>0, <2>2 DEF NoCommand, Command
  <2> QED
    BY <2>1, <2>3, KeysStay DEF KeysBounded
<1>7. ASSUME NEW p \in Peer, StartServe(p) \/ StopServe(p) PROVE KeysBounded'
  BY <1>7 DEF StartServe, StopServe, KeysBounded
<1>8. ASSUME NEW c \in conns, Handle(c) PROVE KeysBounded'
  <2>1. UNCHANGED <<key, cmd>>
    BY <1>8 DEF Handle, HandleContactRequest, HandleNotice, AddSuccessor, ServeSaves, stores
  <2>2. \/ \E stage : Answer(c, stage)
        \/ conns' = (conns \ {c}) \union {[c EXCEPT !.stage = "revoked"]}
    BY <1>8 DEF Handle, HandleContactRequest, HandleNotice, AddSuccessor
  <2>3. \A d \in conns' : d.key >= 1
    BY <1>0, <2>2, AnswerKeys DEF KeysBounded
  <2> QED
    BY <2>1, <2>3 DEF KeysBounded
<1> QED
  BY <1>1, <1>2, <1>3, <1>4, <1>5, <1>6, <1>7, <1>8 DEF Next, CommandStep

\* A key that is revoked has been replaced: with one rotation of each peer it is the
\* first, which no notice introduces.
LEMMA FirstKeysOnly ==
  ASSUME \A p \in Peer : MaxKey[p] <= 2, Inv, KeysBounded, NEW q \in Peer, Running(q),
         NEW i \in DOMAIN serve[q].table, serve[q].table[i].revoked
  PROVE  ~Overtaken(q, serve[q].table[i].peer, serve[q].table[i].key)
<1>1. PICK rec \in Record : rec = serve[q].table[i] /\ rec.key < key[rec.peer]
  BY DEF Inv, ServesOK, ServeOK, Sound, IsTable
<1>2. rec.peer \in Peer /\ rec.key \in Nat /\ key[rec.peer] \in Nat /\ MaxKey[rec.peer] \in Nat
  BY <1>1, RotationAssumption DEF Record, Inv, KeysOK
<1>3. rec.key < 2
  BY <1>1, <1>2 DEF KeysBounded
<1>4. \A c \in conns : c.key \in Nat /\ c.key >= 1
  BY DEF KeysBounded, Inv, ConnsOK, ConnOK, Conn
<1> QED
  BY <1>1, <1>2, <1>3, <1>4 DEF Overtaken

\* However requests and notices cross: a running serve takes a revoked key for active
\* again only by the notice that introduced that key, when it comes after the key's own
\* (_handle_contact_request, _handle_key_rotate, update_address).
THEOREM OnlyOvertakenNoticesUnrevoke == Spec => RevokedUnlessOvertaken
<1>1. Inv /\ [Next]_vars => [\A q \in Peer : KeptByStep(q)]_vars
  BY KeptByNext
<1> QED
  BY <1>1, Invariance, PTL DEF Spec, RevokedUnlessOvertaken

\* So while each peer rotates its key once, what a running serve has revoked stays so.
THEOREM RevokedKeysStay ==
  ASSUME \A p \in Peer : MaxKey[p] <= 2
  PROVE  Spec => RevokedForGood
<1>1. Spec => []KeysBounded
  BY KeysInit, KeysInductive, Invariance, PTL DEF Spec
<1>2. Inv /\ KeysBounded /\ [Next]_vars
        => [\A q \in Peer : Running(q) /\ serve'[q] # None =>
              \A i \in DOMAIN serve[q].table :
                serve[q].table[i].revoked =>
                  \E j \in DOMAIN serve'[q].table :
                    /\ IsOf(serve'[q].table[j], serve[q].table[i].peer, serve[q].table[i].key)
                    /\ serve'[q].table[j].revoked]_vars
  BY KeptByNext, FirstKeysOnly DEF KeptByStep
<1> QED
  BY <1>1, <1>2, Invariance, PTL DEF Spec, RevokedForGood
============================================================================
