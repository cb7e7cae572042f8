---------------------------- MODULE KeyRotation ----------------------------
(***************************************************************************)
(* rotate-key: a peer replaces its identity and tells its contacts, one    *)
(* connection after the other (cmd_rotate_key, notify_key_rotation).  The  *)
(* contacts' `serve` processes handle the notices (_handle_key_rotate);    *)
(* contacts come about by add-contact (Client.add_contact against          *)
(* _handle_contact_request).  `serve` keeps the identity and the contacts  *)
(* it loaded at its start, each command those on disk when it began, and   *)
(* every change writes a whole table back.  A peer's `serve` always uses   *)
(* the same port; a contact's address is either that or port 0.  A save is *)
(* one step here (see ContactStore), `verified` and aliases are left out.  *)
(***************************************************************************)
EXTENDS Integers, Sequences, FiniteSets

CONSTANTS
  Peer,
  MaxKey,     \* bound: the identities each peer can have are 1..MaxKey[p]
  MaxRuns,    \* bound: commands each peer runs
  MaxBoots,   \* bound: starts of each peer's `serve`
  None

ASSUME RotationAssumption ==
  /\ MaxKey \in [Peer -> Nat \ {0}]
  /\ MaxRuns \in [Peer -> Nat] /\ MaxBoots \in [Peer -> Nat]

\* A Contact: the peer's identity number stands for the fingerprint, "succ" for
\* successor_fp (0 for None), "open" for an address with a port other than 0.
Record == [peer : Peer, key : Nat, revoked : BOOLEAN, succ : Nat, open : BOOLEAN]

ASSUME NoneIsNoServe == None \notin [key : Nat, table : Seq(Record)]

VARIABLES
  key,       \* identity.key of each peer
  disk,      \* its saved contacts, in the order of the dictionary
  serve,     \* its `serve`: identity and contacts in memory, or None
  cmd,       \* its command, one at a time
  conns,     \* connections whose handler runs or whose answer is on its way
  runs, boots

stores == <<key, disk, serve>>
counters == <<runs, boots>>
vars == <<stores, cmd, conns, counters>>

NoCommand == [pc |-> "idle", key |-> 0, table |-> <<>>, next |-> 0]

Init ==
  /\ key = [p \in Peer |-> 1]
  /\ disk = [p \in Peer |-> <<>>]
  /\ serve = [p \in Peer |-> None]
  /\ cmd = [p \in Peer |-> NoCommand]
  /\ conns = {}
  /\ runs = [p \in Peer |-> 0] /\ boots = [p \in Peer |-> 0]

Running(p) == serve[p] # None

----------------------------------------------------------------------------
(* Contact tables: dictionaries from fingerprints to records.              *)

IsOf(rec, p, k) == rec.peer = p /\ rec.key = k
Has(table, p, k) == \E i \in DOMAIN table : IsOf(table[i], p, k)

Fresh(p, k, open) == [peer |-> p, key |-> k, revoked |-> FALSE, succ |-> 0, open |-> open]

\* Mutant: a list instead of a dictionary.
PutLast(table, rec) == Append(table, rec)

\* ContactStore.add: a new record goes last, an old one is replaced in place.
Put(table, rec) ==
  IF Has(table, rec.peer, rec.key)
  THEN [i \in DOMAIN table |-> IF IsOf(table[i], rec.peer, rec.key) THEN rec ELSE table[i]]
  ELSE Append(table, rec)

\* Mutant: the contact is made anew.
MadeAnew(rec, open) == Fresh(rec.peer, rec.key, open)

\* ContactStore.update_address, of one record.
Readdressed(rec, open) == [rec EXCEPT !.open = open]

\* What an exchange of keys does at either end: update_address or add.
Met(table, p, k, open) ==
  IF Has(table, p, k)
  THEN [i \in DOMAIN table |-> IF IsOf(table[i], p, k) THEN Readdressed(table[i], open)
                               ELSE table[i]]
  ELSE Append(table, Fresh(p, k, open))

\* ContactStore.mark_revoked.
MarkRevoked(table, p, k, succ) ==
  [i \in DOMAIN table |-> IF IsOf(table[i], p, k)
                          THEN [table[i] EXCEPT !.revoked = TRUE, !.succ = succ]
                          ELSE table[i]]

\* A handler of q's `serve` changes the table in memory and saves it.
ServeSaves(q, table) ==
  /\ serve' = [serve EXCEPT ![q].table = table]
  /\ disk' = [disk EXCEPT ![q] = table]
  /\ UNCHANGED key

----------------------------------------------------------------------------
(* Connections.  Each is named by its client and a number.                 *)

Awaiting(p, c) == c.from = p /\ c.run = runs[p] /\ c.next = cmd[p].next

Connection(p, q, kind, open) ==
  [from |-> p, run |-> runs'[p], next |-> cmd'[p].next, to |-> q, kind |-> kind,
   key |-> cmd'[p].key, open |-> open, stage |-> "arrived", answer |-> 0]

\* The handler sends its reply, which is lost when the command has gone on.
Answer(c, stage) ==
  conns' = (conns \ {c}) \union
    IF Awaiting(c.from, c) /\ cmd[c.from].pc \in {"await_accept", "await_reply"}
    THEN {[c EXCEPT !.stage = stage, !.answer = serve[c.to].key]} ELSE {}

Answered(c) == c.stage \in {"accept", "error"}

\* Nobody will read the answers to p's command any more.
Unheard(p) == {c \in conns : c.from = p /\ Answered(c)}

----------------------------------------------------------------------------
(* add-contact.                                                            *)

\* Loads everything, connects and sends CONTACT_REQUEST with the port given by
\* --listen-port, which is 0 by default.
AddContact(p, q) ==
  /\ cmd[p].pc = "idle" /\ runs[p] < MaxRuns[p] /\ p # q
  /\ Running(q)
  /\ runs' = [runs EXCEPT ![p] = @ + 1]
  /\ cmd' = [cmd EXCEPT ![p] = [pc |-> "await_accept", key |-> key[p],
                                table |-> disk[p], next |-> 0]]
  /\ \E open \in BOOLEAN : conns' = conns \union {Connection(p, q, "contact", open)}
  /\ UNCHANGED <<stores, boots>>

HandleContactRequest(c) ==
  /\ c.kind = "contact" /\ c.stage = "arrived"
  /\ ServeSaves(c.to, Met(serve[c.to].table, c.from, c.key, c.open))
  /\ Answer(c, "accept")
  /\ UNCHANGED <<cmd, counters>>

ReceiveAccept(p) ==
  /\ cmd[p].pc = "await_accept"
  /\ \E c \in conns :
       /\ Awaiting(p, c) /\ Answered(c)
       /\ disk' = [disk EXCEPT ![p] = Met(cmd[p].table, c.to, c.answer, TRUE)]
  /\ cmd' = [cmd EXCEPT ![p] = NoCommand]
  /\ conns' = conns \ Unheard(p)
  /\ UNCHANGED <<key, serve, counters>>

----------------------------------------------------------------------------
(* rotate-key.                                                             *)

\* Loads everything and waits for the user's answer and the new password.
RotateKey(p) ==
  /\ cmd[p].pc = "idle" /\ runs[p] < MaxRuns[p] /\ key[p] < MaxKey[p]
  /\ runs' = [runs EXCEPT ![p] = @ + 1]
  /\ cmd' = [cmd EXCEPT ![p] = [pc |-> "confirm", key |-> key[p],
                                table |-> disk[p], next |-> 0]]
  /\ UNCHANGED <<stores, conns, boots>>

\* Mutant: the notices leave before the new identity is saved.
Unsaved(old) == old

\* new_identity.save, over the old one.
NewIdentity(old) == old + 1

SaveIdentity(p) ==
  /\ cmd[p].pc = "confirm"
  /\ key' = [key EXCEPT ![p] = NewIdentity(cmd[p].key)]
  /\ cmd' = [cmd EXCEPT ![p].pc = "notify", ![p].next = 1]
  /\ UNCHANGED <<disk, serve, conns, counters>>

\* Mutant: a contact that cannot be reached is tried again.
TryAgain(i) == i

\* The loop goes on to the next contact, whatever became of this one.
NextContact(i) == i + 1

\* One round of the loop up to the reply.
Notify(p) ==
  /\ cmd[p].pc = "notify" /\ cmd[p].next \in DOMAIN cmd[p].table
  /\ UNCHANGED <<stores, counters>>
  /\ LET contact == cmd[p].table[cmd[p].next]
         reachable == contact.open /\ Running(contact.peer)
     IN  \/ /\ contact.revoked \/ ~reachable
            /\ cmd' = [cmd EXCEPT ![p].next = NextContact(@)]
            /\ UNCHANGED conns
         \/ /\ ~contact.revoked /\ reachable
            /\ cmd' = [cmd EXCEPT ![p].pc = "await_reply"]
            /\ conns' = conns \union {Connection(p, contact.peer, "notice", FALSE)}

\* _dispatch and _handle_key_rotate up to the first save.
HandleNotice(c) ==
  /\ c.kind = "notice" /\ c.stage = "arrived"
  /\ \/ /\ ~Has(serve[c.to].table, c.from, c.key)
        /\ Answer(c, "error")
        /\ UNCHANGED stores
     \/ /\ Has(serve[c.to].table, c.from, c.key)
        /\ ServeSaves(c.to, MarkRevoked(serve[c.to].table, c.from, c.key, c.key + 1))
        /\ conns' = (conns \ {c}) \union {[c EXCEPT !.stage = "revoked"]}
  /\ UNCHANGED <<cmd, counters>>

\* The rest of it: the new key, at the address of the old one.
AddSuccessor(c) ==
  /\ c.stage = "revoked"
  /\ LET table == serve[c.to].table
         open == \E i \in DOMAIN table : IsOf(table[i], c.from, c.key) /\ table[i].open
     IN  ServeSaves(c.to, Put(table, Fresh(c.from, c.key + 1, open)))
  /\ Answer(c, "accept")
  /\ UNCHANGED <<cmd, counters>>

\* CONTACT_ACCEPT and ERROR both count as success.
ReceiveReply(p) ==
  /\ cmd[p].pc = "await_reply"
  /\ \E c \in conns : Awaiting(p, c) /\ Answered(c)
  /\ cmd' = [cmd EXCEPT ![p].pc = "notify", ![p].next = NextContact(@)]
  /\ conns' = conns \ Unheard(p)
  /\ UNCHANGED <<stores, counters>>

\* "[OK] Key rotation complete."
FinishRotation(p) ==
  /\ cmd[p].pc = "notify" /\ cmd[p].next \notin DOMAIN cmd[p].table
  /\ cmd' = [cmd EXCEPT ![p] = NoCommand]
  /\ UNCHANGED <<stores, conns, counters>>

----------------------------------------------------------------------------
(* Either command.                                                         *)

\* The connection breaks or nothing comes for 120 seconds; the handler may
\* still be at work.
ConnectionFails(p) ==
  /\ \/ /\ cmd[p].pc = "await_accept"
        /\ cmd' = [cmd EXCEPT ![p] = NoCommand]
     \/ /\ cmd[p].pc = "await_reply"
        /\ cmd' = [cmd EXCEPT ![p].pc = "notify", ![p].next = NextContact(@)]
  /\ conns' = conns \ Unheard(p)
  /\ UNCHANGED <<stores, counters>>

\* Cancelled or killed at any point.
Kill(p) ==
  /\ cmd[p].pc # "idle"
  /\ cmd' = [cmd EXCEPT ![p] = NoCommand]
  /\ conns' = conns \ Unheard(p)
  /\ UNCHANGED <<stores, counters>>

----------------------------------------------------------------------------
(* `serve`.                                                                *)

StartServe(p) ==
  /\ ~Running(p) /\ boots[p] < MaxBoots[p]
  /\ boots' = [boots EXCEPT ![p] = @ + 1]
  /\ serve' = [serve EXCEPT ![p] = [key |-> key[p], table |-> disk[p]]]
  /\ UNCHANGED <<key, disk, cmd, conns, runs>>

\* Stopped or killed, with its handler threads; sent answers still arrive.
StopServe(p) ==
  /\ Running(p)
  /\ serve' = [serve EXCEPT ![p] = None]
  /\ conns' = {c \in conns : c.to = p => Answered(c)}
  /\ UNCHANGED <<key, disk, cmd, counters>>

CommandStep(p) ==
  \/ ReceiveAccept(p) \/ Notify(p) \/ ReceiveReply(p) \/ FinishRotation(p)
  \/ ConnectionFails(p)

Handle(c) == HandleContactRequest(c) \/ HandleNotice(c) \/ AddSuccessor(c)

Next ==
  \/ \E p \in Peer :
       \/ \E q \in Peer : AddContact(p, q)
       \/ RotateKey(p) \/ SaveIdentity(p) \/ CommandStep(p) \/ Kill(p)
       \/ StartServe(p) \/ StopServe(p)
  \/ \E c \in conns : Handle(c)

Spec == Init /\ [][Next]_vars

\* A command that does not wait for its user goes on: both ends have timeouts
\* and the operating system runs every process.
FairSpec == Spec /\ \A p \in Peer : WF_vars(CommandStep(p))

----------------------------------------------------------------------------
(* Properties.                                                             *)

IsTable(table) ==
  /\ table \in Seq(Record)
  /\ \A i, j \in DOMAIN table : IsOf(table[j], table[i].peer, table[i].key) => i = j

\* Type invariant: tables, in memory and on disk, have one record of each key.
TypeOK ==
  /\ key \in [Peer -> Nat] /\ runs \in [Peer -> Nat] /\ boots \in [Peer -> Nat]
  /\ DOMAIN disk = Peer /\ \A p \in Peer : IsTable(disk[p])
  /\ DOMAIN serve = Peer
  /\ \A p \in Peer : Running(p) =>
       /\ DOMAIN serve[p] = {"key", "table"}
       /\ serve[p].key \in Nat /\ IsTable(serve[p].table)
  /\ DOMAIN cmd = Peer
  /\ \A p \in Peer :
       /\ DOMAIN cmd[p] = {"pc", "key", "table", "next"}
       /\ cmd[p].pc \in {"idle", "await_accept", "confirm", "notify", "await_reply"}
       /\ cmd[p].key \in Nat /\ cmd[p].next \in Nat /\ IsTable(cmd[p].table)
  /\ conns \subseteq
       [from : Peer, run : Nat, next : Nat, to : Peer, kind : {"contact", "notice"},
        key : Nat, open : BOOLEAN, stage : {"arrived", "revoked", "accept", "error"},
        answer : Nat]
  /\ \A c \in conns : Answered(c) \/ Running(c.to)

\* Every table that exists anywhere: on disk, in `serve`, in a command.
Tables ==
  {disk[p] : p \in Peer} \union {serve[p].table : p \in {q \in Peer : Running(q)}}
    \union {cmd[p].table : p \in Peer}

\* Nobody ever knows a key of a peer that is not, or was not, the identity on
\* that peer's own disk, and nobody takes for revoked the one that is there
\* now: a crash of rotate-key at any point leaves the peer able to use the
\* newest key its contacts have heard of (cmd_rotate_key saves the identity
\* before the first notice).
RevocationFollowsRotation ==
  \A table \in Tables : \A i \in DOMAIN table :
    /\ table[i].key <= key[table[i].peer]
    /\ table[i].revoked => table[i].key < key[table[i].peer]

\* A running `serve` that has marked a key revoked never again takes it for
\* active, whichever requests with that key are still on their way
\* (_handle_contact_request, update_address).  This is for one rotation of each
\* peer: a notice that overtakes its predecessor is undone by it.
RevokedForGood ==
  [][\A q \in Peer : Running(q) /\ serve'[q] # None =>
       \A i \in DOMAIN serve[q].table :
         serve[q].table[i].revoked =>
           \E j \in DOMAIN serve'[q].table :
             /\ IsOf(serve'[q].table[j], serve[q].table[i].peer, serve[q].table[i].key)
             /\ serve'[q].table[j].revoked]_vars

\* rotate-key ends once the identity is saved: no contact, offline, silent or
\* restarting, can hold up the others (notify_key_rotation).
RotationEnds == \A p \in Peer : cmd[p].pc \in {"notify", "await_reply"} ~> cmd[p].pc = "idle"

\* _require_contact: the first contact at an address.
Found(table, p) ==
  LET at == {i \in DOMAIN table : table[i].peer = p /\ table[i].open}
  IN  IF at = {} THEN None ELSE table[CHOOSE i \in at : \A j \in at : i <= j]

\* A peer that has an active contact at some address can request files there:
\* request-file does not find the revoked one (_require_contact).
LookupFindsActive ==
  \A q, p \in Peer :
    (\E i \in DOMAIN disk[q] : disk[q][i].peer = p /\ disk[q][i].open /\ ~disk[q][i].revoked)
      => ~Found(disk[q], p).revoked
============================================================================
