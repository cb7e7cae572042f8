------------------------- MODULE ContactStore_proofs -------------------------
(***************************************************************************)
(* Proofs about ContactStore, for any number of handler threads, commands  *)
(* and peers.                                                              *)
(***************************************************************************)
EXTENDS ContactStore, TLAPS

----------------------------------------------------------------------------
(* Tables.                                                                 *)

\* Every record in the table that says "verified" was confirmed by the user.
Backed(table) == \A f \in DOMAIN table : table[f].verified => f \in confirmed

\* A table is a function from some of the fingerprints to records.
LEMMA TableIs ==
  \A table : table \in Table <=> DOMAIN table \subseteq Fp /\ table \in [DOMAIN table -> Entry]
  BY DEF Table

LEMMA FreshIs == Fresh \in Entry /\ ~Fresh.verified
  BY DEF Fresh, Entry

LEMMA EmptyTable == NoContacts \in Table /\ Backed(NoContacts)
<1>1. DOMAIN NoContacts = {} /\ NoContacts \in [{} -> Entry]
  BY DEF NoContacts
<1> QED
  BY <1>1, TableIs DEF Backed

\* Adding a fresh record, or revoking one, keeps a table a table and verifies
\* nothing.
LEMMA PutFresh ==
  ASSUME NEW table \in Table, Backed(table), NEW f \in Fp
  PROVE  Put(table, f, Fresh) \in Table /\ Backed(Put(table, f, Fresh))
<1> DEFINE new == Put(table, f, Fresh)
<1>1. DOMAIN table \subseteq Fp /\ table \in [DOMAIN table -> Entry]
  BY TableIs
<1>2. DOMAIN new = DOMAIN table \union {f}
  BY DEF Put
<1>3. \A g \in DOMAIN new : new[g] = IF g = f THEN Fresh ELSE table[g]
  BY DEF Put
<1>4. \A g \in DOMAIN new : new[g] \in Entry
  BY <1>1, <1>2, <1>3, FreshIs
<1>5. new \in [DOMAIN new -> Entry]
  BY <1>2, <1>4 DEF Put
<1>6. Backed(new)
  BY <1>2, <1>3, FreshIs DEF Backed
<1> HIDE DEF new
<1>7. new \in Table
  BY <1>1, <1>2, <1>5, TableIs
<1> QED
  BY <1>6, <1>7 DEF new

Revoked(table, f, s) == [table EXCEPT ![f].revoked = TRUE, ![f].successor = s]

LEMMA RevokeRecord ==
  ASSUME NEW table \in Table, Backed(table), NEW f \in DOMAIN table, NEW s \in Fp
  PROVE  Revoked(table, f, s) \in Table /\ Backed(Revoked(table, f, s))
<1> DEFINE new == Revoked(table, f, s)
<1>1. DOMAIN table \subseteq Fp /\ table \in [DOMAIN table -> Entry]
  BY TableIs
<1>2. DOMAIN new = DOMAIN table
  BY DEF Revoked
<1>3. \A g \in DOMAIN new : new[g] \in Entry /\ new[g].verified = table[g].verified
  <2> TAKE g \in DOMAIN new
  <2>1. table[g] \in Entry
    BY <1>1, <1>2
  <2> QED
    BY <1>2, <2>1 DEF Revoked, Entry
<1>4. new \in [DOMAIN new -> Entry]
  BY <1>2, <1>3 DEF Revoked
<1>5. Backed(new)
  BY <1>2, <1>3 DEF Backed
<1> HIDE DEF new
<1>6. new \in Table
  BY <1>1, <1>2, <1>4, TableIs
<1> QED
  BY <1>5, <1>6 DEF new

Verified(table, f) == [table EXCEPT ![f].verified = TRUE]

\* Marking a record verified is right once the user has confirmed it.
LEMMA VerifyRecord ==
  ASSUME NEW table \in Table, NEW f, NEW known,
         \A g \in DOMAIN table : table[g].verified => g \in known
  PROVE  /\ Verified(table, f) \in Table
         /\ \A g \in DOMAIN Verified(table, f) :
              Verified(table, f)[g].verified => g \in known \union {f}
<1> DEFINE new == Verified(table, f)
<1>1. DOMAIN table \subseteq Fp /\ table \in [DOMAIN table -> Entry]
  BY TableIs
<1>2. DOMAIN new = DOMAIN table
  BY DEF Verified
<1>3. \A g \in DOMAIN new : new[g] \in Entry /\ (g # f => new[g] = table[g])
  <2> TAKE g \in DOMAIN new
  <2>1. table[g] \in Entry
    BY <1>1, <1>2
  <2> QED
    BY <1>2, <2>1 DEF Verified, Entry
<1>4. new \in [DOMAIN new -> Entry]
  BY <1>2, <1>3 DEF Verified
<1>5. \A g \in DOMAIN new : new[g].verified => g \in known \union {f}
  BY <1>2, <1>3
<1> HIDE DEF new
<1>6. new \in Table
  BY <1>1, <1>2, <1>4, TableIs
<1> QED
  BY <1>5, <1>6 DEF new

----------------------------------------------------------------------------
(* The invariant.                                                          *)

\* Copying the table and writing it out.
Writing == {"save", "copy", "open_enc", "write_enc", "open_meta", "write_meta"}
Saving == {"exchange", "prompt", "insert"} \union Writing

Job == [fp : Fp \union {None}, then : ThreadStates \union CommandStates,
        begun : Table, snap : Table, nonce : Nat]

\* What each process has in memory.
MemOK ==
  /\ mem \in [Process -> Table \union {None}]
  /\ \A p \in Process : Running(p) => Backed(mem[p])

\* What one thread or command is at: what it copies is backed, it works on a
\* contact of a running process, and it knows where to go after its save.
ActorOK(x) ==
  /\ job[x] \in Job /\ Backed(job[x].begun) /\ Backed(job[x].snap)
  /\ x \in Thread => pc[x] \in ThreadStates
  /\ x \in Command => pc[x] \in CommandStates
  /\ pc[x] \notin {"idle", "done"} => Running(Home(x)) /\ job[x].fp \in Fp
  /\ x \in Thread /\ pc[x] \in Saving => job[x].then \in {"reply", "successor", "accept"}
  /\ x \in Command /\ pc[x] \in Saving => job[x].then \in {"added", "told"}
  /\ x \in Thread /\ (\/ pc[x] \in {"successor", "accept"}
                      \/ (pc[x] \in Saving /\ job[x].then \in {"successor", "accept"}))
       => job[x].fp \in DOMAIN Successor

FilesOK ==
  /\ enc \in [nonce : Nat \union {None}, table : Table] /\ Backed(enc.table)
  /\ meta \in Nat \union {None} /\ uses \in Nat

RestOK ==
  /\ messages \in 0..MaxMessages /\ boots \in 0..MaxBoots
  /\ noticed \subseteq DOMAIN Successor /\ overtaken \subseteq Fp
  /\ confirmed \subseteq Fp /\ told \subseteq Fp
  /\ acked \subseteq {"known", "revoked"} \X Fp

ActorsOK ==
  /\ DOMAIN pc = Actor /\ DOMAIN job = Actor
  /\ pc = [x \in Actor |-> pc[x]] /\ job = [x \in Actor |-> job[x]]
  /\ \A x \in Actor : ActorOK(x)

Inv == MemOK /\ FilesOK /\ RestOK /\ ActorsOK

\* The process of a thread is `serve`, that of a command is itself.
LEMMA Homes ==
  /\ \A t \in Thread : Home(t) = "serve"
  /\ \A c \in Command : Home(c) = c /\ c # "serve"
  /\ \A x \in Actor : Home(x) \in Process
  BY StoreAssumption DEF StoreAssumption, Home, Actor, Process

\* A running process has a backed table.
LEMMA RunningTable ==
  ASSUME MemOK, NEW p \in Process, Running(p)
  PROVE  mem[p] \in Table /\ Backed(mem[p])
  BY DEF MemOK, Running

\* Actors other than the one that moves stay in order.
LEMMA OthersOK ==
  ASSUME NEW x \in Actor, ActorOK(x), pc'[x] = pc[x], job'[x] = job[x],
         Running(Home(x)) => Running(Home(x))', confirmed \subseteq confirmed'
  PROVE  ActorOK(x)'
<1>1. Backed(job[x].begun)' /\ Backed(job[x].snap)'
  BY DEF ActorOK, Backed
<1> QED
  BY <1>1 DEF ActorOK, Home

\* A step of x alone keeps the invariant if it keeps x's part of it.
LEMMA OneActor ==
  ASSUME Inv, NEW x \in Actor, NEW to, NEW what,
         pc' = [pc EXCEPT ![x] = to], job' = [job EXCEPT ![x] = what],
         MemOK', \A p \in Process : Running(p) => Running(p)', confirmed \subseteq confirmed',
         FilesOK', RestOK', ActorOK(x)'
  PROVE  Inv'
<1>1. ActorsOK
  BY DEF Inv
<1>2. /\ DOMAIN pc' = Actor /\ DOMAIN job' = Actor
      /\ pc' = [y \in Actor |-> pc'[y]] /\ job' = [y \in Actor |-> job'[y]]
  BY <1>1 DEF ActorsOK
<1>3. ASSUME NEW y \in Actor PROVE ActorOK(y)'
  <2>1. CASE y = x
    BY <2>1
  <2>2. CASE y # x
    <3>1. pc'[y] = pc[y] /\ job'[y] = job[y]
      BY <1>1, <2>2 DEF ActorsOK
    <3>2. Running(Home(y)) => Running(Home(y))'
      BY Homes DEF Home
    <3> QED
      BY <1>1, <3>1, <3>2, OthersOK DEF ActorsOK
  <2> QED
    BY <2>1, <2>2
<1> QED
  BY <1>2, <1>3 DEF Inv, ActorsOK

\* An actor that keeps its place, or its job, keeps it as an update of itself.
LEMMA Kept ==
  ASSUME ActorsOK, NEW x \in Actor
  PROVE  pc = [pc EXCEPT ![x] = pc[x]] /\ job = [job EXCEPT ![x] = job[x]]
  BY DEF ActorsOK

LEMMA MemKept ==
  ASSUME MemOK, UNCHANGED mem, confirmed \subseteq confirmed'
  PROVE  MemOK' /\ \A p \in Process : Running(p) => Running(p)'
<1>1. \A p \in Process : Running(p) => Backed(mem[p])'
  BY DEF MemOK, Backed
<1> QED
  BY <1>1 DEF MemOK, Running

LEMMA MemChanged ==
  ASSUME MemOK, NEW p \in Process, NEW table \in Table, Backed(table),
         mem' = [mem EXCEPT ![p] = table], UNCHANGED confirmed
  PROVE  MemOK' /\ \A q \in Process : Running(q) => Running(q)'
<1>1. mem' \in [Process -> Table \union {None}] /\ table # None
  BY NoneIsNoTable DEF MemOK
<1>2. mem'[p] = table /\ \A q \in Process : q # p => mem'[q] = mem[q]
  BY DEF MemOK
<1>3. \A q \in Process : Running(q)' => Backed(mem[q])'
  BY <1>2 DEF MemOK, Backed, Running
<1> QED
  BY <1>1, <1>2, <1>3 DEF MemOK, Running

LEMMA FilesKept ==
  ASSUME FilesOK, UNCHANGED files, confirmed \subseteq confirmed'
  PROVE  FilesOK'
  BY DEF FilesOK, Backed, files

Moved(j, f, then) == [j EXCEPT !.fp = f, !.then = then]

LEMMA MovedJob ==
  ASSUME NEW j \in Job, NEW f \in Fp, NEW then \in ThreadStates \union CommandStates
  PROVE  /\ Moved(j, f, then) \in Job
         /\ Moved(j, f, then).fp = f /\ Moved(j, f, then).then = then
         /\ Moved(j, f, then).begun = j.begun /\ Moved(j, f, then).snap = j.snap
  BY DEF Moved, Job

LEMMA GotoIs ==
  ASSUME ActorsOK, NEW x \in Actor, NEW to, NEW f, NEW then, Goto(x, to, f, then)
  PROVE  pc' = [pc EXCEPT ![x] = to] /\ job' = [job EXCEPT ![x] = Moved(job[x], f, then)]
  BY DEF Goto, Moved, ActorsOK

----------------------------------------------------------------------------
(* Every action keeps the invariant.                                       *)

LEMMA InitInv == Init => Inv
<1> SUFFICES ASSUME Init PROVE Inv
  OBVIOUS
<1>1. MemOK
  BY DEF Init, MemOK, Running
<1>2. NoJob \in Job /\ NoJob.begun = NoContacts /\ NoJob.snap = NoContacts
  BY EmptyTable DEF NoJob, Job, ThreadStates
<1>3. \A x \in Actor : ActorOK(x)
  BY <1>2, EmptyTable DEF Init, ActorOK, ThreadStates, CommandStates, Saving, Writing
<1>4. ActorsOK
  BY <1>3 DEF Init, ActorsOK
<1>5. FilesOK
  <2> DEFINE first == [f \in Old |-> Fresh]
  <2>1. first \in Table
    BY FreshIs, TableIs, StoreAssumption DEF StoreAssumption
  <2>2. Backed(first)
    BY FreshIs DEF Backed
  <2> HIDE DEF first
  <2>3. enc = [nonce |-> 0, table |-> first] /\ meta = 0 /\ uses = 0
    BY DEF Init, first
  <2> QED
    BY <2>1, <2>2, <2>3 DEF FilesOK
<1>6. RestOK
  BY StoreAssumption DEF Init, RestOK, StoreAssumption
<1> QED
  BY <1>1, <1>4, <1>5, <1>6 DEF Inv

LEMMA ContactRequestInv ==
  ASSUME Inv, NEW t \in Thread, ContactRequest(t)
  PROVE  Inv'
<1>1. MemOK /\ FilesOK /\ RestOK /\ ActorsOK /\ t \in Actor /\ ActorOK(t)
  BY DEF Inv, ActorsOK, Actor
<1>2. Running("serve") /\ pc[t] = "idle" /\ UNCHANGED <<mem, files, boots, noticed, history>>
  BY DEF ContactRequest, Receives
<1>3. UNCHANGED confirmed /\ MemOK' /\ \A p \in Process : Running(p) => Running(p)'
  BY <1>1, <1>2, MemKept DEF history
<1>4. FilesOK'
  BY <1>1, <1>2, FilesKept DEF history
<1>5. RestOK'
  <2>1. messages < MaxMessages /\ messages' = messages + 1
    BY DEF ContactRequest, Receives
  <2>2. messages' \in 0..MaxMessages
    BY <1>1, <2>1, StoreAssumption DEF RestOK, StoreAssumption
  <2> QED
    BY <1>1, <1>2, <2>2 DEF RestOK, history
<1>6. CASE UNCHANGED <<pc, job>>
  <2>1. ActorOK(t)'
    BY <1>1, <1>3, <1>6, Homes, OthersOK
  <2> QED
    BY <1>1, <1>3, <1>4, <1>5, <1>6, <2>1, Kept, OneActor
<1>7. ASSUME NEW f \in Fp, NEW to \in {"save", "insert"}, Goto(t, to, f, "reply")
      PROVE  Inv'
  <2> DEFINE what == Moved(job[t], f, "reply")
  <2>1. pc' = [pc EXCEPT ![t] = to] /\ job' = [job EXCEPT ![t] = what]
    BY <1>1, <1>7, GotoIs
  <2>2. pc'[t] = to /\ job'[t] = what
    BY <1>1, <2>1 DEF ActorsOK
  <2>3. job[t] \in Job /\ "reply" \in ThreadStates \union CommandStates
    BY <1>1 DEF ActorOK, ThreadStates
  <2>4. /\ what \in Job /\ what.fp = f /\ what.then = "reply"
        /\ what.begun = job[t].begun /\ what.snap = job[t].snap
    BY <2>3, MovedJob
  <2> HIDE DEF what
  <2>5. Backed(job[t].begun)' /\ Backed(job[t].snap)'
    BY <1>1, <1>3, <2>2, <2>4 DEF ActorOK, Backed
  <2>6. ActorOK(t)'
    BY <1>2, <1>3, <2>2, <2>4, <2>5, Homes, StoreAssumption
       DEF ActorOK, ThreadStates, CommandStates, Saving, Writing, StoreAssumption, Process
  <2> QED
    BY <1>1, <1>3, <1>4, <1>5, <2>1, <2>6, OneActor
<1> QED
  BY <1>6, <1>7 DEF ContactRequest

\* A step of x within its work, or to what follows it, that changes neither what
\* it works on nor the user's answers.
LEMMA Advance ==
  ASSUME Inv, NEW x \in Actor, NEW to, NEW what \in Job,
         pc' = [pc EXCEPT ![x] = to], job' = [job EXCEPT ![x] = what],
         what.fp = job[x].fp, what.then = job[x].then, Backed(what.begun), Backed(what.snap),
         UNCHANGED confirmed, MemOK', \A p \in Process : Running(p) => Running(p)',
         FilesOK', RestOK',
         pc[x] \in Saving, to \in Writing \union {"insert", job[x].then}
  PROVE  Inv'
<1>1. ActorsOK /\ ActorOK(x) /\ (x \in Thread \/ x \in Command)
  BY DEF Inv, ActorsOK, Actor
<1>2. pc'[x] = to /\ job'[x] = what
  BY <1>1 DEF ActorsOK
<1>3. Backed(job[x].begun)' /\ Backed(job[x].snap)'
  BY <1>2 DEF Backed
<1>4. Running(Home(x))' /\ job[x].fp \in Fp
  <2>1. pc[x] \notin {"idle", "done"}
    BY DEF Saving, Writing
  <2> QED
    BY <1>1, <2>1, Homes DEF ActorOK, Home
<1>5. CASE x \in Thread
  <2>1. x \notin Command /\ job[x].then \in {"reply", "successor", "accept"}
    BY <1>1, <1>5, StoreAssumption DEF ActorOK, StoreAssumption
  <2>2. to \in ThreadStates /\ (to \in {"successor", "accept"} => to = job[x].then)
    BY <2>1 DEF ThreadStates, Writing
  <2>3. job[x].then \in {"successor", "accept"} => job[x].fp \in DOMAIN Successor
    BY <1>1, <1>5, <2>1 DEF ActorOK
  <2>4. ActorOK(x)'
    BY <1>2, <1>3, <1>4, <2>1, <2>2, <2>3 DEF ActorOK
  <2> QED
    BY <1>1, <1>2, <2>4, OneActor DEF Inv
<1>6. CASE x \in Command
  <2>1. x \notin Thread /\ job[x].then \in {"added", "told"}
    BY <1>1, <1>6, StoreAssumption DEF ActorOK, StoreAssumption
  <2>2. to \in CommandStates
    BY <2>1 DEF CommandStates, Writing
  <2>3. ActorOK(x)'
    BY <1>2, <1>3, <1>4, <2>1, <2>2 DEF ActorOK
  <2> QED
    BY <1>1, <1>2, <2>3, OneActor DEF Inv
<1> QED
  BY <1>1, <1>5, <1>6

LEMMA RestKept ==
  ASSUME RestOK, UNCHANGED <<world, acked, told, overtaken>>, confirmed' \subseteq Fp
  PROVE  RestOK'
  BY DEF RestOK, world

\* An actor in the middle of its work has a table in memory.
LEMMA AtWork ==
  ASSUME Inv, NEW x \in Actor, pc[x] \in Saving \union {"successor"}
  PROVE  /\ MemOK /\ FilesOK /\ RestOK /\ ActorsOK /\ ActorOK(x)
         /\ Home(x) \in Process /\ Running(Home(x)) /\ job[x].fp \in Fp /\ job[x] \in Job
         /\ mem[Home(x)] \in Table /\ Backed(mem[Home(x)])
<1>1. MemOK /\ FilesOK /\ RestOK /\ ActorsOK /\ ActorOK(x)
  BY DEF Inv, ActorsOK
<1>2. pc[x] \notin {"idle", "done"}
  BY DEF Saving, Writing
<1>3. Running(Home(x)) /\ job[x].fp \in Fp /\ job[x] \in Job /\ Home(x) \in Process
  BY <1>1, <1>2, Homes DEF ActorOK
<1> QED
  BY <1>1, <1>3, RunningTable

\* It may keep its job.
LEMMA SameJob ==
  ASSUME Inv, NEW x \in Actor, pc[x] \in Saving \union {"successor"}, UNCHANGED job
  PROVE  /\ job' = [job EXCEPT ![x] = job[x]] /\ job[x] \in Job
         /\ Backed(job[x].begun) /\ Backed(job[x].snap)
  BY AtWork, Kept DEF ActorOK

LEMMA InsertInv ==
  ASSUME Inv, NEW x \in Actor, Insert(x)
  PROVE  Inv'
<1>1. /\ pc[x] = "insert" /\ pc[x] \in Saving /\ pc' = [pc EXCEPT ![x] = "save"]
      /\ mem' = [mem EXCEPT ![Home(x)] = Put(mem[Home(x)], job[x].fp, Fresh)]
      /\ UNCHANGED <<job, files, world, acked, told, confirmed, overtaken>>
  BY DEF Insert, Saving, Writing, history
<1>2. /\ MemOK /\ FilesOK /\ RestOK /\ job[x].fp \in Fp /\ Home(x) \in Process
      /\ mem[Home(x)] \in Table /\ Backed(mem[Home(x)])
  BY <1>1, AtWork
<1>3. MemOK' /\ \A p \in Process : Running(p) => Running(p)'
  BY <1>1, <1>2, PutFresh, MemChanged
<1>4. FilesOK' /\ RestOK'
  BY <1>1, <1>2, FilesKept, RestKept DEF RestOK
<1>5. "save" \in Writing
  BY DEF Writing
<1> QED
  BY <1>1, <1>3, <1>4, <1>5, SameJob, Advance

LEMMA ExchangedInv ==
  ASSUME Inv, NEW c \in Command, Exchanged(c)
  PROVE  Inv'
<1>1. c \in Actor /\ c \notin Thread
  BY StoreAssumption DEF Actor, StoreAssumption
<1>2. PICK to \in {"save", "insert"} : pc' = [pc EXCEPT ![c] = to]
  BY DEF Exchanged
<1>3. /\ pc[c] = "exchange" /\ pc[c] \in Saving
      /\ UNCHANGED <<mem, job, files, world, acked, told, confirmed, overtaken>>
  BY DEF Exchanged, Saving, Writing, history
<1>4. MemOK /\ FilesOK /\ RestOK
  BY DEF Inv
<1>5. FilesOK' /\ RestOK' /\ MemOK' /\ \A p \in Process : Running(p) => Running(p)'
  BY <1>3, <1>4, FilesKept, RestKept, MemKept DEF RestOK
<1>6. to \in Writing \union {"insert", job[c].then}
  BY DEF Writing
<1> QED
  BY <1>1, <1>2, <1>3, <1>5, <1>6, SameJob, Advance

LEMMA OpenEncInv ==
  ASSUME Inv, NEW x \in Actor, OpenEnc(x)
  PROVE  Inv'
<1>1. /\ pc[x] = "open_enc" /\ pc[x] \in Saving /\ pc' = [pc EXCEPT ![x] = "write_enc"]
      /\ enc' = [enc EXCEPT !.nonce = None]
      /\ UNCHANGED <<mem, job, meta, uses, world, acked, told, confirmed, overtaken>>
  BY DEF OpenEnc, Saving, Writing, history
<1>2. MemOK /\ FilesOK /\ RestOK
  BY DEF Inv
<1>3. RestOK' /\ MemOK' /\ \A p \in Process : Running(p) => Running(p)'
  BY <1>1, <1>2, RestKept, MemKept DEF RestOK
<1>4. FilesOK'
  BY <1>1, <1>2 DEF FilesOK, Backed
<1>5. "write_enc" \in Writing
  BY DEF Writing
<1> QED
  BY <1>1, <1>3, <1>4, <1>5, SameJob, Advance

LEMMA OpenMetaInv ==
  ASSUME Inv, NEW x \in Actor, OpenMeta(x)
  PROVE  Inv'
<1>1. /\ pc[x] = "open_meta" /\ pc[x] \in Saving /\ pc' = [pc EXCEPT ![x] = "write_meta"]
      /\ meta' = None
      /\ UNCHANGED <<mem, job, enc, uses, world, acked, told, confirmed, overtaken>>
  BY DEF OpenMeta, Saving, Writing, history
<1>2. MemOK /\ FilesOK /\ RestOK
  BY DEF Inv
<1>3. RestOK' /\ MemOK' /\ \A p \in Process : Running(p) => Running(p)'
  BY <1>1, <1>2, RestKept, MemKept DEF RestOK
<1>4. FilesOK'
  BY <1>1, <1>2 DEF FilesOK, Backed
<1>5. "write_meta" \in Writing
  BY DEF Writing
<1> QED
  BY <1>1, <1>3, <1>4, <1>5, SameJob, Advance

LEMMA WriteMetaInv ==
  ASSUME Inv, NEW x \in Actor, WriteMeta(x)
  PROVE  Inv'
<1> DEFINE what == [job[x] EXCEPT !.nonce = 0]
<1>1. /\ pc[x] = "write_meta" /\ pc[x] \in Saving
      /\ pc' = [pc EXCEPT ![x] = job[x].then] /\ meta' = job[x].nonce
      /\ UNCHANGED <<mem, enc, uses, world, acked, told, confirmed, overtaken>>
  BY DEF WriteMeta, MetaFor, Saving, Writing, history
<1>2. MemOK /\ FilesOK /\ RestOK /\ ActorsOK /\ ActorOK(x) /\ job[x] \in Job
  BY <1>1, AtWork
<1>3. RestOK' /\ MemOK' /\ \A p \in Process : Running(p) => Running(p)'
  BY <1>1, <1>2, RestKept, MemKept DEF RestOK
<1>4. FilesOK'
  <2>1. meta' \in Nat
    BY <1>1, <1>2 DEF Job
  <2> QED
    BY <1>1, <1>2, <2>1 DEF FilesOK, Backed
<1>5. job' = [job EXCEPT ![x] = what]
  BY <1>2 DEF WriteMeta, ActorsOK
<1>6. /\ what \in Job /\ what.fp = job[x].fp /\ what.then = job[x].then
      /\ what.begun = job[x].begun /\ what.snap = job[x].snap
  BY <1>2 DEF Job
<1>7. Backed(what.begun) /\ Backed(what.snap)
  BY <1>2, <1>6 DEF ActorOK
<1> HIDE DEF what
<1> QED
  BY <1>1, <1>3, <1>4, <1>5, <1>6, <1>7, Advance

\* A command that ends takes no one else with it.
LEMMA QuitInv ==
  ASSUME Inv, NEW c \in Command, Quit(c), UNCHANGED confirmed, FilesOK', RestOK'
  PROVE  Inv'
<1>1. c \in Actor /\ c \notin Thread /\ c \in Process
  BY StoreAssumption DEF Actor, Process, StoreAssumption
<1>2. MemOK /\ ActorsOK
  BY DEF Inv
<1>3. /\ mem' \in [Process -> Table \union {None}]
      /\ mem'[c] = None /\ \A p \in Process : p # c => mem'[p] = mem[p]
  BY <1>1, <1>2 DEF Quit, MemOK
<1>4. MemOK'
  BY <1>2, <1>3 DEF MemOK, Running, Backed
<1>5. /\ pc'[c] = "done" /\ job'[c] = NoJob
      /\ \A x \in Actor : x # c => pc'[x] = pc[x] /\ job'[x] = job[x]
      /\ DOMAIN pc' = Actor /\ DOMAIN job' = Actor
      /\ pc' = [y \in Actor |-> pc'[y]] /\ job' = [y \in Actor |-> job'[y]]
  BY <1>1, <1>2 DEF Quit, ActorsOK
<1>6. ASSUME NEW x \in Actor PROVE ActorOK(x)'
  <2>1. CASE x = c
    <3>1. NoJob \in Job /\ NoJob.begun = NoContacts /\ NoJob.snap = NoContacts
      BY EmptyTable DEF NoJob, Job, ThreadStates
    <3>2. Backed(NoContacts)'
      BY DEF Backed, NoContacts
    <3> QED
      BY <1>1, <1>5, <2>1, <3>1, <3>2 DEF ActorOK, CommandStates, Saving, Writing
  <2>2. CASE x # c
    <3>1. Home(x) # c /\ Home(x) \in Process
      BY <2>2, Homes DEF Actor
    <3>2. Running(Home(x)) => Running(Home(x))'
      BY <1>3, <3>1 DEF Running, Home
    <3> QED
      BY <1>2, <1>5, <2>2, <3>2, OthersOK DEF ActorsOK
  <2> QED
    BY <2>1, <2>2
<1> QED
  BY <1>4, <1>5, <1>6 DEF Inv, ActorsOK

LEMMA TellInv ==
  ASSUME Inv, NEW c \in Command, Tell(c)
  PROVE  Inv'
<1>1. /\ pc[c] \in {"added", "told"} /\ Quit(c)
      /\ told' \subseteq told \union {job[c].fp}
      /\ UNCHANGED <<files, world, acked, confirmed, overtaken>>
  BY DEF Tell
<1>2. c \in Actor /\ FilesOK /\ RestOK /\ job[c].fp \in Fp
  BY <1>1 DEF Actor, Inv, ActorsOK, ActorOK
<1>3. FilesOK'
  BY <1>1, <1>2, FilesKept
<1>4. RestOK'
  BY <1>1, <1>2 DEF RestOK, world
<1> QED
  BY <1>1, <1>3, <1>4, QuitInv

LEMMA AbortInv ==
  ASSUME Inv, NEW c \in Command, Abort(c)
  PROVE  Inv'
<1>1. Quit(c) /\ UNCHANGED <<files, world, acked, told, confirmed, overtaken>>
  BY DEF Abort, history
<1>2. FilesOK /\ RestOK
  BY DEF Inv
<1>3. FilesOK' /\ RestOK'
  BY <1>1, <1>2, FilesKept, RestKept DEF RestOK
<1> QED
  BY <1>1, <1>3, QuitInv

\* A step of a save that fills in the job and goes on saving.
LEMMA SaveGoesOn ==
  ASSUME Inv, NEW x \in Actor, NEW to \in Writing, NEW what \in Job,
         pc[x] \in Saving, pc' = [pc EXCEPT ![x] = to], job' = [job EXCEPT ![x] = what],
         what.fp = job[x].fp, what.then = job[x].then, Backed(what.begun), Backed(what.snap),
         UNCHANGED <<mem, world, acked, told, confirmed, overtaken>>, FilesOK'
  PROVE  Inv'
<1>1. MemOK /\ RestOK
  BY DEF Inv
<1>2. RestOK' /\ MemOK' /\ \A p \in Process : Running(p) => Running(p)'
  BY <1>1, RestKept, MemKept DEF RestOK
<1> QED
  BY <1>2, Advance

LEMMA SaveBeginsInv ==
  ASSUME Inv, NEW x \in Actor, SaveBegins(x)
  PROVE  Inv'
<1> DEFINE what == [job[x] EXCEPT !.begun = mem[Home(x)]]
<1>1. /\ pc[x] = "save" /\ pc[x] \in Saving /\ pc' = [pc EXCEPT ![x] = "copy"]
      /\ UNCHANGED <<mem, files, world, acked, told, confirmed, overtaken>>
  BY DEF SaveBegins, Saving, Writing, history
<1>2. /\ FilesOK /\ ActorsOK /\ ActorOK(x) /\ job[x] \in Job
      /\ mem[Home(x)] \in Table /\ Backed(mem[Home(x)])
  BY <1>1, AtWork
<1>3. job' = [job EXCEPT ![x] = what]
  BY <1>2 DEF SaveBegins, ActorsOK
<1>4. /\ what \in Job /\ what.fp = job[x].fp /\ what.then = job[x].then
      /\ what.begun = mem[Home(x)] /\ what.snap = job[x].snap
  BY <1>2 DEF Job
<1>5. FilesOK'
  BY <1>1, <1>2, FilesKept
<1>6. Backed(what.begun) /\ Backed(what.snap)
  BY <1>2, <1>4 DEF ActorOK
<1>7. "copy" \in Writing
  BY DEF Writing
<1> HIDE DEF what
<1> QED
  BY <1>1, <1>3, <1>4, <1>5, <1>6, <1>7, SaveGoesOn

\* What is copied, record by record, from two backed tables is backed.
LEMMA CopyRecords ==
  ASSUME NEW now \in Table, NEW begun \in Table, Backed(now), Backed(begun),
         DOMAIN now = DOMAIN begun, NEW fresh
  PROVE  LET snap == [f \in DOMAIN now |-> IF f \in fresh THEN now[f] ELSE begun[f]]
         IN  snap \in Table /\ Backed(snap)
<1> DEFINE snap == [f \in DOMAIN now |-> IF f \in fresh THEN now[f] ELSE begun[f]]
<1>1. DOMAIN now \subseteq Fp /\ now \in [DOMAIN now -> Entry] /\ begun \in [DOMAIN now -> Entry]
  BY TableIs
<1>2. DOMAIN snap = DOMAIN now /\ \A f \in DOMAIN now : snap[f] \in {now[f], begun[f]}
  OBVIOUS
<1>3. snap \in [DOMAIN snap -> Entry]
  BY <1>1, <1>2
<1>4. Backed(snap)
  BY <1>2 DEF Backed
<1> HIDE DEF snap
<1>5. snap \in Table
  BY <1>1, <1>2, <1>3, TableIs
<1> QED
  BY <1>4, <1>5 DEF snap

LEMMA CopyInv ==
  ASSUME Inv, NEW x \in Actor, Copy(x)
  PROVE  Inv'
<1>1. /\ pc[x] = "copy" /\ pc[x] \in Saving
      /\ UNCHANGED <<mem, files, world, acked, told, confirmed, overtaken>>
  BY DEF Copy, Saving, Writing, history
<1>2. /\ MemOK /\ FilesOK /\ RestOK /\ ActorsOK /\ ActorOK(x) /\ job[x] \in Job
      /\ mem[Home(x)] \in Table /\ Backed(mem[Home(x)])
  BY <1>1, AtWork
<1>3. FilesOK'
  BY <1>1, <1>2, FilesKept
<1>4. CASE pc' = [pc EXCEPT ![x] = "idle"] /\ job' = [job EXCEPT ![x] = NoJob]
  <2>1. RestOK' /\ MemOK' /\ \A p \in Process : Running(p) => Running(p)'
    BY <1>1, <1>2, RestKept, MemKept DEF RestOK
  <2>2. pc'[x] = "idle" /\ job'[x] = NoJob
    BY <1>2, <1>4 DEF ActorsOK
  <2>3. NoJob \in Job /\ NoJob.begun = NoContacts /\ NoJob.snap = NoContacts
    BY EmptyTable DEF NoJob, Job, ThreadStates
  <2>4. Backed(NoContacts)'
    BY DEF Backed, NoContacts
  <2>5. ActorOK(x)'
    BY <2>2, <2>3, <2>4 DEF ActorOK, ThreadStates, CommandStates, Saving, Writing
  <2> QED
    BY <1>1, <1>2, <1>3, <1>4, <2>1, <2>5, OneActor
<1>5. ASSUME NEW fresh,
             DOMAIN mem[Home(x)] = DOMAIN job[x].begun,
             pc' = [pc EXCEPT ![x] = "open_enc"],
             job' = [job EXCEPT ![x].begun = NoContacts,
                                ![x].snap =
                       [f \in DOMAIN mem[Home(x)] |->
                          IF f \in fresh THEN mem[Home(x)][f] ELSE job[x].begun[f]]]
      PROVE  Inv'
  <2> DEFINE snap == [f \in DOMAIN mem[Home(x)] |->
                        IF f \in fresh THEN mem[Home(x)][f] ELSE job[x].begun[f]]
             what == [job[x] EXCEPT !.begun = NoContacts, !.snap = snap]
  <2>1. job[x].begun \in Table /\ Backed(job[x].begun)
    BY <1>2 DEF ActorOK, Job
  <2>2. snap \in Table /\ Backed(snap)
    BY <1>2, <1>5, <2>1, CopyRecords
  <2>3. job' = [job EXCEPT ![x].begun = NoContacts, ![x].snap = snap]
    BY <1>5
  <2> HIDE DEF snap
  <2>4. job' = [job EXCEPT ![x] = what]
    BY <1>2, <2>3 DEF ActorsOK
  <2>5. /\ what \in Job /\ what.fp = job[x].fp /\ what.then = job[x].then
        /\ what.begun = NoContacts /\ what.snap = snap
    BY <1>2, <2>2, EmptyTable DEF Job
  <2> HIDE DEF what
  <2>6. "open_enc" \in Writing
    BY DEF Writing
  <2> QED
    BY <1>1, <1>3, <1>5, EmptyTable, <2>2, <2>4, <2>5, <2>6, SaveGoesOn
<1> QED
  BY <1>4, <1>5 DEF Copy

LEMMA WriteEncInv ==
  ASSUME Inv, NEW x \in Actor, WriteEnc(x)
  PROVE  Inv'
<1> DEFINE what == [job[x] EXCEPT !.snap = NoContacts, !.nonce = uses + 1]
<1>1. /\ pc[x] = "write_enc" /\ pc[x] \in Saving /\ pc' = [pc EXCEPT ![x] = "open_meta"]
      /\ uses' = uses + 1
      /\ UNCHANGED <<mem, meta, world, acked, told, confirmed, overtaken>>
  BY DEF WriteEnc, Saving, Writing, history
<1>2. PICK nonce \in {uses + 1, None} : enc' = [nonce |-> nonce, table |-> job[x].snap]
  BY DEF WriteEnc
<1>3. FilesOK /\ ActorsOK /\ ActorOK(x) /\ job[x] \in Job
  BY <1>1, AtWork
<1>4. job[x].snap \in Table /\ Backed(job[x].snap) /\ Backed(job[x].begun)
  BY <1>3 DEF ActorOK, Job
<1>5. job' = [job EXCEPT ![x] = what]
  BY <1>3 DEF WriteEnc, ActorsOK
<1>6. uses \in Nat /\ uses + 1 \in Nat /\ meta \in Nat \union {None}
  BY <1>3 DEF FilesOK
<1>7. /\ what \in Job /\ what.fp = job[x].fp /\ what.then = job[x].then
      /\ what.begun = job[x].begun /\ what.snap = NoContacts
  BY <1>3, <1>6, EmptyTable DEF Job
<1>8. FilesOK'
  BY <1>1, <1>2, <1>4, <1>6 DEF FilesOK, Backed
<1>9. "open_meta" \in Writing
  BY DEF Writing
<1> HIDE DEF what
<1> QED
  BY <1>1, <1>4, <1>5, <1>7, <1>8, <1>9, EmptyTable, SaveGoesOn

\* x takes up contact f and goes to work on it.
LEMMA TakesUp ==
  ASSUME Inv, NEW x \in Actor, NEW to \in {"save", "insert", "exchange", "prompt"}, NEW f \in Fp,
         NEW then \in {"reply", "successor", "added", "told"}, Goto(x, to, f, then),
         x \in Thread => then \in {"reply", "successor"},
         x \in Thread => to \in {"save", "insert"},
         x \in Thread /\ then = "successor" => f \in DOMAIN Successor,
         x \in Command => then \in {"added", "told"},
         MemOK', \A p \in Process : Running(p) => Running(p)', Running(Home(x))',
         UNCHANGED confirmed, FilesOK', RestOK'
  PROVE  Inv'
<1> DEFINE what == Moved(job[x], f, then)
<1>1. ActorsOK /\ ActorOK(x)
  BY DEF Inv, ActorsOK
<1>2. pc' = [pc EXCEPT ![x] = to] /\ job' = [job EXCEPT ![x] = what]
  BY <1>1, GotoIs
<1>3. pc'[x] = to /\ job'[x] = what
  BY <1>1, <1>2 DEF ActorsOK
<1>4. job[x] \in Job /\ then \in ThreadStates \union CommandStates
  BY <1>1 DEF ActorOK, ThreadStates, CommandStates
<1>5. /\ what \in Job /\ what.fp = f /\ what.then = then
      /\ what.begun = job[x].begun /\ what.snap = job[x].snap
  BY <1>4, MovedJob
<1> HIDE DEF what
<1>6. Backed(job[x].begun)' /\ Backed(job[x].snap)'
  BY <1>1, <1>3, <1>5 DEF ActorOK, Backed
<1>7. CASE x \in Thread
  <2>1. x \notin Command /\ then \in {"reply", "successor"} /\ to \in {"save", "insert"}
    BY <1>7, StoreAssumption DEF StoreAssumption
  <2>2. ActorOK(x)'
    BY <1>3, <1>5, <1>6, <1>7, <2>1 DEF ActorOK, ThreadStates, Saving, Writing
  <2> QED
    BY <1>1, <1>2, <2>2, OneActor
<1>8. CASE x \in Command
  <2>1. x \notin Thread /\ then \in {"added", "told"}
    BY <1>8, StoreAssumption DEF StoreAssumption
  <2>2. ActorOK(x)'
    BY <1>3, <1>5, <1>6, <1>8, <2>1 DEF ActorOK, CommandStates, Saving, Writing
  <2> QED
    BY <1>1, <1>2, <2>2, OneActor
<1> QED
  BY <1>7, <1>8 DEF Actor

LEMMA KeyRotateInv ==
  ASSUME Inv, NEW t \in Thread, KeyRotate(t)
  PROVE  Inv'
<1>1. MemOK /\ FilesOK /\ RestOK /\ ActorsOK /\ ActorOK(t) /\ t \in Actor /\ t \notin Command
  BY StoreAssumption DEF Inv, ActorsOK, Actor, StoreAssumption
<1>2. Running("serve") /\ UNCHANGED <<files, boots, confirmed, acked, told>>
  BY DEF KeyRotate, Receives, history
<1>3. PICK f \in DOMAIN Successor :
        /\ noticed' = noticed \union {f}
        /\ overtaken' \subseteq overtaken \union {Successor[f]}
        /\ \/ UNCHANGED <<mem, pc, job>>
           \/ /\ Known(mem["serve"], f)
              /\ mem' = [mem EXCEPT !["serve"][f].revoked = TRUE,
                                    !["serve"][f].successor = Successor[f]]
              /\ Goto(t, "save", f, "successor")
  BY DEF KeyRotate
<1>4. f \in Fp /\ Successor[f] \in Fp
  BY StoreAssumption DEF StoreAssumption
<1>5. FilesOK'
  BY <1>1, <1>2, FilesKept
<1>6. RestOK'
  <2>1. messages < MaxMessages /\ messages' = messages + 1
    BY DEF KeyRotate, Receives
  <2>2. messages' \in 0..MaxMessages
    BY <1>1, <2>1, StoreAssumption DEF RestOK, StoreAssumption
  <2> QED
    BY <1>1, <1>2, <1>3, <1>4, <2>2 DEF RestOK
<1>7. CASE UNCHANGED <<mem, pc, job>>
  <2>1. MemOK' /\ \A p \in Process : Running(p) => Running(p)'
    BY <1>1, <1>2, <1>7, MemKept
  <2>2. ActorOK(t)'
    BY <1>1, <1>2, <1>7, <2>1, Homes, OthersOK
  <2> QED
    BY <1>1, <1>2, <1>5, <1>6, <1>7, <2>1, <2>2, Kept, OneActor
<1>8. CASE /\ Known(mem["serve"], f)
           /\ mem' = [mem EXCEPT !["serve"][f].revoked = TRUE,
                                 !["serve"][f].successor = Successor[f]]
           /\ Goto(t, "save", f, "successor")
  <2>1. "serve" \in Process /\ mem["serve"] \in Table /\ Backed(mem["serve"])
    BY <1>1, <1>2, RunningTable DEF Process
  <2>2. f \in DOMAIN mem["serve"]
    BY <1>8 DEF Known
  <2>3. mem' = [mem EXCEPT !["serve"] = Revoked(mem["serve"], f, Successor[f])]
    BY <1>1, <1>8, <2>1 DEF Revoked, MemOK
  <2>4. /\ Revoked(mem["serve"], f, Successor[f]) \in Table
        /\ Backed(Revoked(mem["serve"], f, Successor[f]))
    BY <1>4, <2>1, <2>2, RevokeRecord
  <2>5. MemOK' /\ \A p \in Process : Running(p) => Running(p)'
    BY <1>1, <1>2, <2>1, <2>3, <2>4, MemChanged
  <2>6. Running(Home(t))'
    BY <1>2, <2>1, <2>5, Homes DEF Home
  <2> QED
    BY <1>1, <1>2, <1>4, <1>5, <1>6, <1>8, <2>5, <2>6, TakesUp
<1> QED
  BY <1>3, <1>7, <1>8

LEMMA AddSuccessorInv ==
  ASSUME Inv, NEW t \in Thread, AddSuccessor(t)
  PROVE  Inv'
<1> DEFINE what == [job[t] EXCEPT !.then = "accept"]
           f == job[t].fp
<1>1. t \in Actor /\ t \notin Command
  BY StoreAssumption DEF Actor, StoreAssumption
<1>2. /\ pc[t] = "successor" /\ pc' = [pc EXCEPT ![t] = "save"]
      /\ mem' = [mem EXCEPT !["serve"] = Put(mem["serve"], Successor[f], Fresh)]
      /\ UNCHANGED <<files, world, acked, told, confirmed, overtaken>>
  BY DEF AddSuccessor, SuccessorOf, history
<1>3. /\ MemOK /\ FilesOK /\ RestOK /\ ActorsOK /\ ActorOK(t) /\ job[t] \in Job /\ f \in Fp
      /\ "serve" \in Process /\ mem["serve"] \in Table /\ Backed(mem["serve"])
      /\ Running("serve")
  BY <1>1, <1>2, AtWork, Homes
<1>4. f \in DOMAIN Successor /\ Successor[f] \in Fp
  BY <1>2, <1>3, StoreAssumption DEF ActorOK, StoreAssumption
<1>5. MemOK' /\ \A p \in Process : Running(p) => Running(p)'
  BY <1>2, <1>3, <1>4, PutFresh, MemChanged
<1>6. FilesOK' /\ RestOK'
  BY <1>2, <1>3, FilesKept, RestKept DEF RestOK
<1>7. job' = [job EXCEPT ![t] = what]
  BY <1>1, <1>3 DEF AddSuccessor, ActorsOK
<1>8. /\ what \in Job /\ what.fp = f /\ what.then = "accept"
      /\ what.begun = job[t].begun /\ what.snap = job[t].snap
  BY <1>3 DEF Job, ThreadStates
<1>9. pc'[t] = "save" /\ job'[t] = what /\ Running(Home(t))'
  BY <1>1, <1>2, <1>3, <1>5, <1>7, Homes DEF ActorsOK, Home
<1> HIDE DEF what, f
<1>10. Backed(job[t].begun)' /\ Backed(job[t].snap)'
  BY <1>2, <1>3, <1>8, <1>9 DEF ActorOK, Backed
<1>11. ActorOK(t)'
  BY <1>1, <1>3, <1>4, <1>8, <1>9, <1>10 DEF ActorOK, ThreadStates, Saving, Writing
<1> QED
  BY <1>1, <1>2, <1>5, <1>6, <1>7, <1>11, OneActor

LEMMA ReplyInv ==
  ASSUME Inv, NEW t \in Thread, Reply(t)
  PROVE  Inv'
<1>1. t \in Actor /\ t \notin Command
  BY StoreAssumption DEF Actor, StoreAssumption
<1>2. /\ pc[t] \in {"reply", "accept"}
      /\ pc' = [pc EXCEPT ![t] = "idle"] /\ job' = [job EXCEPT ![t] = NoJob]
      /\ UNCHANGED <<mem, files, world, confirmed, told, overtaken>>
  BY DEF Reply
<1>3. MemOK /\ FilesOK /\ RestOK /\ ActorsOK /\ ActorOK(t) /\ job[t].fp \in Fp
  BY <1>1, <1>2 DEF Inv, ActorsOK, ActorOK
<1>4. FilesOK' /\ MemOK' /\ \A p \in Process : Running(p) => Running(p)'
  BY <1>2, <1>3, FilesKept, MemKept
<1>5. RestOK'
  <2>1. pc[t] = "accept" => Successor[job[t].fp] \in Fp
    BY <1>3, StoreAssumption DEF ActorOK, StoreAssumption
  <2>2. acked' \subseteq {"known", "revoked"} \X Fp
    BY <1>2, <1>3, <2>1 DEF Reply, RestOK
  <2> QED
    BY <1>2, <1>3, <2>2 DEF RestOK, world
<1>6. pc'[t] = "idle" /\ job'[t] = NoJob
  BY <1>1, <1>2, <1>3 DEF ActorsOK
<1>7. NoJob \in Job /\ NoJob.begun = NoContacts /\ NoJob.snap = NoContacts
  BY EmptyTable DEF NoJob, Job, ThreadStates
<1>8. Backed(NoContacts)'
  BY DEF Backed, NoContacts
<1>9. ActorOK(t)'
  BY <1>1, <1>6, <1>7, <1>8 DEF ActorOK, ThreadStates, Saving, Writing
<1> QED
  BY <1>1, <1>2, <1>4, <1>5, <1>9, OneActor

LEMMA StartInv ==
  ASSUME Inv, NEW c \in Command, Start(c)
  PROVE  Inv'
<1>1. c \in Actor /\ c \notin Thread /\ Home(c) = c /\ c \in Process
  BY StoreAssumption, Homes DEF Actor, StoreAssumption, Process
<1>2. MemOK /\ FilesOK /\ RestOK /\ ActorsOK /\ ActorOK(c)
  BY <1>1 DEF Inv, ActorsOK
<1>3. UNCHANGED <<files, world, acked, told, confirmed, overtaken>>
  BY DEF Start, AddContact, VerifyContact, GiveUp, history
<1>4. FilesOK' /\ RestOK'
  BY <1>2, <1>3, FilesKept, RestKept DEF RestOK
<1>5. ASSUME NEW f \in Fp, NEW to \in {"exchange", "prompt"}, NEW then \in {"added", "told"},
             Loaded(c), Goto(c, to, f, then)
      PROVE  Inv'
  <2>1. enc.table \in Table /\ Backed(enc.table)
    BY <1>2 DEF FilesOK
  <2>2. mem' = [mem EXCEPT ![c] = enc.table]
    BY <1>5 DEF Loaded
  <2>3. MemOK' /\ \A p \in Process : Running(p) => Running(p)'
    BY <1>1, <1>2, <1>3, <2>1, <2>2, MemChanged
  <2>4. Running(Home(c))'
    <3>1. mem'[c] = enc.table /\ enc.table # None
      BY <1>1, <1>2, <2>1, <2>2, NoneIsNoTable DEF MemOK
    <3> QED
      BY <1>1, <3>1 DEF Running, Home
  <2> QED
    BY <1>1, <1>3, <1>4, <1>5, <2>3, <2>4, TakesUp
<1>6. CASE pc' = [pc EXCEPT ![c] = "done"] /\ UNCHANGED <<mem, job>>
  <2>1. MemOK' /\ \A p \in Process : Running(p) => Running(p)'
    BY <1>2, <1>3, <1>6, MemKept
  <2>2. pc'[c] = "done" /\ job'[c] = job[c]
    BY <1>1, <1>2, <1>6 DEF ActorsOK
  <2>3. Backed(job[c].begun)' /\ Backed(job[c].snap)'
    BY <1>2, <1>3, <2>2 DEF ActorOK, Backed
  <2>4. ActorOK(c)'
    BY <1>1, <1>2, <2>2, <2>3 DEF ActorOK, CommandStates, Saving, Writing
  <2> QED
    BY <1>1, <1>2, <1>3, <1>4, <1>6, <2>1, <2>4, Kept, OneActor
<1> QED
  BY <1>5, <1>6 DEF Start, AddContact, VerifyContact, GiveUp

LEMMA ConfirmInv ==
  ASSUME Inv, NEW c \in Command, Confirm(c)
  PROVE  Inv'
<1> DEFINE f == job[c].fp
<1>1. c \in Actor /\ c \notin Thread /\ Home(c) = c /\ c \in Process
  BY StoreAssumption, Homes DEF Actor, StoreAssumption, Process
<1>2. /\ pc[c] = "prompt" /\ pc[c] \in Saving /\ pc' = [pc EXCEPT ![c] = "save"]
      /\ confirmed' = confirmed \union {f}
      /\ UNCHANGED <<job, files, world, acked, told, overtaken>>
  BY DEF Confirm, Saving, Writing
<1>3. /\ MemOK /\ FilesOK /\ RestOK /\ ActorsOK /\ ActorOK(c) /\ f \in Fp
      /\ mem[c] \in Table /\ Backed(mem[c]) /\ Running(c)
  BY <1>1, <1>2, AtWork
<1>4. mem' = [mem EXCEPT ![c] = Verified(mem[c], f)]
  BY <1>1, <1>3 DEF Confirm, Verified, MemOK
<1>5. /\ Verified(mem[c], f) \in Table
      /\ \A g \in DOMAIN Verified(mem[c], f) :
           Verified(mem[c], f)[g].verified => g \in confirmed'
  BY <1>2, <1>3, VerifyRecord DEF Backed
<1>6. MemOK' /\ \A p \in Process : Running(p) => Running(p)'
  <2>1. /\ mem' \in [Process -> Table \union {None}]
        /\ mem'[c] = Verified(mem[c], f) /\ \A p \in Process : p # c => mem'[p] = mem[p]
        /\ mem'[c] # None
    BY <1>1, <1>3, <1>4, <1>5, NoneIsNoTable DEF MemOK
  <2>2. ASSUME NEW p \in Process, Running(p)' PROVE Backed(mem[p])'
    <3>1. CASE p = c
      BY <1>5, <2>1, <3>1 DEF Backed
    <3>2. CASE p # c
      BY <1>2, <1>3, <2>1, <2>2, <3>2 DEF MemOK, Backed, Running
    <3> QED
      BY <3>1, <3>2
  <2> QED
    BY <2>1, <2>2 DEF MemOK, Running
<1>7. FilesOK' /\ RestOK' /\ confirmed \subseteq confirmed'
  <2>1. confirmed' \subseteq Fp /\ confirmed \subseteq confirmed'
    BY <1>2, <1>3 DEF RestOK
  <2> QED
    BY <1>2, <1>3, <2>1, FilesKept, RestKept
<1>8. pc'[c] = "save" /\ job'[c] = job[c] /\ Running(Home(c))'
  BY <1>1, <1>2, <1>3, <1>6 DEF ActorsOK, Home
<1>9. Backed(job[c].begun)' /\ Backed(job[c].snap)'
  BY <1>3, <1>7, <1>8 DEF ActorOK, Backed
<1>10. ActorOK(c)'
  BY <1>1, <1>2, <1>3, <1>8, <1>9 DEF ActorOK, CommandStates, Saving, Writing
<1> QED
  BY <1>1, <1>2, <1>3, <1>6, <1>7, <1>10, Kept, OneActor

LEMMA StartServeInv ==
  ASSUME Inv, StartServe
  PROVE  Inv'
<1>1. MemOK /\ FilesOK /\ RestOK /\ ActorsOK /\ "serve" \in Process
  BY DEF Inv, Process
<1>2. /\ UNCHANGED <<pc, job, files, messages, noticed, acked, told, confirmed, overtaken>>
      /\ boots < MaxBoots /\ boots' = boots + 1 /\ mem' = [mem EXCEPT !["serve"] = enc.table]
  BY DEF StartServe, Loaded, history
<1>3. enc.table \in Table /\ Backed(enc.table)
  BY <1>1 DEF FilesOK
<1>4. MemOK' /\ \A p \in Process : Running(p) => Running(p)'
  BY <1>1, <1>2, <1>3, MemChanged
<1>5. FilesOK'
  BY <1>1, <1>2, FilesKept
<1>6. RestOK'
  <2>1. boots' \in 0..MaxBoots
    BY <1>1, <1>2, StoreAssumption DEF RestOK, StoreAssumption
  <2> QED
    BY <1>1, <1>2, <2>1 DEF RestOK
<1>7. ASSUME NEW x \in Actor PROVE ActorOK(x)'
  BY <1>1, <1>2, <1>4, Homes, OthersOK DEF ActorsOK
<1>8. ActorsOK'
  BY <1>1, <1>2, <1>7 DEF ActorsOK
<1> QED
  BY <1>4, <1>5, <1>6, <1>8 DEF Inv

LEMMA StopServeInv ==
  ASSUME Inv, StopServe
  PROVE  Inv'
<1>1. MemOK /\ FilesOK /\ RestOK /\ ActorsOK /\ "serve" \in Process
  BY DEF Inv, Process
<1>2. /\ UNCHANGED <<files, world, acked, told, confirmed, overtaken>>
      /\ mem' = [mem EXCEPT !["serve"] = None]
      /\ pc' = [x \in Actor |-> IF x \in Thread THEN "idle" ELSE pc[x]]
      /\ job' = [x \in Actor |-> IF x \in Thread THEN NoJob ELSE job[x]]
  BY DEF StopServe, Killed, history
<1>3. /\ mem' \in [Process -> Table \union {None}]
      /\ mem'["serve"] = None /\ \A p \in Process : p # "serve" => mem'[p] = mem[p]
  BY <1>1, <1>2 DEF MemOK
<1>4. MemOK'
  BY <1>1, <1>2, <1>3 DEF MemOK, Running, Backed
<1>5. FilesOK' /\ RestOK'
  BY <1>1, <1>2, FilesKept, RestKept DEF RestOK
<1>6. ASSUME NEW x \in Actor PROVE ActorOK(x)'
  <2>1. CASE x \in Thread
    <3>1. pc'[x] = "idle" /\ job'[x] = NoJob /\ x \notin Command
      BY <1>2, <2>1, StoreAssumption DEF StoreAssumption, Actor
    <3>2. NoJob \in Job /\ NoJob.begun = NoContacts /\ NoJob.snap = NoContacts
      BY EmptyTable DEF NoJob, Job, ThreadStates
    <3>3. Backed(NoContacts)'
      BY DEF Backed, NoContacts
    <3> QED
      BY <2>1, <3>1, <3>2, <3>3 DEF ActorOK, ThreadStates, Saving, Writing
  <2>2. CASE x \in Command
    <3>1. pc'[x] = pc[x] /\ job'[x] = job[x]
      BY <1>2, <2>2, StoreAssumption DEF StoreAssumption, Actor
    <3>2. Home(x) = x /\ x # "serve" /\ x \in Process
      BY <2>2, Homes DEF Process
    <3>3. Running(Home(x)) => Running(Home(x))'
      BY <1>3, <3>2 DEF Running, Home
    <3> QED
      BY <1>1, <1>2, <3>1, <3>3, OthersOK DEF ActorsOK
  <2> QED
    BY <2>1, <2>2 DEF Actor
<1>7. ActorsOK'
  BY <1>2, <1>6 DEF ActorsOK
<1> QED
  BY <1>4, <1>5, <1>7 DEF Inv

LEMMA StutterInv ==
  ASSUME Inv, UNCHANGED vars
  PROVE  Inv'
<1>1. UNCHANGED <<mem, pc, job, files, world, acked, told, confirmed, overtaken>>
  BY DEF vars, history
<1>2. MemOK /\ FilesOK /\ RestOK /\ ActorsOK
  BY DEF Inv
<1>3. FilesOK' /\ RestOK' /\ MemOK' /\ \A p \in Process : Running(p) => Running(p)'
  BY <1>1, <1>2, FilesKept, RestKept, MemKept DEF RestOK
<1>4. \A x \in Actor : ActorOK(x)'
  BY <1>1, <1>2, <1>3, Homes, OthersOK DEF ActorsOK
<1> QED
  BY <1>1, <1>2, <1>3, <1>4 DEF Inv, ActorsOK

LEMMA NextInv == Inv /\ [Next]_vars => Inv'
<1> SUFFICES ASSUME Inv, [Next]_vars PROVE Inv'
  OBVIOUS
<1>1. ASSUME NEW t \in Thread, Handler(t) PROVE Inv'
  BY <1>1, ContactRequestInv, KeyRotateInv, AddSuccessorInv, ReplyInv DEF Handler
<1>2. ASSUME NEW c \in Command, Cli(c) PROVE Inv'
  BY <1>2, StartInv, ExchangedInv, ConfirmInv, TellInv, AbortInv DEF Cli
<1>3. ASSUME NEW x \in Actor, Insert(x) \/ Save(x) PROVE Inv'
  BY <1>3, InsertInv, SaveBeginsInv, CopyInv, OpenEncInv, WriteEncInv, OpenMetaInv,
     WriteMetaInv DEF Save
<1>4. CASE StartServe \/ StopServe \/ UNCHANGED vars
  BY <1>4, StartServeInv, StopServeInv, StutterInv
<1> QED
  BY <1>1, <1>2, <1>3, <1>4 DEF Next, Step

THEOREM Invariance == Spec => []Inv
<1>1. Inv /\ [Next]_vars => Inv'
  BY NextInv
<1> QED
  BY <1>1, InitInv, PTL DEF Spec

----------------------------------------------------------------------------
(* What the invariant gives.                                               *)

\* Tables stay tables, and no thread outlives `serve`.
THEOREM StoreTypeCorrect == Spec => []TypeOK
<1>1. Inv /\ serial \in BOOLEAN => TypeOK
  <2> SUFFICES ASSUME Inv, serial \in BOOLEAN PROVE TypeOK
    OBVIOUS
  <2>1. MemOK /\ FilesOK /\ RestOK /\ ActorsOK /\ \A x \in Actor : ActorOK(x)
    BY DEF Inv, ActorsOK
  <2>2. \A t \in Thread : pc[t] \in ThreadStates /\ (pc[t] # "idle" => Running("serve"))
    BY <2>1, Homes DEF ActorOK, Actor, ThreadStates
  <2>3. \A c \in Command : pc[c] \in CommandStates
    BY <2>1 DEF ActorOK, Actor
  <2>4. pc \in [Actor -> ThreadStates \union CommandStates]
    BY <2>1, <2>2, <2>3 DEF ActorsOK, Actor
  <2>5. job \in [Actor -> Job]
    BY <2>1 DEF ActorOK, ActorsOK
  <2> QED
    BY <2>1, <2>2, <2>3, <2>4, <2>5 DEF TypeOK, MemOK, FilesOK, RestOK, Job
<1>2. Init => serial \in BOOLEAN
  BY DEF Init
<1>3. serial \in BOOLEAN /\ [Next]_vars => (serial \in BOOLEAN)'
  BY DEF Next, vars
<1> QED
  BY <1>1, <1>2, <1>3, Invariance, PTL DEF Spec

\* Only the user's own confirmation ever makes a contact verified, in memory or
\* on disk, however threads, commands and crashes interleave.
THEOREM OnlyUserVerifies == Spec => []VerifiedOnlyByUser
<1>1. Inv => VerifiedOnlyByUser
  BY DEF Inv, MemOK, FilesOK, Backed, VerifiedOnlyByUser
<1> QED
  BY <1>1, Invariance, PTL

----------------------------------------------------------------------------
(***************************************************************************)
(* One at a time.  When no two handlers or commands overlap, a table does  *)
(* not change while it is being saved, so that what a save writes is what  *)
(* the process has; and a key that was revoked is only added anew by a     *)
(* predecessor's notice that comes later, and then it has been overtaken.  *)
(***************************************************************************)

\* x is to go to `then` when it has saved, or has got there.
Towards(x, then) ==
  pc[x] = then \/ (pc[x] \in Writing /\ job[x].then = then)

\* What was told to a peer, but for the keys that were overtaken.
Promised == acked \ ({"revoked"} \X overtaken)

\* What has been promised is what was last written, and in every table that may be.
FactsKept ==
  \A fact \in Promised :
    /\ Holds(enc.table, fact)
    /\ Running("serve") => Holds(mem["serve"], fact)
    /\ \A c \in Command : Busy(c) => Holds(mem[c], fact)

NoticedFirst == \A f : <<"revoked", f>> \in acked => f \in noticed

\* How far x is with its save.
SaveOK(x) ==
  /\ pc[x] = "insert" => job[x].fp \notin DOMAIN mem[Home(x)]
  /\ pc[x] = "copy" => job[x].begun = mem[Home(x)]
  /\ pc[x] \in {"open_enc", "write_enc"} => job[x].snap = mem[Home(x)]
  /\ pc[x] = "write_enc" => enc.nonce = None

\* What the thread t is going to tell its peer is so.
PromiseOK(t) ==
  /\ pc[t] = "insert" => job[t].then = "reply"
  /\ pc[t] \in {"open_meta", "write_meta", "reply", "successor", "accept"} =>
       enc.table = mem["serve"]
  /\ Towards(t, "reply") => job[t].fp \in DOMAIN mem["serve"]
  /\ Towards(t, "successor") \/ Towards(t, "accept") =>
       /\ job[t].fp \in noticed /\ job[t].fp \in DOMAIN mem["serve"]
       /\ mem["serve"][job[t].fp].revoked
  /\ Towards(t, "successor") => <<"revoked", Successor[job[t].fp]>> \notin Promised
  /\ Towards(t, "accept") => Successor[job[t].fp] \in DOMAIN mem["serve"]

\* Inside a save, from the first file's opening to the second one's last byte.
Torn == {"write_enc", "open_meta", "write_meta"}

\* While `serve` runs, only its own save makes the store unreadable for a moment.
NoncesOK ==
  Running("serve") =>
    /\ \A t \in Thread : pc[t] \in {"open_meta", "write_meta"} => job[t].nonce = enc.nonce
    /\ (\A t \in Thread : pc[t] \notin Torn) => Readable

SerialInv ==
  /\ FactsKept /\ NoticedFirst /\ NoncesOK
  /\ \A x \in Actor : SaveOK(x)
  /\ \A t \in Thread : PromiseOK(t)

LEMMA SerialInit == Init => SerialInv
<1> SUFFICES ASSUME Init PROVE SerialInv
  OBVIOUS
<1>1. \A x \in Actor : pc[x] = "idle"
  BY DEF Init
<1>2. ~Running("serve")
  BY DEF Init, Running, Process
<1>3. acked = {} /\ Promised = {}
  BY DEF Init, Promised
<1> QED
  BY <1>1, <1>2, <1>3
     DEF SerialInv, FactsKept, NoticedFirst, NoncesOK, SaveOK, PromiseOK, Towards, Writing, Actor

\* Tables that hold what they held.
HoldsOn(table, new) ==
  /\ DOMAIN table \subseteq DOMAIN new
  /\ \A f \in DOMAIN table : table[f].revoked => new[f].revoked

\* Tables that hold what was promised of them.
Keeps(table, new) == \A fact \in Promised : Holds(table, fact) => Holds(new, fact)

LEMMA HeldStays ==
  ASSUME NEW table, NEW new, HoldsOn(table, new)
  PROVE  Keeps(table, new)
  BY DEF HoldsOn, Holds, Keeps

\* Only x acts, and it is the only one that is busy.
Alone(x) ==
  /\ \A y \in Actor \ {x} : pc'[y] = pc[y] /\ job'[y] = job[y]
  /\ \A y \in Actor \ {x} : ~Busy(y)

LEMMA AloneIs ==
  ASSUME NEW x \in Actor, Inv, NEW to, NEW what, pc' = [pc EXCEPT ![x] = to],
         job' = [job EXCEPT ![x] = what],
         \/ OneAtATime /\ Busy(x)
         \/ OneAtATime' /\ Busy(x)'
  PROVE  Alone(x) /\ pc'[x] = to /\ job'[x] = what
<1>1. /\ \A y \in Actor \ {x} : pc'[y] = pc[y] /\ job'[y] = job[y]
      /\ pc'[x] = to /\ job'[x] = what
  BY DEF Inv, ActorsOK
<1>2. ASSUME NEW y \in Actor \ {x}, Busy(y) PROVE FALSE
  <2>1. Busy(y)'
    BY <1>1, <1>2 DEF Busy
  <2> QED
    BY <1>2, <2>1 DEF OneAtATime
<1> QED
  BY <1>1, <1>2 DEF Alone

\* So that nothing is required of the others.
LEMMA AloneActs ==
  ASSUME NEW x \in Actor, Alone(x), SaveOK(x)', x \in Thread => PromiseOK(x)'
  PROVE  /\ \A y \in Actor : SaveOK(y)'
         /\ \A t \in Thread : PromiseOK(t)'
<1>1. ASSUME NEW y \in Actor, y # x PROVE pc'[y] \in {"idle", "done"}
  BY <1>1 DEF Alone, Busy
<1>2. ASSUME NEW y \in Actor, y # x PROVE SaveOK(y)' /\ PromiseOK(y)'
  <2>1. pc'[y] \in {"idle", "done"}
    BY <1>1, <1>2
  <2> QED
    BY <2>1 DEF SaveOK, PromiseOK, Towards, Writing
<1> QED
  BY <1>2 DEF Actor

----------------------------------------------------------------------------
(* Steps that write no table and promise nothing.                          *)

LEMMA NothingSaved ==
  ASSUME Inv, SerialInv, UNCHANGED <<mem, job, files, acked>>, noticed \subseteq noticed',
         overtaken \subseteq overtaken',
         \A y \in Actor : pc'[y] = pc[y] \/ (y \in Command /\ pc'[y] = "done")
  PROVE  SerialInv'
<1>1. \A t \in Thread : t \in Actor /\ pc'[t] = pc[t]
  BY StoreAssumption DEF Actor, StoreAssumption
<1>2. Promised' \subseteq Promised
  BY DEF Promised
<1>3. FactsKept'
  <2>1. \A c \in Command : Busy(c)' => Busy(c)
    BY DEF Busy, Actor
  <2> QED
    BY <1>2, <2>1 DEF SerialInv, FactsKept, Running, files
<1>4. NoticedFirst'
  BY DEF SerialInv, NoticedFirst
<1>5. NoncesOK'
  BY <1>1 DEF SerialInv, NoncesOK, Running, Readable, files
<1>6. \A x \in Actor : SaveOK(x)'
  BY DEF SerialInv, SaveOK, Home, files
<1>7. \A t \in Thread : PromiseOK(t)'
  BY <1>1, <1>2 DEF SerialInv, PromiseOK, Towards, files
<1> QED
  BY <1>3, <1>4, <1>5, <1>6, <1>7 DEF SerialInv

LEMMA IdleStep ==
  ASSUME Inv, SerialInv, NEW x \in Actor,
         \/ x \in Command /\ GiveUp(x)
         \/ x \in Thread /\ KeyRotate(x) /\ UNCHANGED <<mem, pc, job>>
  PROVE  SerialInv'
<1>1. /\ UNCHANGED <<mem, job, files, acked>> /\ noticed \subseteq noticed'
      /\ overtaken \subseteq overtaken'
  BY DEF GiveUp, KeyRotate, world, history
<1>2. \A y \in Actor : pc'[y] = pc[y] \/ (y \in Command /\ pc'[y] = "done")
  BY DEF GiveUp, Inv, ActorsOK
<1> QED
  BY <1>1, <1>2, NothingSaved

\* A command that ends takes only its own table with it.
LEMMA QuitIs ==
  ASSUME Inv, NEW c \in Command, Quit(c)
  PROVE  /\ pc'[c] = "done" /\ \A p \in Process : p # c => mem'[p] = mem[p]
         /\ \A y \in Actor : y # c => pc'[y] = pc[y] /\ job'[y] = job[y]
         /\ \A y \in Actor : y # c => mem'[Home(y)] = mem[Home(y)]
         /\ \A t \in Thread : t # c
         /\ mem'["serve"] = mem["serve"]
<1>1. \A p \in Process : p # c => mem'[p] = mem[p]
  BY DEF Quit, Inv, MemOK
<1>2. \A y \in Actor : y # c => pc'[y] = pc[y] /\ job'[y] = job[y]
  BY DEF Quit, Inv, ActorsOK
<1>3. pc'[c] = "done"
  BY DEF Quit, Inv, ActorsOK, Actor
<1>4. c # "serve" /\ \A t \in Thread : t # c
  BY StoreAssumption DEF StoreAssumption
<1>5. \A y \in Actor : y # c => Home(y) \in Process /\ Home(y) # c
  BY <1>4, Homes DEF Actor
<1>6. \A y \in Actor : y # c => mem'[Home(y)] = mem[Home(y)]
  BY <1>1, <1>5
<1> QED
  BY <1>1, <1>2, <1>3, <1>4, <1>6 DEF Process

LEMMA QuitSerial ==
  ASSUME Inv, SerialInv, NEW c \in Command, Tell(c) \/ Abort(c)
  PROVE  SerialInv'
<1>1. Quit(c) /\ UNCHANGED <<files, acked, noticed, overtaken>>
  BY DEF Tell, Abort, world, history
<1>2. /\ pc'[c] = "done" /\ mem'["serve"] = mem["serve"]
      /\ \A y \in Actor : y # c => /\ pc'[y] = pc[y] /\ job'[y] = job[y]
                                   /\ mem'[Home(y)] = mem[Home(y)]
      /\ \A t \in Thread : t # c
  BY <1>1, QuitIs
<1>3. \A d \in Command : d # c => mem'[d] = mem[d] /\ pc'[d] = pc[d]
  BY <1>1, <1>2, QuitIs DEF Process, Actor
<1>4. FactsKept'
  BY <1>1, <1>2, <1>3 DEF SerialInv, FactsKept, Promised, Running, Busy, files
<1>5. NoticedFirst'
  BY <1>1 DEF SerialInv, NoticedFirst
<1>6. NoncesOK'
  BY <1>1, <1>2 DEF SerialInv, NoncesOK, Running, Readable, Actor, files
<1>7. ASSUME NEW y \in Actor PROVE SaveOK(y)'
  <2>1. CASE y = c
    BY <1>2, <2>1 DEF SaveOK
  <2>2. CASE y # c
    BY <1>1, <1>2, <2>2 DEF SerialInv, SaveOK, Home, files
  <2> QED
    BY <2>1, <2>2
<1>8. \A t \in Thread : PromiseOK(t)'
  BY <1>1, <1>2 DEF SerialInv, PromiseOK, Towards, Promised, Actor, files
<1> QED
  BY <1>4, <1>5, <1>6, <1>7, <1>8 DEF SerialInv

----------------------------------------------------------------------------
(* Steps of the actor that is alone at work.                               *)

\* The file and the promises stay; the tables hold at least what they held, and
\* that of a command that begins is the one on disk.
LEMMA AloneKeeps ==
  ASSUME Inv, SerialInv, NEW x \in Actor, Alone(x), UNCHANGED <<files, acked>>,
         noticed \subseteq noticed', overtaken \subseteq overtaken',
         pc'[x] \notin Torn, pc[x] \notin Torn,
         \A p \in Process : p # Home(x) => mem'[p] = mem[p],
         Running(Home(x))',
         \/ Running(Home(x)) /\ (Home(x) = "serve" \/ Busy(x)) /\ Keeps(mem[Home(x)], mem'[Home(x)])
         \/ x \in Command /\ mem'[x] = enc.table,
         SaveOK(x)', x \in Thread => PromiseOK(x)'
  PROVE  SerialInv'
<1>0. Promised' \subseteq Promised
  BY DEF Promised
<1>1. Home(x) \in Process /\ "serve" \in Process /\ Command \subseteq Process
  BY Homes DEF Process
<1>2. ASSUME NEW fact \in Promised
      PROVE  /\ Holds(enc.table, fact)
             /\ Running("serve")' => Holds(mem'["serve"], fact)
             /\ \A c \in Command : Busy(c)' => Holds(mem'[c], fact)
  <2>1. Holds(enc.table, fact) /\ (Running("serve") => Holds(mem["serve"], fact))
    BY DEF SerialInv, FactsKept
  <2>2. CASE x \in Command
    <3>1. Home(x) = x /\ x # "serve"
      BY <2>2, Homes
    <3>2. mem'["serve"] = mem["serve"]
      BY <1>1, <3>1
    <3>3. \A c \in Command : Busy(c)' => c = x
      BY DEF Alone, Busy, Actor
    <3>4. Holds(mem'[x], fact)
      <4>1. CASE mem'[x] = enc.table
        BY <2>1, <4>1
      <4>2. CASE Busy(x) /\ Keeps(mem[x], mem'[x])
        BY <2>2, <4>2 DEF SerialInv, FactsKept, Keeps
      <4> QED
        BY <3>1, <4>1, <4>2
    <3> QED
      BY <2>1, <3>2, <3>3, <3>4 DEF Running
  <2>3. CASE x \in Thread
    <3>1. Home(x) = "serve" /\ x \notin Command
      BY <2>3, Homes, StoreAssumption DEF StoreAssumption
    <3>2. Holds(mem'["serve"], fact)
      BY <2>1, <3>1 DEF Keeps
    <3>3. \A c \in Command : ~Busy(c)'
      BY <3>1 DEF Alone, Busy, Actor
    <3> QED
      BY <2>1, <3>2, <3>3
  <2> QED
    BY <2>2, <2>3 DEF Actor
<1>3. FactsKept'
  BY <1>0, <1>2 DEF FactsKept, files
<1>4. NoticedFirst'
  BY DEF SerialInv, NoticedFirst
<1>5. NoncesOK'
  <2>1. \A t \in Thread : pc'[t] \notin Torn /\ pc[t] \notin Torn
    BY DEF Alone, Actor, Busy, Torn
  <2>2. Running("serve")' => Running("serve")
    BY <1>1, Homes DEF Running, Actor
  <2> QED
    BY <2>1, <2>2 DEF SerialInv, NoncesOK, Readable, Torn, files
<1> QED
  BY <1>3, <1>4, <1>5, AloneActs DEF SerialInv

\* A table that is not a table of memory, and what the actions make of one.
LEMMA PutHolds ==
  ASSUME NEW table, NEW f, f \notin DOMAIN table
  PROVE  HoldsOn(table, Put(table, f, Fresh)) /\ f \in DOMAIN Put(table, f, Fresh)
  BY DEF HoldsOn, Put

LEMMA RevokeHolds ==
  ASSUME NEW table \in Table, NEW f \in DOMAIN table, NEW s \in Fp
  PROVE  /\ HoldsOn(table, Revoked(table, f, s)) /\ f \in DOMAIN Revoked(table, f, s)
         /\ Revoked(table, f, s)[f].revoked
<1>1. table \in [DOMAIN table -> Entry]
  BY TableIs
<1>2. DOMAIN Revoked(table, f, s) = DOMAIN table
  BY DEF Revoked
<1>3. \A g \in DOMAIN table : g # f => Revoked(table, f, s)[g] = table[g]
  BY DEF Revoked
<1>4. Revoked(table, f, s)[f] = [table[f] EXCEPT !.revoked = TRUE, !.successor = s]
  BY DEF Revoked
<1>5. table[f] \in Entry
  BY <1>1
<1>6. Revoked(table, f, s)[f].revoked = TRUE
  BY <1>4, <1>5 DEF Entry
<1> QED
  BY <1>2, <1>3, <1>6 DEF HoldsOn

LEMMA VerifyHolds ==
  ASSUME NEW table \in Table, NEW f
  PROVE  HoldsOn(table, Verified(table, f))
<1>1. table \in [DOMAIN table -> Entry]
  BY TableIs
<1>2. DOMAIN Verified(table, f) = DOMAIN table
  BY DEF Verified
<1>3. ASSUME NEW g \in DOMAIN table
      PROVE  Verified(table, f)[g].revoked = table[g].revoked
  <2>1. table[g] \in Entry
    BY <1>1
  <2>2. Verified(table, f)[g] = table[g] \/ Verified(table, f)[g] = [table[g] EXCEPT !.verified = TRUE]
    BY DEF Verified
  <2> QED
    BY <2>1, <2>2 DEF Entry
<1> QED
  BY <1>2, <1>3 DEF HoldsOn

\* A command loads the store, and waits for its peer or its user.
LEMMA LoadSerial ==
  ASSUME Inv, SerialInv, OneAtATime', NEW c \in Command, AddContact(c) \/ VerifyContact(c)
  PROVE  SerialInv'
<1>1. c \in Actor /\ Home(c) = c /\ c \notin Thread /\ c \in Process /\ ActorsOK
  BY Homes, StoreAssumption DEF StoreAssumption, Actor, Process, Inv
<1>2. PICK to \in {"exchange", "prompt"}, f \in Fp, then \in {"added", "told"} :
        Goto(c, to, f, then)
  BY DEF AddContact, VerifyContact
<1>3. /\ mem' = [mem EXCEPT ![c] = enc.table] /\ pc[c] = "idle"
      /\ UNCHANGED <<files, acked, noticed, overtaken>>
  BY DEF AddContact, VerifyContact, Loaded, world, history
<1>4. pc' = [pc EXCEPT ![c] = to] /\ job' = [job EXCEPT ![c] = Moved(job[c], f, then)]
  BY <1>1, <1>2, GotoIs
<1>5. pc'[c] = to
  BY <1>1, <1>4 DEF ActorsOK
<1>6. Busy(c)'
  BY <1>5 DEF Busy
<1>7. Alone(c)
  BY <1>1, <1>4, <1>6, AloneIs
<1>8. /\ mem'[c] = enc.table /\ \A p \in Process : p # c => mem'[p] = mem[p]
      /\ enc.table \in Table
  BY <1>1, <1>3 DEF Inv, MemOK, FilesOK
<1>9. Running(c)'
  BY <1>8, NoneIsNoTable DEF Running
<1>10. SaveOK(c)'
  BY <1>5 DEF SaveOK
<1> QED
  BY <1>1, <1>3, <1>5, <1>7, <1>8, <1>9, <1>10, AloneKeeps DEF Torn

\* An actor at work goes on, its table as it was or with more in it.
LEMMA WorkSerial ==
  ASSUME Inv, SerialInv, OneAtATime, NEW x \in Actor, Busy(x), NEW to, NEW what,
         pc' = [pc EXCEPT ![x] = to], job' = [job EXCEPT ![x] = what],
         to \notin Torn, pc[x] \notin Torn, UNCHANGED <<files, acked, noticed, overtaken>>,
         NEW table \in Table, mem' = [mem EXCEPT ![Home(x)] = table], Keeps(mem[Home(x)], table),
         SaveOK(x)', x \in Thread => PromiseOK(x)'
  PROVE  SerialInv'
<1>1. Home(x) \in Process /\ Running(Home(x))
  BY Homes DEF Inv, ActorsOK, ActorOK, Busy
<1>2. Alone(x) /\ pc'[x] = to
  BY AloneIs
<1>3. mem'[Home(x)] = table /\ \A p \in Process : p # Home(x) => mem'[p] = mem[p]
  BY <1>1 DEF Inv, MemOK
<1>4. Running(Home(x))'
  <2>1. PICK h : h = Home(x)
    OBVIOUS
  <2>2. Running(h)'
    BY <1>3, <2>1, NoneIsNoTable DEF Running
  <2> QED
    BY <2>1, <2>2 DEF Home
<1> QED
  BY <1>1, <1>2, <1>3, <1>4, AloneKeeps

\* The actor at work goes on where its table stays the same.
LEMMA PassSerial ==
  ASSUME Inv, SerialInv, OneAtATime, NEW x \in Actor, pc[x] \in Saving \union {"successor"},
         NEW to, NEW what,
         pc' = [pc EXCEPT ![x] = to], job' = [job EXCEPT ![x] = what],
         to \notin Torn, pc[x] \notin Torn,
         UNCHANGED <<mem, files, acked, noticed, overtaken>>,
         SaveOK(x)', x \in Thread => PromiseOK(x)'
  PROVE  SerialInv'
<1>1. /\ Home(x) \in Process /\ mem[Home(x)] \in Table /\ MemOK /\ Busy(x)
  BY AtWork DEF Busy, Saving, Writing
<1>2. mem' = [mem EXCEPT ![Home(x)] = mem[Home(x)]]
  BY <1>1 DEF MemOK
<1> QED
  BY <1>1, <1>2, WorkSerial DEF Keeps

LEMMA ExchangedSerial ==
  ASSUME Inv, SerialInv, OneAtATime, NEW c \in Command, Exchanged(c)
  PROVE  SerialInv'
<1>1. c \in Actor /\ Home(c) = c /\ c \notin Thread /\ ActorsOK
  BY Homes, StoreAssumption DEF StoreAssumption, Actor, Inv
<1>2. PICK to : to = IF Known(mem[c], job[c].fp) THEN "save" ELSE "insert"
  OBVIOUS
<1>3. /\ pc[c] = "exchange" /\ pc' = [pc EXCEPT ![c] = to] /\ job' = [job EXCEPT ![c] = job[c]]
      /\ UNCHANGED <<mem, job, files, acked, noticed, overtaken>>
  BY <1>1, <1>2, Kept DEF Exchanged, world, history
<1>4. pc'[c] = to
  BY <1>1, <1>3 DEF ActorsOK
<1>5. SaveOK(c)'
  BY <1>1, <1>2, <1>3, <1>4 DEF SaveOK, Known, Home
<1> QED
  BY <1>1, <1>2, <1>3, <1>5, PassSerial DEF Saving, Writing, Torn

LEMMA ConfirmSerial ==
  ASSUME Inv, SerialInv, OneAtATime, NEW c \in Command, Confirm(c)
  PROVE  SerialInv'
<1>1. c \in Actor /\ Home(c) = c /\ c \notin Thread /\ ActorsOK /\ Busy(c) /\ pc[c] \in Saving
  BY Homes, StoreAssumption DEF StoreAssumption, Actor, Inv, Confirm, Busy, Saving, Writing
<1>2. mem[c] \in Table
  BY <1>1, AtWork
<1>3. /\ pc[c] = "prompt" /\ pc' = [pc EXCEPT ![c] = "save"] /\ job' = [job EXCEPT ![c] = job[c]]
      /\ mem' = [mem EXCEPT ![c] = Verified(mem[c], job[c].fp)]
      /\ UNCHANGED <<files, acked, noticed, overtaken>>
  <2>1. mem' = [mem EXCEPT ![c] = Verified(mem[c], job[c].fp)]
    BY DEF Confirm, Verified
  <2> QED
    BY <1>1, <2>1, Kept DEF Confirm, world
<1>4. pc'[c] = "save"
  BY <1>1, <1>3 DEF ActorsOK
<1>5. SaveOK(c)'
  BY <1>4 DEF SaveOK
<1>6. Verified(mem[c], job[c].fp) \in Table
  BY <1>2, VerifyRecord
<1>7. HoldsOn(mem[c], Verified(mem[c], job[c].fp))
  BY <1>2, VerifyHolds
<1>8. PICK table \in Table : table = Verified(mem[c], job[c].fp)
  BY <1>6
<1> QED
  BY <1>1, <1>3, <1>5, <1>7, <1>8, HeldStays, WorkSerial DEF Torn

LEMMA InsertSerial ==
  ASSUME Inv, SerialInv, OneAtATime, NEW x \in Actor, Insert(x)
  PROVE  SerialInv'
<1>1. /\ ActorsOK /\ Busy(x) /\ pc[x] \in Saving /\ pc[x] = "insert"
      /\ pc' = [pc EXCEPT ![x] = "save"] /\ UNCHANGED <<files, acked, noticed, overtaken, job>>
      /\ mem' = [mem EXCEPT ![Home(x)] = Put(mem[Home(x)], job[x].fp, Fresh)]
  BY DEF Insert, Inv, Busy, Saving, Writing, world, history
<1>2. /\ mem[Home(x)] \in Table /\ Backed(mem[Home(x)]) /\ job[x].fp \in Fp /\ Home(x) \in Process
      /\ MemOK
  BY <1>1, AtWork
<1>3. PICK table \in Table : table = Put(mem[Home(x)], job[x].fp, Fresh)
  BY <1>2, PutFresh
<1>4. HoldsOn(mem[Home(x)], table) /\ job[x].fp \in DOMAIN table
  BY <1>1, <1>3, PutHolds DEF SerialInv, SaveOK
<1>5. job' = [job EXCEPT ![x] = job[x]]
  BY <1>1, Kept
<1>6. pc'[x] = "save" /\ job'[x] = job[x]
  BY <1>1 DEF ActorsOK
<1>7. SaveOK(x)'
  BY <1>6 DEF SaveOK
<1>8. ASSUME x \in Thread PROVE PromiseOK(x)'
  <2>1. job[x].then = "reply"
    BY <1>1, <1>8 DEF SerialInv, PromiseOK
  <2>2. mem'["serve"] = table
    BY <1>1, <1>2, <1>3, <1>8, Homes DEF MemOK
  <2> QED
    BY <1>4, <1>6, <2>1, <2>2 DEF PromiseOK, Towards, Writing
<1> QED
  BY <1>1, <1>3, <1>4, <1>5, <1>7, <1>8, HeldStays, WorkSerial DEF Torn

\* An idle handler takes a message up and begins to save.
LEMMA TakesUpSerial ==
  ASSUME Inv, SerialInv, OneAtATime', NEW t \in Thread, pc[t] = "idle", Running("serve"),
         NEW f \in Fp, NEW to \in {"save", "insert"}, NEW then \in {"reply", "successor"},
         Goto(t, to, f, then),
         UNCHANGED <<files, acked>>, noticed \subseteq noticed', noticed' \subseteq Fp,
         overtaken \subseteq overtaken',
         NEW table \in Table, mem' = [mem EXCEPT !["serve"] = table],
         Keeps(mem["serve"], table),
         then = "successor" => to = "save",
         then = "reply" => (f \in DOMAIN table <=> to = "save"),
         then = "successor" => /\ f \in noticed' /\ f \in DOMAIN table /\ table[f].revoked
                               /\ <<"revoked", Successor[f]>> \notin Promised'
  PROVE  SerialInv'
<1>1. t \in Actor /\ Home(t) = "serve" /\ "serve" \in Process /\ ActorsOK
  BY Homes DEF Actor, Process, Inv
<1>2. pc' = [pc EXCEPT ![t] = to] /\ job' = [job EXCEPT ![t] = Moved(job[t], f, then)]
  BY <1>1, GotoIs
<1>3. pc'[t] = to /\ job'[t] = Moved(job[t], f, then)
  BY <1>1, <1>2 DEF ActorsOK
<1>4. Alone(t)
  BY <1>1, <1>2, <1>3, AloneIs DEF Busy
<1>5. job[t] \in Job /\ then \in ThreadStates \union CommandStates
  BY <1>1 DEF ActorsOK, ActorOK, ThreadStates
<1>6. job'[t].fp = f /\ job'[t].then = then
  BY <1>3, <1>5, MovedJob
<1>7. mem'["serve"] = table /\ \A p \in Process : p # "serve" => mem'[p] = mem[p]
  BY <1>1 DEF Inv, MemOK
<1>8. Running("serve")'
  BY <1>7, NoneIsNoTable DEF Running
<1>9. SaveOK(t)'
  BY <1>1, <1>3, <1>6, <1>7 DEF SaveOK, Home
<1>10. PromiseOK(t)'
  BY <1>3, <1>6, <1>7 DEF PromiseOK, Towards, Writing
<1> QED
  BY <1>1, <1>3, <1>4, <1>7, <1>8, <1>9, <1>10, AloneKeeps DEF Torn

LEMMA ContactRequestSerial ==
  ASSUME Inv, SerialInv, OneAtATime', NEW t \in Thread, ContactRequest(t)
  PROVE  SerialInv'
<1>1. t \in Actor /\ MemOK /\ RestOK /\ "serve" \in Process
  BY DEF Inv, Actor, Process
<1>2. Running("serve") /\ pc[t] = "idle" /\ UNCHANGED <<mem, files, acked, noticed, overtaken>>
  BY DEF ContactRequest, Receives, history
<1>3. mem["serve"] \in Table /\ mem' = [mem EXCEPT !["serve"] = mem["serve"]]
  BY <1>1, <1>2, RunningTable DEF MemOK
<1>4. ASSUME NEW f \in Fp, Goto(t, IF Known(mem["serve"], f) THEN "save" ELSE "insert", f, "reply")
      PROVE  SerialInv'
  <2>1. PICK to \in {"save", "insert"} : to = IF Known(mem["serve"], f) THEN "save" ELSE "insert"
    OBVIOUS
  <2>2. Goto(t, to, f, "reply") /\ (f \in DOMAIN mem["serve"] <=> to = "save")
    BY <1>4, <2>1 DEF Known
  <2>3. noticed' \subseteq Fp
    BY <1>1, <1>2, StoreAssumption DEF RestOK, StoreAssumption
  <2>4. Keeps(mem["serve"], mem["serve"]) /\ noticed \subseteq noticed'
    BY <1>2 DEF Keeps
  <2> QED
    BY <1>2, <1>3, <2>2, <2>3, <2>4, TakesUpSerial
<1> QED
  BY <1>4 DEF ContactRequest

LEMMA KeyRotateSerial ==
  ASSUME Inv, SerialInv, OneAtATime', NEW t \in Thread, KeyRotate(t)
  PROVE  SerialInv'
<1>1. t \in Actor /\ MemOK /\ RestOK /\ "serve" \in Process
  BY DEF Inv, Actor, Process
<1>2. Running("serve") /\ pc[t] = "idle" /\ UNCHANGED <<files, acked>>
  BY DEF KeyRotate, Receives, history
<1>3. PICK f \in DOMAIN Successor :
        /\ noticed' = noticed \union {f}
        /\ overtaken' = overtaken \union ({Successor[f]} \intersect noticed)
        /\ \/ UNCHANGED <<mem, pc, job>>
           \/ /\ Known(mem["serve"], f)
              /\ mem' = [mem EXCEPT !["serve"][f].revoked = TRUE,
                                    !["serve"][f].successor = Successor[f]]
              /\ Goto(t, "save", f, "successor")
  BY DEF KeyRotate
<1>4. f \in Fp /\ Successor[f] \in Fp
  BY StoreAssumption DEF StoreAssumption
<1>5. CASE UNCHANGED <<mem, pc, job>>
  BY <1>1, <1>5, IdleStep
<1>6. CASE /\ Known(mem["serve"], f)
           /\ mem' = [mem EXCEPT !["serve"][f].revoked = TRUE,
                                 !["serve"][f].successor = Successor[f]]
           /\ Goto(t, "save", f, "successor")
  <2>1. mem["serve"] \in Table /\ Backed(mem["serve"])
    BY <1>1, <1>2, RunningTable
  <2>2. f \in DOMAIN mem["serve"]
    BY <1>6 DEF Known
  <2>3. mem' = [mem EXCEPT !["serve"] = Revoked(mem["serve"], f, Successor[f])]
    BY <1>1, <1>6, <2>1 DEF Revoked, MemOK
  <2>4. Revoked(mem["serve"], f, Successor[f]) \in Table
    BY <1>4, <2>1, <2>2, RevokeRecord
  <2>5. PICK table \in Table : table = Revoked(mem["serve"], f, Successor[f])
    BY <2>4
  <2>6. Keeps(mem["serve"], table) /\ f \in DOMAIN table /\ table[f].revoked
    BY <1>4, <2>1, <2>2, <2>5, RevokeHolds, HeldStays
  <2>7. <<"revoked", Successor[f]>> \notin Promised'
    BY <1>2, <1>3 DEF SerialInv, NoticedFirst, Promised
  <2>8. /\ noticed \subseteq noticed' /\ noticed' \subseteq Fp /\ f \in noticed'
        /\ overtaken \subseteq overtaken'
    BY <1>1, <1>3, <1>4, StoreAssumption DEF RestOK, StoreAssumption
  <2> QED
    BY <1>2, <1>4, <1>6, <2>3, <2>5, <2>6, <2>7, <2>8, TakesUpSerial
<1> QED
  BY <1>3, <1>5, <1>6

\* The new key's record may be put over an old one: that one was not promised
\* revoked, or has been overtaken, and the rotated key's own record is another.
LEMMA AddSuccessorSerial ==
  ASSUME Inv, SerialInv, OneAtATime, NEW t \in Thread, AddSuccessor(t)
  PROVE  SerialInv'
<1> DEFINE f == job[t].fp
           old == mem["serve"]
           new == Put(old, Successor[f], Fresh)
<1>1. t \in Actor /\ t \notin Command /\ Home(t) = "serve"
  BY StoreAssumption, Homes DEF Actor, StoreAssumption
<1>2. /\ pc[t] = "successor" /\ Busy(t) /\ pc' = [pc EXCEPT ![t] = "save"]
      /\ mem' = [mem EXCEPT !["serve"] = new]
      /\ job' = [job EXCEPT ![t].then = "accept"]
      /\ UNCHANGED <<files, acked, noticed, overtaken>>
  BY DEF AddSuccessor, SuccessorOf, history, world, Busy
<1>3. /\ MemOK /\ ActorsOK /\ ActorOK(t) /\ job[t] \in Job /\ "serve" \in Process
      /\ old \in Table /\ Backed(old)
  BY <1>1, <1>2, AtWork
<1>4. f \in DOMAIN Successor /\ Successor[f] \in Fp /\ Successor[f] # f
  BY <1>1, <1>2, <1>3, StoreAssumption, NewKeyAssumption DEF ActorOK, StoreAssumption
<1>5. PICK table \in Table : table = new
  BY <1>3, <1>4, PutFresh
<1>6. PICK what : what = [job[t] EXCEPT !.then = "accept"]
  OBVIOUS
<1>7. job' = [job EXCEPT ![t] = what] /\ what.fp = f /\ what.then = "accept"
  BY <1>1, <1>2, <1>3, <1>6 DEF ActorsOK, Job
<1>8. pc'[t] = "save" /\ job'[t] = what
  BY <1>1, <1>2, <1>3, <1>7 DEF ActorsOK
<1>9. /\ f \in noticed /\ f \in DOMAIN old /\ old[f].revoked
      /\ <<"revoked", Successor[f]>> \notin Promised
  BY <1>2 DEF SerialInv, PromiseOK, Towards
<1>10. /\ DOMAIN new = DOMAIN old \union {Successor[f]}
       /\ \A g \in DOMAIN old : g # Successor[f] => new[g] = old[g]
  BY DEF Put
<1>11. Keeps(old, new)
  <2> SUFFICES ASSUME NEW fact \in Promised, Holds(old, fact) PROVE Holds(new, fact)
    BY DEF Keeps
  <2>1. CASE fact[2] # Successor[f]
    BY <1>10, <2>1 DEF Holds
  <2>2. CASE fact[2] = Successor[f]
    <3>1. fact = <<fact[1], fact[2]>>
      BY DEF Inv, RestOK, Promised
    <3>2. fact[1] # "revoked"
      BY <1>9, <2>2, <3>1
    <3> QED
      BY <1>10, <2>2, <3>2 DEF Holds
  <2> QED
    BY <2>1, <2>2
<1>12. /\ f \in DOMAIN table /\ table[f].revoked /\ Successor[f] \in DOMAIN table
       /\ Keeps(old, table)
  BY <1>4, <1>5, <1>9, <1>10, <1>11
<1>13. mem'["serve"] = table
  BY <1>2, <1>3, <1>5 DEF MemOK
<1> HIDE DEF f, old, new
<1>14. PromiseOK(t)'
  BY <1>2, <1>7, <1>8, <1>9, <1>12, <1>13 DEF PromiseOK, Towards, Writing
<1>15. SaveOK(t)'
  BY <1>8 DEF SaveOK
<1> QED
  BY <1>1, <1>2, <1>5, <1>7, <1>12, <1>14, <1>15, WorkSerial DEF old, Torn

----------------------------------------------------------------------------
(* The steps of a save.                                                    *)

LEMMA SaveBeginsSerial ==
  ASSUME Inv, SerialInv, OneAtATime, NEW x \in Actor, SaveBegins(x)
  PROVE  SerialInv'
<1>1. /\ pc[x] = "save" /\ pc[x] \in Saving /\ pc' = [pc EXCEPT ![x] = "copy"]
      /\ job' = [job EXCEPT ![x].begun = mem[Home(x)]]
      /\ UNCHANGED <<mem, files, acked, noticed, overtaken>>
  BY DEF SaveBegins, Saving, Writing, world, history
<1>2. ActorsOK /\ job[x] \in Job /\ mem[Home(x)] \in Table
  BY <1>1, AtWork
<1>3. PICK what : what = [job[x] EXCEPT !.begun = mem[Home(x)]]
  OBVIOUS
<1>4. /\ job' = [job EXCEPT ![x] = what] /\ what.begun = mem[Home(x)]
      /\ what.fp = job[x].fp /\ what.then = job[x].then
  BY <1>1, <1>2, <1>3 DEF ActorsOK, Job
<1>5. pc'[x] = "copy" /\ job'[x] = what
  BY <1>1, <1>2, <1>4 DEF ActorsOK
<1>6. SaveOK(x)'
  BY <1>1, <1>4, <1>5 DEF SaveOK, Home
<1>7. ASSUME x \in Thread PROVE PromiseOK(x)'
  BY <1>1, <1>4, <1>5, <1>7 DEF SerialInv, PromiseOK, Towards, Promised, Writing
<1> QED
  BY <1>1, <1>4, <1>6, <1>7, PassSerial DEF Torn

\* Nobody has added a record meanwhile, and what is copied is the table.
LEMMA CopySerial ==
  ASSUME Inv, SerialInv, OneAtATime, NEW x \in Actor, Copy(x)
  PROVE  SerialInv'
<1>1. pc[x] = "copy" /\ pc[x] \in Saving /\ UNCHANGED <<mem, files, acked, noticed, overtaken>>
  BY DEF Copy, Saving, Writing, world, history
<1>2. ActorsOK /\ job[x] \in Job /\ mem[Home(x)] \in Table
  BY <1>1, AtWork
<1>3. job[x].begun = mem[Home(x)]
  BY <1>1 DEF SerialInv, SaveOK
<1>4. PICK now : now = mem[Home(x)]
  OBVIOUS
<1>5. now = [f \in DOMAIN now |-> now[f]]
  BY <1>2, <1>4, TableIs
<1>6. PICK fresh \in SUBSET DOMAIN now :
        job' = [job EXCEPT ![x].begun = NoContacts, ![x].snap =
                  [f \in DOMAIN now |-> IF f \in fresh THEN now[f] ELSE now[f]]]
  BY <1>3, <1>4 DEF Copy
<1>7. [f \in DOMAIN now |-> IF f \in fresh THEN now[f] ELSE now[f]] = now
  BY <1>5
<1>8. /\ job' = [job EXCEPT ![x].begun = NoContacts, ![x].snap = now]
      /\ pc' = [pc EXCEPT ![x] = "open_enc"]
  BY <1>3, <1>4, <1>6, <1>7 DEF Copy
<1>9. PICK what : what = [job[x] EXCEPT !.begun = NoContacts, !.snap = now]
  OBVIOUS
<1>10. /\ job' = [job EXCEPT ![x] = what] /\ what.snap = now
       /\ what.fp = job[x].fp /\ what.then = job[x].then
  BY <1>2, <1>8, <1>9 DEF ActorsOK, Job
<1>11. pc'[x] = "open_enc" /\ job'[x] = what
  BY <1>2, <1>8, <1>10 DEF ActorsOK
<1>12. SaveOK(x)'
  BY <1>1, <1>4, <1>10, <1>11 DEF SaveOK, Home
<1>13. ASSUME x \in Thread PROVE PromiseOK(x)'
  BY <1>1, <1>10, <1>11, <1>13 DEF SerialInv, PromiseOK, Towards, Promised, Writing
<1> QED
  BY <1>1, <1>8, <1>10, <1>12, <1>13, PassSerial DEF Torn

\* A step of a save that opens or writes a file.
LEMMA FileSerial ==
  ASSUME Inv, SerialInv, OneAtATime, NEW x \in Actor, pc[x] \in Writing,
         NEW to, NEW what, pc' = [pc EXCEPT ![x] = to], job' = [job EXCEPT ![x] = what],
         UNCHANGED <<mem, acked, noticed, overtaken>>,
         enc'.table = enc.table \/ enc'.table = mem[Home(x)],
         to \in Torn \/ x \in Command \/ Readable',
         to \in {"open_meta", "write_meta"} /\ x \in Thread => what.nonce = enc'.nonce,
         SaveOK(x)', x \in Thread => PromiseOK(x)'
  PROVE  SerialInv'
<1>1. Busy(x) /\ pc[x] \in Saving
  BY DEF Busy, Writing, Saving
<1>2. Alone(x) /\ pc'[x] = to /\ job'[x] = what
  BY <1>1, AloneIs, Zenon
<1>3. Running(Home(x)) /\ Promised' = Promised
  BY <1>1, AtWork DEF Promised
<1>4. \A c \in Command : Busy(c)' => Busy(c)
  BY <1>1, <1>2 DEF Alone, Actor, Busy
<1>5. \A fact \in Promised : Holds(mem[Home(x)], fact)
  BY <1>1, <1>3 DEF SerialInv, FactsKept, Home, Actor
<1>6. FactsKept'
  <2>1. \A fact \in Promised : Holds(enc'.table, fact)
    BY <1>5 DEF SerialInv, FactsKept
  <2> QED
    BY <1>3, <1>4, <2>1 DEF SerialInv, FactsKept, Running
<1>7. NoticedFirst'
  BY DEF SerialInv, NoticedFirst
<1>8. NoncesOK'
  <2>1. CASE x \in Thread
    <3>1. \A t \in Thread : t # x => pc'[t] \notin Torn
      BY <1>2 DEF Alone, Actor, Busy, Torn
    <3>2. \A t \in Thread : pc'[t] \in {"open_meta", "write_meta"} => t = x
      BY <3>1 DEF Torn
    <3>3. x \notin Command
      BY <2>1, StoreAssumption DEF StoreAssumption
    <3> QED
      BY <1>2, <2>1, <3>2, <3>3 DEF NoncesOK
  <2>2. CASE x \in Command
    BY <1>1, <2>2 DEF OneAtATime, NoncesOK, Running
  <2> QED
    BY <2>1, <2>2 DEF Actor
<1> QED
  BY <1>2, <1>6, <1>7, <1>8, AloneActs DEF SerialInv

LEMMA OpenEncSerial ==
  ASSUME Inv, SerialInv, OneAtATime, NEW x \in Actor, OpenEnc(x)
  PROVE  SerialInv'
<1>1. /\ pc[x] = "open_enc" /\ pc[x] \in Writing /\ pc' = [pc EXCEPT ![x] = "write_enc"]
      /\ UNCHANGED <<mem, job, acked, noticed, overtaken>>
  BY DEF OpenEnc, Writing, world, history
<1>2. ActorsOK /\ FilesOK /\ job' = [job EXCEPT ![x] = job[x]]
  BY <1>1, Kept DEF Inv
<1>3. enc'.table = enc.table /\ enc'.nonce = None
  BY <1>2 DEF OpenEnc, FilesOK
<1>4. pc'[x] = "write_enc" /\ job'[x] = job[x]
  BY <1>1, <1>2 DEF ActorsOK
<1>5. job[x].snap = mem[Home(x)]
  BY <1>1 DEF SerialInv, SaveOK
<1>6. SaveOK(x)'
  BY <1>1, <1>3, <1>4, <1>5 DEF SaveOK, Home
<1>7. ASSUME x \in Thread PROVE PromiseOK(x)'
  BY <1>1, <1>4, <1>7 DEF SerialInv, PromiseOK, Towards, Promised, Writing
<1>8. "write_enc" \in Torn /\ "write_enc" \notin {"open_meta", "write_meta"}
  BY DEF Torn
<1> QED
  BY <1>1, <1>2, <1>3, <1>6, <1>7, <1>8, FileSerial

\* The file becomes what the process has, which holds every promise: nobody has
\* written to it since it was opened.
LEMMA WriteEncSerial ==
  ASSUME Inv, SerialInv, OneAtATime, NEW x \in Actor, WriteEnc(x)
  PROVE  SerialInv'
<1>1. /\ pc[x] = "write_enc" /\ pc[x] \in Writing /\ pc[x] \in Saving
      /\ pc' = [pc EXCEPT ![x] = "open_meta"]
      /\ job' = [job EXCEPT ![x].snap = NoContacts, ![x].nonce = uses + 1]
      /\ UNCHANGED <<mem, acked, noticed, overtaken>>
  BY DEF WriteEnc, Writing, Saving, world, history
<1>2. ActorsOK /\ job[x] \in Job
  BY <1>1, AtWork
<1>3. enc.nonce = None /\ job[x].snap = mem[Home(x)]
  BY <1>1 DEF SerialInv, SaveOK
<1>4. enc'.nonce = uses + 1 /\ enc'.table = mem[Home(x)]
  BY <1>3 DEF WriteEnc
<1>5. PICK what : what = [job[x] EXCEPT !.snap = NoContacts, !.nonce = uses + 1]
  OBVIOUS
<1>6. /\ job' = [job EXCEPT ![x] = what] /\ what.nonce = uses + 1
      /\ what.fp = job[x].fp /\ what.then = job[x].then
  BY <1>1, <1>2, <1>5 DEF ActorsOK, Job
<1>7. pc'[x] = "open_meta" /\ job'[x] = what
  BY <1>1, <1>2, <1>6 DEF ActorsOK
<1>8. SaveOK(x)'
  BY <1>7 DEF SaveOK
<1>9. ASSUME x \in Thread PROVE PromiseOK(x)'
  <2>1. enc'.table = mem'["serve"]
    BY <1>1, <1>4, <1>9, Homes
  <2>2. /\ UNCHANGED <<mem, noticed, Promised>> /\ PromiseOK(x) /\ pc[x] = "write_enc"
        /\ job'[x].fp = job[x].fp /\ job'[x].then = job[x].then
    BY <1>1, <1>6, <1>7, <1>9 DEF SerialInv, Promised
  <2>3. /\ Towards(x, "reply")' = Towards(x, "reply")
        /\ Towards(x, "successor")' = Towards(x, "successor")
        /\ Towards(x, "accept")' = Towards(x, "accept")
    BY <1>7, <2>2 DEF Towards, Writing
  <2> QED
    BY <1>7, <2>1, <2>2, <2>3 DEF PromiseOK
<1>10. "open_meta" \in Torn
  BY DEF Torn
<1> QED
  BY <1>1, <1>4, <1>6, <1>8, <1>9, <1>10, FileSerial

LEMMA OpenMetaSerial ==
  ASSUME Inv, SerialInv, OneAtATime, NEW x \in Actor, OpenMeta(x)
  PROVE  SerialInv'
<1>1. /\ pc[x] = "open_meta" /\ pc[x] \in Writing /\ pc' = [pc EXCEPT ![x] = "write_meta"]
      /\ UNCHANGED <<mem, job, enc, acked, noticed, overtaken>>
  BY DEF OpenMeta, Writing, world, history
<1>2. ActorsOK /\ job' = [job EXCEPT ![x] = job[x]]
  BY <1>1, Kept DEF Inv
<1>3. pc'[x] = "write_meta" /\ job'[x] = job[x]
  BY <1>1, <1>2 DEF ActorsOK
<1>4. SaveOK(x)'
  BY <1>3 DEF SaveOK
<1>5. ASSUME x \in Thread PROVE PromiseOK(x)'
  BY <1>1, <1>3, <1>5 DEF SerialInv, PromiseOK, Towards, Promised, Writing
<1>6. "write_meta" \in Torn
  BY DEF Torn
<1>7. CASE x \in Thread
  <2>1. Running("serve") /\ pc[x] \notin {"idle", "done"}
    BY <1>1, <1>2, <1>7, Homes DEF ActorsOK, ActorOK
  <2>2. job[x].nonce = enc'.nonce
    BY <1>1, <1>7, <2>1 DEF SerialInv, NoncesOK
  <2> QED
    BY <1>1, <1>2, <1>4, <1>5, <1>6, <2>2, FileSerial
<1>8. CASE x \in Command
  <2>1. x \notin Thread
    BY <1>8, StoreAssumption DEF StoreAssumption
  <2> QED
    BY <1>1, <1>2, <1>4, <1>5, <1>6, <1>8, <2>1, FileSerial
<1> QED
  BY <1>7, <1>8 DEF Actor

LEMMA WriteMetaSerial ==
  ASSUME Inv, SerialInv, OneAtATime, NEW x \in Actor, WriteMeta(x)
  PROVE  SerialInv'
<1>1. /\ pc[x] = "write_meta" /\ pc[x] \in Writing /\ pc[x] \in Saving
      /\ pc' = [pc EXCEPT ![x] = job[x].then] /\ meta' = job[x].nonce
      /\ job' = [job EXCEPT ![x].nonce = 0]
      /\ UNCHANGED <<mem, enc, acked, noticed, overtaken>>
  BY DEF WriteMeta, MetaFor, Writing, Saving, world, history
<1>2. ActorsOK /\ ActorOK(x) /\ job[x] \in Job /\ Running(Home(x))
  BY <1>1, AtWork
<1>3. PICK what : what = [job[x] EXCEPT !.nonce = 0]
  OBVIOUS
<1>4. /\ job' = [job EXCEPT ![x] = what] /\ what.fp = job[x].fp /\ what.then = job[x].then
  BY <1>1, <1>2, <1>3 DEF ActorsOK, Job
<1>5. pc'[x] = job[x].then /\ job'[x] = what
  BY <1>1, <1>2, <1>4 DEF ActorsOK
<1>6. /\ x \in Thread => job[x].then \in {"reply", "successor", "accept"}
      /\ x \in Command => job[x].then \in {"added", "told"}
  BY <1>1, <1>2 DEF ActorOK
<1>7. x \in Command \/ Readable'
  <2> SUFFICES ASSUME x \in Thread PROVE Readable'
    BY DEF Actor
  <2>1. job[x].nonce = enc.nonce
    BY <1>1, <1>2, Homes DEF SerialInv, NoncesOK
  <2>2. job[x].nonce \in Nat
    BY <1>2 DEF Job
  <2> QED
    BY <1>1, <2>1, <2>2, NoneAssumption DEF Readable, NoneAssumption
<1>8. SaveOK(x)'
  BY <1>5, <1>6 DEF SaveOK, Actor
<1>9. ASSUME x \in Thread PROVE PromiseOK(x)'
  BY <1>1, <1>4, <1>5, <1>6, <1>9 DEF SerialInv, PromiseOK, Towards, Promised, Writing
<1>10. job[x].then \notin {"open_meta", "write_meta"}
  BY <1>6 DEF Actor
<1> QED
  BY <1>1, <1>4, <1>7, <1>8, <1>9, <1>10, FileSerial

----------------------------------------------------------------------------
(* The promise itself, and the life of `serve`.                            *)

\* What a thread tells its peer is by then in memory and on disk.
LEMMA ReplySerial ==
  ASSUME Inv, SerialInv, OneAtATime, NEW t \in Thread, Reply(t)
  PROVE  SerialInv'
<1> DEFINE f == job[t].fp
           facts == IF pc[t] = "reply" THEN {<<"known", f>>}
                    ELSE {<<"known", Successor[f]>>, <<"revoked", f>>}
<1>1. t \in Actor /\ Home(t) = "serve" /\ t \notin Command
  BY Homes, StoreAssumption DEF Actor, StoreAssumption
<1>2. /\ pc[t] \in {"reply", "accept"} /\ Busy(t) /\ acked' = acked \union facts
      /\ pc' = [pc EXCEPT ![t] = "idle"] /\ job' = [job EXCEPT ![t] = NoJob]
      /\ UNCHANGED <<mem, enc, meta, noticed, overtaken>>
  BY DEF Reply, Busy, files, world
<1>3. Alone(t) /\ pc'[t] = "idle"
  BY <1>1, <1>2, AloneIs
<1>4. enc.table = mem["serve"]
  BY <1>2 DEF SerialInv, PromiseOK
<1>5. \A fact \in facts : Holds(mem["serve"], fact) /\ (fact[1] = "revoked" => fact[2] \in noticed)
  <2>1. CASE pc[t] = "reply"
    <3>1. f \in DOMAIN mem["serve"]
      BY <2>1 DEF SerialInv, PromiseOK, Towards
    <3> QED
      BY <2>1, <3>1 DEF Holds
  <2>2. CASE pc[t] = "accept"
    <3>1. /\ f \in noticed /\ f \in DOMAIN mem["serve"] /\ mem["serve"][f].revoked
          /\ Successor[f] \in DOMAIN mem["serve"]
      BY <2>2 DEF SerialInv, PromiseOK, Towards
    <3> QED
      BY <2>2, <3>1 DEF Holds
  <2> QED
    BY <1>2, <2>1, <2>2
<1> HIDE DEF f, facts
<1>6. \A c \in Command : ~Busy(c)'
  BY <1>1, <1>3 DEF Alone, Actor, Busy
<1>7. FactsKept'
  <2> SUFFICES ASSUME NEW fact \in Promised'
               PROVE  Holds(enc.table, fact) /\ (Running("serve") => Holds(mem["serve"], fact))
    BY <1>2, <1>6 DEF FactsKept, Running
  <2>0. fact \in Promised \/ fact \in facts
    BY <1>2 DEF Promised
  <2>1. CASE fact \in Promised
    BY <2>1 DEF SerialInv, FactsKept
  <2>2. CASE fact \in facts
    BY <1>4, <1>5, <2>2
  <2> QED
    BY <2>0, <2>1, <2>2
<1>8. NoticedFirst'
  BY <1>2, <1>5 DEF SerialInv, NoticedFirst
<1>9. NoncesOK'
  <2>1. \A u \in Thread : pc[u] \notin Torn /\ pc'[u] \notin Torn
    BY <1>2, <1>3 DEF Alone, Actor, Busy, Torn
  <2> QED
    BY <1>2, <2>1 DEF SerialInv, NoncesOK, Running, Readable, Torn
<1>10. SaveOK(t)' /\ PromiseOK(t)'
  BY <1>3 DEF SaveOK, PromiseOK, Towards, Writing
<1> QED
  BY <1>1, <1>3, <1>7, <1>8, <1>9, <1>10, AloneActs DEF SerialInv

\* `serve` starts with what the file holds.
LEMMA StartServeSerial ==
  ASSUME Inv, SerialInv, StartServe
  PROVE  SerialInv'
<1>1. /\ ~Running("serve") /\ Readable /\ mem' = [mem EXCEPT !["serve"] = enc.table]
      /\ UNCHANGED <<pc, job, enc, meta, acked, noticed, overtaken>>
  BY DEF StartServe, Loaded, files, history
<1>2. mem'["serve"] = enc.table /\ \A p \in Process : p # "serve" => mem'[p] = mem[p]
  BY <1>1 DEF Inv, MemOK, Process
<1>3. \A c \in Command : mem'[c] = mem[c] /\ Home(c) = c
  BY <1>2, Homes DEF Process
<1>4. ASSUME NEW t \in Thread PROVE pc[t] = "idle"
  BY <1>1, Homes DEF Inv, ActorsOK, ActorOK, Actor, ThreadStates
<1>5. FactsKept'
  BY <1>1, <1>2, <1>3 DEF SerialInv, FactsKept, Promised, Busy
<1>6. NoticedFirst' /\ NoncesOK'
  BY <1>1, <1>4 DEF SerialInv, NoticedFirst, NoncesOK, Readable, Torn
<1>7. \A x \in Actor : SaveOK(x)'
  BY <1>1, <1>3, <1>4 DEF SerialInv, SaveOK, Actor, Home
<1>8. \A t \in Thread : PromiseOK(t)'
  BY <1>1, <1>4 DEF PromiseOK, Towards, Writing
<1> QED
  BY <1>5, <1>6, <1>7, <1>8 DEF SerialInv

LEMMA StopServeSerial ==
  ASSUME Inv, SerialInv, StopServe
  PROVE  SerialInv'
<1>1. /\ mem' = [mem EXCEPT !["serve"] = None]
      /\ pc' = [x \in Actor |-> IF x \in Thread THEN "idle" ELSE pc[x]]
      /\ job' = [x \in Actor |-> IF x \in Thread THEN NoJob ELSE job[x]]
      /\ UNCHANGED <<enc, meta, acked, noticed, overtaken>>
  BY DEF StopServe, Killed, files, world, history
<1>2. ~Running("serve")' /\ \A p \in Process : p # "serve" => mem'[p] = mem[p]
  BY <1>1 DEF Inv, MemOK, Process, Running
<1>3. \A c \in Command : /\ mem'[c] = mem[c] /\ Home(c) = c
                         /\ pc'[c] = pc[c] /\ job'[c] = job[c]
  BY <1>1, <1>2, Homes, StoreAssumption DEF Process, Actor, StoreAssumption
<1>4. \A t \in Thread : pc'[t] = "idle"
  BY <1>1 DEF Actor
<1>5. FactsKept'
  BY <1>1, <1>2, <1>3 DEF SerialInv, FactsKept, Promised, Busy
<1>6. NoticedFirst' /\ NoncesOK'
  BY <1>1, <1>2 DEF SerialInv, NoticedFirst, NoncesOK
<1>7. \A x \in Actor : SaveOK(x)'
  BY <1>1, <1>3, <1>4 DEF SerialInv, SaveOK, Actor, Home
<1>8. \A t \in Thread : PromiseOK(t)'
  BY <1>4 DEF PromiseOK, Towards, Writing
<1> QED
  BY <1>5, <1>6, <1>7, <1>8 DEF SerialInv

LEMMA SerialNext ==
  ASSUME Inv, SerialInv, OneAtATime, OneAtATime', [Next]_vars
  PROVE  SerialInv'
<1>1. ASSUME NEW t \in Thread, Handler(t) PROVE SerialInv'
  BY <1>1, ContactRequestSerial, KeyRotateSerial, AddSuccessorSerial, ReplySerial DEF Handler
<1>2. ASSUME NEW c \in Command, Cli(c) PROVE SerialInv'
  BY <1>2, LoadSerial, IdleStep, QuitSerial, ExchangedSerial, ConfirmSerial DEF Cli, Start, Actor
<1>3. ASSUME NEW x \in Actor, Insert(x) \/ Save(x) PROVE SerialInv'
  BY <1>3, InsertSerial, SaveBeginsSerial, CopySerial, OpenEncSerial, WriteEncSerial,
     OpenMetaSerial, WriteMetaSerial DEF Save
<1>4. CASE StartServe \/ StopServe
  BY <1>4, StartServeSerial, StopServeSerial
<1>5. CASE UNCHANGED vars
  BY <1>5, NothingSaved DEF vars, world, history
<1> QED
  BY <1>1, <1>2, <1>3, <1>4, <1>5 DEF Next, Step

\* Once nothing is to overlap, nothing does, and the serial invariant holds.
SerialUse == serial => OneAtATime /\ SerialInv

\* A step of a `serial` behaviour starts and ends with nothing overlapping.
LEMMA SerialStep ==
  ASSUME SerialUse, [Next]_vars, serial'
  PROVE  serial /\ OneAtATime /\ OneAtATime' /\ SerialInv
<1>1. serial
  BY DEF Next, vars
<1>2. OneAtATime /\ SerialInv
  BY <1>1 DEF SerialUse
<1>3. CASE UNCHANGED vars
  BY <1>1, <1>2, <1>3 DEF vars, OneAtATime, Busy, Running
<1> QED
  BY <1>1, <1>2, <1>3 DEF Next

LEMMA SerialInvariance == Spec => []SerialUse
<1>1. Init => SerialUse
  <2>1. Init => OneAtATime
    BY DEF Init, OneAtATime, Busy, Actor
  <2> QED
    BY <2>1, SerialInit DEF SerialUse
<1>2. Inv /\ SerialUse /\ [Next]_vars => SerialUse'
  BY SerialStep, SerialNext DEF SerialUse
<1> QED
  BY <1>1, <1>2, Invariance, PTL DEF Spec

\* What a CONTACT_ACCEPT promised its peer lasts, in memory and wherever the store
\* opens, through messages, crashes and restarts, for any number of threads,
\* commands and keys, if handlers and commands come one at a time; all but the
\* revocation of a key that its own predecessor's notice overtook.
THEOREM PromisesSurvive == Spec => []AckedSurvives
<1>1. SerialUse => AckedSurvives
  BY DEF SerialUse, SerialInv, FactsKept, Promised, AckedSurvives
<1> QED
  BY <1>1, SerialInvariance, PTL

\* Likewise a `serve` that has loaded the store leaves it loadable by the next.
THEOREM SerialStoreReadable == Spec => []ReadableWhenSerial
<1>1. SerialInv => StoreReadable
  <2> SUFFICES ASSUME SerialInv, Running("serve"), \A x \in Actor : ~Busy(x)
               PROVE  Readable
    BY DEF StoreReadable
  <2>1. \A t \in Thread : pc[t] \notin Torn
    BY DEF Busy, Actor, Torn
  <2> QED
    BY <2>1 DEF SerialInv, NoncesOK
<1>2. SerialUse => ReadableWhenSerial
  BY <1>1 DEF SerialUse, ReadableWhenSerial
<1> QED
  BY <1>2, SerialInvariance, PTL

----------------------------------------------------------------------------
(***************************************************************************)
(* The records of the contacts, for handlers and commands that come one at *)
(* a time.  Only AddSuccessor puts a record over another; it can take back *)
(* what the user confirmed of that key, which is then one that a notice    *)
(* has announced, and its revocation only if the key's own notice came     *)
(* before that one.                                                        *)
(***************************************************************************)

RevokedIn(table, f) == f \in DOMAIN table /\ table[f].revoked
VerifiedIn(table, f) == f \in DOMAIN table /\ table[f].verified

\* A table where only keys that were rotated are revoked, and all are verified
\* of which the user is sure, but for announced successors.
Sane(table, rotated, sure) ==
  /\ \A f : RevokedIn(table, f) => f \in rotated
  /\ \A f \in sure : VerifiedIn(table, f) \/ \E g \in rotated : Successor[g] = f

\* The table `new` has what `table` has, and contacts added to it.
Grown(table, new) ==
  /\ DOMAIN table \subseteq DOMAIN new
  /\ \A f \in DOMAIN new : RevokedIn(new, f) <=> RevokedIn(table, f)

TablesSane ==
  /\ Sane(enc.table, noticed, told)
  /\ Running("serve") => Sane(mem["serve"], noticed, told)
  /\ \A c \in Command : Busy(c) => Sane(mem[c], noticed, told)

\* A command only adds contacts and confirms; what it is going to report as
\* verified is verified in its table, and in the file by the time it reports.
CommandOK(c) ==
  /\ Busy(c) => Grown(enc.table, mem[c])
  /\ pc[c] = "prompt" => job[c].fp \in DOMAIN mem[c]
  /\ pc[c] \in {"exchange", "insert"} => job[c].then = "added"
  /\ pc[c] \in {"open_meta", "write_meta", "told"} => enc.table = mem[c]
  /\ Towards(c, "told") => VerifiedIn(mem[c], job[c].fp)

\* The key a thread is going to add is not a revoked one, or has been overtaken.
SuccessorOK(t) ==
  Towards(t, "successor") /\ RevokedIn(mem["serve"], Successor[job[t].fp]) =>
    Successor[job[t].fp] \in overtaken

StandingInv ==
  /\ TablesSane
  /\ \A c \in Command : CommandOK(c)
  /\ \A t \in Thread : SuccessorOK(t)

LEMMA InitStanding == Init => StandingInv
<1> SUFFICES ASSUME Init PROVE StandingInv
  OBVIOUS
<1>1. /\ DOMAIN enc.table = Old /\ \A f \in Old : ~enc.table[f].revoked
      /\ told = {} /\ ~Running("serve") /\ \A x \in Actor : pc[x] = "idle"
  BY DEF Init, Fresh, Running, Process
<1>2. TablesSane
  BY <1>1 DEF TablesSane, Sane, RevokedIn, Busy, Actor
<1> QED
  BY <1>1, <1>2 DEF StandingInv, CommandOK, SuccessorOK, Towards, Writing, Busy, Actor

----------------------------------------------------------------------------
(* What the actions make of a table.                                       *)

LEMMA SaneMore ==
  ASSUME NEW table, NEW sure, NEW rotated, NEW more, rotated \subseteq more,
         Sane(table, rotated, sure)
  PROVE  Sane(table, more, sure)
  BY DEF Sane

\* A fresh record does no harm where there was none, or in place of an announced
\* successor's.
LEMMA SanePut ==
  ASSUME NEW table, NEW sure, NEW rotated, Sane(table, rotated, sure),
         NEW f, f \notin DOMAIN table \/ \E g \in rotated : Successor[g] = f
  PROVE  Sane(Put(table, f, Fresh), rotated, sure)
<1> DEFINE new == Put(table, f, Fresh)
<1>1. DOMAIN new = DOMAIN table \union {f}
  BY DEF Put
<1>2. \A g \in DOMAIN new : new[g] = IF g = f THEN Fresh ELSE table[g]
  BY DEF Put
<1>3. ~Fresh.revoked
  BY DEF Fresh
<1> HIDE DEF new
<1>4. \A g : RevokedIn(new, g) => g \in rotated
  BY <1>1, <1>2, <1>3 DEF Sane, RevokedIn
<1>5. \A g \in sure : VerifiedIn(new, g) \/ \E h \in rotated : Successor[h] = g
  <2> TAKE g \in sure
  <2>1. CASE g = f
    BY <2>1 DEF Sane, VerifiedIn
  <2>2. CASE g # f
    BY <1>1, <1>2, <2>2 DEF Sane, VerifiedIn
  <2> QED
    BY <2>1, <2>2
<1> QED
  BY <1>4, <1>5 DEF Sane, new

LEMMA RevokedIs ==
  ASSUME NEW table \in Table, NEW f \in DOMAIN table, NEW s \in Fp
  PROVE  /\ DOMAIN Revoked(table, f, s) = DOMAIN table
         /\ \A g \in DOMAIN table : g # f => Revoked(table, f, s)[g] = table[g]
         /\ Revoked(table, f, s)[f].verified = table[f].verified
<1>1. table[f] \in Entry
  BY TableIs
<1>2. Revoked(table, f, s)[f] = [table[f] EXCEPT !.revoked = TRUE, !.successor = s]
  BY DEF Revoked
<1>3. Revoked(table, f, s)[f].verified = table[f].verified
  BY <1>1, <1>2 DEF Entry
<1> QED
  BY <1>3 DEF Revoked

LEMMA SaneRevoked ==
  ASSUME NEW table \in Table, NEW sure, NEW rotated, Sane(table, rotated, sure),
         NEW f \in DOMAIN table, f \in rotated, NEW s \in Fp
  PROVE  Sane(Revoked(table, f, s), rotated, sure)
<1> DEFINE new == Revoked(table, f, s)
<1>1. /\ DOMAIN new = DOMAIN table /\ \A g \in DOMAIN table : g # f => new[g] = table[g]
      /\ new[f].verified = table[f].verified
  BY RevokedIs
<1> HIDE DEF new
<1>2. \A g : RevokedIn(new, g) => g \in rotated
  BY <1>1 DEF Sane, RevokedIn
<1>3. \A g \in sure : VerifiedIn(table, g) => VerifiedIn(new, g)
  BY <1>1 DEF VerifiedIn
<1> QED
  BY <1>2, <1>3 DEF Sane, new

LEMMA VerifiedIs ==
  ASSUME NEW table \in Table, NEW f \in DOMAIN table
  PROVE  /\ DOMAIN Verified(table, f) = DOMAIN table
         /\ \A g \in DOMAIN table : g # f => Verified(table, f)[g] = table[g]
         /\ Verified(table, f)[f].verified
         /\ Verified(table, f)[f].revoked = table[f].revoked
<1>1. table[f] \in Entry
  BY TableIs
<1>2. Verified(table, f)[f] = [table[f] EXCEPT !.verified = TRUE]
  BY DEF Verified
<1>3. Verified(table, f)[f].verified = TRUE /\ Verified(table, f)[f].revoked = table[f].revoked
  BY <1>1, <1>2 DEF Entry
<1> QED
  BY <1>3 DEF Verified

LEMMA SaneVerified ==
  ASSUME NEW table \in Table, NEW sure, NEW rotated, Sane(table, rotated, sure),
         NEW f \in DOMAIN table
  PROVE  /\ Sane(Verified(table, f), rotated, sure)
         /\ Grown(table, Verified(table, f)) /\ VerifiedIn(Verified(table, f), f)
<1> DEFINE new == Verified(table, f)
<1>1. /\ DOMAIN new = DOMAIN table /\ \A g \in DOMAIN table : g # f => new[g] = table[g]
      /\ new[f].verified /\ new[f].revoked = table[f].revoked
  BY VerifiedIs
<1> HIDE DEF new
<1>2. \A g : RevokedIn(new, g) <=> RevokedIn(table, g)
  BY <1>1 DEF RevokedIn
<1>3. \A g : VerifiedIn(table, g) => VerifiedIn(new, g)
  BY <1>1 DEF VerifiedIn
<1>4. Sane(new, rotated, sure)
  BY <1>2, <1>3 DEF Sane
<1> QED
  BY <1>1, <1>2, <1>4 DEF Grown, VerifiedIn, new

LEMMA GrownPut ==
  ASSUME NEW table, NEW f, f \notin DOMAIN table
  PROVE  Grown(table, Put(table, f, Fresh))
<1> DEFINE new == Put(table, f, Fresh)
<1>1. DOMAIN new = DOMAIN table \union {f}
  BY DEF Put
<1>2. \A g \in DOMAIN new : new[g] = IF g = f THEN Fresh ELSE table[g]
  BY DEF Put
<1>3. ~Fresh.revoked
  BY DEF Fresh
<1> HIDE DEF new
<1>4. \A g \in DOMAIN new : RevokedIn(new, g) <=> RevokedIn(table, g)
  BY <1>1, <1>2, <1>3 DEF RevokedIn
<1> QED
  BY <1>1, <1>4 DEF Grown, new

LEMMA GrownTwice ==
  ASSUME NEW table, NEW new, NEW last, Grown(table, new), Grown(new, last)
  PROVE  Grown(table, last)
  BY DEF Grown, RevokedIn

----------------------------------------------------------------------------
(* Every action keeps the invariant.                                       *)

\* A step where the actors that move come to rest, and no table changes.
LEMMA QuietStanding ==
  ASSUME Inv, StandingInv, UNCHANGED <<mem, told>>, enc'.table = enc.table,
         noticed \subseteq noticed', overtaken \subseteq overtaken',
         \A x \in Actor : (pc'[x] = pc[x] /\ job'[x] = job[x]) \/ pc'[x] \in {"idle", "done"}
  PROVE  StandingInv'
<1>1. \A c \in Command : Busy(c)' => Busy(c)
  BY DEF Busy, Actor
<1>2. TablesSane'
  BY <1>1, SaneMore DEF StandingInv, TablesSane, Running
<1>3. ASSUME NEW c \in Command PROVE CommandOK(c)'
  <2>1. CASE pc'[c] = pc[c] /\ job'[c] = job[c]
    BY <2>1 DEF StandingInv, CommandOK, Busy, Towards
  <2>2. CASE pc'[c] \in {"idle", "done"}
    BY <2>2 DEF CommandOK, Busy, Towards, Writing
  <2> QED
    BY <2>1, <2>2 DEF Actor
<1>4. ASSUME NEW t \in Thread PROVE SuccessorOK(t)'
  <2>1. CASE pc'[t] = pc[t] /\ job'[t] = job[t]
    BY <2>1 DEF StandingInv, SuccessorOK, Towards
  <2>2. CASE pc'[t] \in {"idle", "done"}
    BY <2>2 DEF SuccessorOK, Towards, Writing
  <2> QED
    BY <2>1, <2>2 DEF Actor
<1> QED
  BY <1>2, <1>3, <1>4 DEF StandingInv

\* A step of the actor that is alone at work: its own table and the file count.
LEMMA AloneStanding ==
  ASSUME Inv, StandingInv, NEW x \in Actor, Alone(x), noticed \subseteq noticed', UNCHANGED told,
         \A p \in Process : p # Home(x) => mem'[p] = mem[p],
         Sane(enc'.table, noticed', told), Sane(mem'[Home(x)], noticed', told),
         x \in Command => CommandOK(x)', x \in Thread => SuccessorOK(x)'
  PROVE  StandingInv'
<1>1. ASSUME NEW y \in Actor, y # x PROVE pc'[y] \in {"idle", "done"}
  BY <1>1 DEF Alone, Busy
<1>2. ASSUME NEW c \in Command PROVE CommandOK(c)'
  BY <1>1, <1>2 DEF CommandOK, Busy, Towards, Writing, Actor
<1>3. ASSUME NEW t \in Thread PROVE SuccessorOK(t)'
  BY <1>1, <1>3 DEF SuccessorOK, Towards, Writing, Actor
<1>4. Running("serve")' => Sane(mem'["serve"], noticed', told')
  <2>1. CASE Home(x) = "serve"
    BY <2>1
  <2>2. CASE Home(x) # "serve"
    <3>1. mem'["serve"] = mem["serve"]
      BY <2>2 DEF Process
    <3> QED
      BY <3>1, SaneMore DEF StandingInv, TablesSane, Running
  <2> QED
    BY <2>1, <2>2
<1>5. ASSUME NEW c \in Command, Busy(c)' PROVE Sane(mem'[c], noticed', told')
  <2>1. c = x
    BY <1>1, <1>5 DEF Busy, Actor
  <2>2. Home(x) = c
    BY <2>1, Homes
  <2> QED
    BY <2>2
<1> QED
  BY <1>2, <1>3, <1>4, <1>5 DEF StandingInv, TablesSane

\* An actor at work has a sane table.
LEMMA SaneAtWork ==
  ASSUME Inv, StandingInv, NEW x \in Actor, Busy(x)
  PROVE  Sane(mem[Home(x)], noticed, told) /\ Sane(enc.table, noticed, told)
<1>1. Running(Home(x))
  BY DEF Inv, ActorsOK, ActorOK, Busy
<1> QED
  BY <1>1, Homes DEF StandingInv, TablesSane, Actor, Home

\* It goes on, without changing a table.
LEMMA PassStanding ==
  ASSUME Inv, StandingInv, OneAtATime, NEW x \in Actor, Busy(x), NEW to, NEW what,
         pc' = [pc EXCEPT ![x] = to], job' = [job EXCEPT ![x] = what],
         UNCHANGED <<mem, noticed, told>>, enc'.table = enc.table,
         x \in Command => CommandOK(x)', x \in Thread => SuccessorOK(x)'
  PROVE  StandingInv'
  BY AloneIs, SaneAtWork, AloneStanding

LEMMA ContactRequestStanding ==
  ASSUME Inv, StandingInv, OneAtATime', NEW t \in Thread, ContactRequest(t)
  PROVE  StandingInv'
<1>1. t \in Actor /\ t \notin Command /\ Home(t) = "serve" /\ ActorsOK
  BY Homes, StoreAssumption DEF Actor, StoreAssumption, Inv
<1>2. Running("serve") /\ UNCHANGED <<mem, enc, noticed, told>>
  BY DEF ContactRequest, Receives, files, history
<1>4. ASSUME NEW f \in Fp, NEW to \in {"save", "insert"}, Goto(t, to, f, "reply")
      PROVE  StandingInv'
  <2>1. pc' = [pc EXCEPT ![t] = to] /\ job' = [job EXCEPT ![t] = Moved(job[t], f, "reply")]
    BY <1>1, <1>4, GotoIs
  <2>2. pc'[t] = to /\ job'[t] = Moved(job[t], f, "reply")
    BY <1>1, <2>1 DEF ActorsOK
  <2>3. Alone(t)
    BY <1>1, <2>1, <2>2, AloneIs DEF Busy
  <2>4. job[t] \in Job /\ "reply" \in ThreadStates \union CommandStates
    BY <1>1 DEF ActorsOK, ActorOK, ThreadStates
  <2>5. job'[t].then = "reply"
    BY <2>2, <2>4, MovedJob
  <2>6. SuccessorOK(t)'
    BY <2>2, <2>5 DEF SuccessorOK, Towards, Writing
  <2> QED
    BY <1>1, <1>2, <2>3, <2>6, AloneStanding DEF StandingInv, TablesSane
<1> QED
  BY <1>4 DEF ContactRequest

\* The key that is announced now was not rotated yet, and nobody has revoked it, or
\* its own notice has come before.
LEMMA KeyRotateStanding ==
  ASSUME Inv, StandingInv, OneAtATime', NEW t \in Thread, KeyRotate(t)
  PROVE  StandingInv'
<1>1. /\ t \in Actor /\ t \notin Command /\ Home(t) = "serve" /\ "serve" \in Process
      /\ MemOK /\ ActorsOK
  BY Homes, StoreAssumption DEF Actor, Process, StoreAssumption, Inv
<1>2. Running("serve") /\ UNCHANGED <<enc, told>>
  BY DEF KeyRotate, Receives, files, history
<1>3. PICK f \in DOMAIN Successor :
        /\ noticed' = noticed \union {f}
        /\ overtaken' = overtaken \union ({Successor[f]} \intersect noticed)
        /\ \/ UNCHANGED <<mem, pc, job>>
           \/ /\ Known(mem["serve"], f)
              /\ mem' = [mem EXCEPT !["serve"][f].revoked = TRUE,
                                    !["serve"][f].successor = Successor[f]]
              /\ Goto(t, "save", f, "successor")
  BY DEF KeyRotate
<1>4. f \in Fp /\ Successor[f] \in Fp /\ Successor[f] # f
  BY StoreAssumption, NewKeyAssumption DEF StoreAssumption
<1>5. CASE UNCHANGED <<mem, pc, job>>
  BY <1>2, <1>3, <1>5, QuietStanding
<1>6. CASE /\ Known(mem["serve"], f)
           /\ mem' = [mem EXCEPT !["serve"][f].revoked = TRUE,
                                 !["serve"][f].successor = Successor[f]]
           /\ Goto(t, "save", f, "successor")
  <2> DEFINE old == mem["serve"]
             new == Revoked(old, f, Successor[f])
  <2>1. old \in Table /\ f \in DOMAIN old
    BY <1>1, <1>2, <1>6, RunningTable DEF Known
  <2>2. mem' = [mem EXCEPT !["serve"] = new]
    BY <1>1, <1>6, <2>1 DEF Revoked, MemOK
  <2>3. mem'["serve"] = new /\ \A p \in Process : p # "serve" => mem'[p] = mem[p]
    BY <1>1, <2>2 DEF MemOK
  <2>4. Sane(old, noticed, told) /\ Sane(enc.table, noticed, told)
    BY <1>2 DEF StandingInv, TablesSane
  <2>5. Sane(old, noticed', told) /\ Sane(enc.table, noticed', told) /\ f \in noticed'
    BY <1>3, <2>4, SaneMore
  <2>6. Sane(new, noticed', told)
    BY <1>4, <2>1, <2>5, SaneRevoked
  <2>7. RevokedIn(new, Successor[f]) => Successor[f] \in overtaken'
    <3>1. RevokedIn(old, Successor[f]) => Successor[f] \in overtaken'
      BY <1>3, <2>4 DEF Sane
    <3> QED
      BY <1>4, <2>1, <3>1, RevokedIs DEF RevokedIn
  <2> HIDE DEF old, new
  <2>8. pc' = [pc EXCEPT ![t] = "save"] /\ job' = [job EXCEPT ![t] = Moved(job[t], f, "successor")]
    BY <1>1, <1>6, GotoIs
  <2>9. pc'[t] = "save" /\ job'[t] = Moved(job[t], f, "successor")
    BY <1>1, <2>8 DEF ActorsOK
  <2>10. Alone(t)
    BY <1>1, <2>8, <2>9, AloneIs DEF Busy
  <2>11. job[t] \in Job /\ "successor" \in ThreadStates \union CommandStates
    BY <1>1 DEF ActorsOK, ActorOK, ThreadStates
  <2>12. job'[t].fp = f
    BY <1>4, <2>9, <2>11, MovedJob
  <2>13. SuccessorOK(t)'
    BY <2>3, <2>7, <2>12 DEF SuccessorOK
  <2> QED
    BY <1>1, <1>2, <1>3, <2>3, <2>5, <2>6, <2>10, <2>13, AloneStanding
<1> QED
  BY <1>3, <1>5, <1>6

LEMMA AddSuccessorStanding ==
  ASSUME Inv, SerialInv, StandingInv, OneAtATime, NEW t \in Thread, AddSuccessor(t)
  PROVE  StandingInv'
<1> DEFINE f == job[t].fp
           old == mem["serve"]
           new == Put(old, Successor[f], Fresh)
<1>1. t \in Actor /\ t \notin Command /\ Home(t) = "serve"
  BY StoreAssumption, Homes DEF Actor, StoreAssumption
<1>2. /\ pc[t] = "successor" /\ Busy(t) /\ pc' = [pc EXCEPT ![t] = "save"]
      /\ mem' = [mem EXCEPT !["serve"] = new]
      /\ job' = [job EXCEPT ![t].then = "accept"]
      /\ UNCHANGED <<enc, told, noticed>>
  BY DEF AddSuccessor, SuccessorOf, history, world, files, Busy
<1>3. MemOK /\ ActorsOK /\ job[t] \in Job /\ "serve" \in Process
  BY <1>1, <1>2, AtWork
<1>4. PICK what : what = [job[t] EXCEPT !.then = "accept"]
  OBVIOUS
<1>5. job' = [job EXCEPT ![t] = what] /\ what.then = "accept"
  BY <1>1, <1>2, <1>3, <1>4 DEF ActorsOK, Job
<1>6. pc'[t] = "save" /\ job'[t] = what
  BY <1>1, <1>2, <1>3, <1>5 DEF ActorsOK
<1>7. f \in noticed
  BY <1>2 DEF SerialInv, PromiseOK, Towards
<1>8. Sane(old, noticed, told) /\ Sane(enc.table, noticed, told)
  BY <1>1, <1>2, SaneAtWork
<1>9. Sane(new, noticed, told)
  BY <1>7, <1>8, SanePut
<1>10. mem'["serve"] = new /\ \A p \in Process : p # "serve" => mem'[p] = mem[p]
  BY <1>2, <1>3 DEF MemOK
<1> HIDE DEF f, old, new
<1>11. Alone(t)
  BY <1>1, <1>2, <1>5, AloneIs
<1>12. SuccessorOK(t)'
  BY <1>5, <1>6 DEF SuccessorOK, Towards, Writing
<1> QED
  BY <1>1, <1>2, <1>8, <1>9, <1>10, <1>11, <1>12, AloneStanding

LEMMA InsertStanding ==
  ASSUME Inv, SerialInv, StandingInv, OneAtATime, NEW x \in Actor, Insert(x)
  PROVE  StandingInv'
<1> DEFINE old == mem[Home(x)]
           new == Put(old, job[x].fp, Fresh)
<1>1. /\ pc[x] = "insert" /\ Busy(x) /\ pc[x] \in Saving /\ pc' = [pc EXCEPT ![x] = "save"]
      /\ mem' = [mem EXCEPT ![Home(x)] = new] /\ UNCHANGED <<job, enc, noticed, overtaken, told>>
  BY DEF Insert, Busy, Saving, Writing, files, world, history
<1>2. MemOK /\ ActorsOK /\ Home(x) \in Process
  BY <1>1, AtWork
<1>3. job' = [job EXCEPT ![x] = job[x]]
  BY <1>1, <1>2, Kept
<1>4. Alone(x) /\ pc'[x] = "save"
  BY <1>1, <1>3, AloneIs
<1>5. job[x].fp \notin DOMAIN old
  BY <1>1 DEF SerialInv, SaveOK
<1>6. Sane(old, noticed, told) /\ Sane(enc.table, noticed, told)
  BY <1>1, SaneAtWork
<1>7. Sane(new, noticed, told) /\ Grown(old, new)
  BY <1>5, <1>6, SanePut, GrownPut
<1>8. mem'[Home(x)] = new /\ \A p \in Process : p # Home(x) => mem'[p] = mem[p]
  BY <1>1, <1>2 DEF MemOK
<1> HIDE DEF new
<1>9. ASSUME x \in Command PROVE CommandOK(x)'
  <2>1. Home(x) = x /\ job[x].then = "added" /\ Grown(enc.table, mem[x])
    BY <1>1, <1>9, Homes DEF StandingInv, CommandOK
  <2>2. Grown(enc.table, new)
    BY <1>7, <2>1, GrownTwice
  <2> QED
    BY <1>1, <1>4, <1>8, <2>1, <2>2 DEF CommandOK, Towards, Writing
<1>10. ASSUME x \in Thread PROVE SuccessorOK(x)'
  BY <1>1, <1>4, <1>10 DEF SerialInv, PromiseOK, SuccessorOK, Towards, Writing
<1> QED
  BY <1>1, <1>4, <1>6, <1>7, <1>8, <1>9, <1>10, AloneStanding

LEMMA SaveBeginsStanding ==
  ASSUME Inv, StandingInv, OneAtATime, NEW x \in Actor, SaveBegins(x)
  PROVE  StandingInv'
<1>1. /\ pc[x] = "save" /\ pc[x] \in Saving /\ Busy(x) /\ pc' = [pc EXCEPT ![x] = "copy"]
      /\ job' = [job EXCEPT ![x].begun = mem[Home(x)]]
      /\ UNCHANGED <<mem, enc, noticed, overtaken, told>>
  BY DEF SaveBegins, Saving, Writing, Busy, files, world, history
<1>2. ActorsOK /\ job[x] \in Job
  BY <1>1, AtWork
<1>3. PICK what : what = [job[x] EXCEPT !.begun = mem[Home(x)]]
  OBVIOUS
<1>4. job' = [job EXCEPT ![x] = what] /\ what.fp = job[x].fp /\ what.then = job[x].then
  BY <1>1, <1>2, <1>3 DEF ActorsOK, Job
<1>5. pc'[x] = "copy" /\ job'[x] = what
  BY <1>1, <1>2, <1>4 DEF ActorsOK
<1>6. ASSUME x \in Command PROVE CommandOK(x)'
  BY <1>1, <1>4, <1>5, <1>6 DEF StandingInv, CommandOK, Towards, Writing
<1>7. ASSUME x \in Thread PROVE SuccessorOK(x)'
  BY <1>1, <1>4, <1>5, <1>7 DEF StandingInv, SuccessorOK, Towards, Writing
<1> QED
  BY <1>1, <1>4, <1>6, <1>7, PassStanding

LEMMA CopyStanding ==
  ASSUME Inv, StandingInv, OneAtATime, NEW x \in Actor, Copy(x)
  PROVE  StandingInv'
<1>1. /\ pc[x] = "copy" /\ pc[x] \in Saving /\ Busy(x)
      /\ UNCHANGED <<mem, enc, noticed, overtaken, told>>
  BY DEF Copy, Saving, Writing, Busy, files, world, history
<1>2. ActorsOK /\ job[x] \in Job
  BY <1>1, AtWork
<1>3. CASE pc' = [pc EXCEPT ![x] = "idle"] /\ job' = [job EXCEPT ![x] = NoJob]
  <2>1. \A y \in Actor : (pc'[y] = pc[y] /\ job'[y] = job[y]) \/ pc'[y] \in {"idle", "done"}
    BY <1>2, <1>3 DEF ActorsOK
  <2> QED
    BY <1>1, <2>1, QuietStanding
<1>4. ASSUME NEW snap, job' = [job EXCEPT ![x].begun = NoContacts, ![x].snap = snap],
             pc' = [pc EXCEPT ![x] = "open_enc"]
      PROVE  StandingInv'
  <2>1. PICK what : what = [job[x] EXCEPT !.begun = NoContacts, !.snap = snap]
    OBVIOUS
  <2>2. job' = [job EXCEPT ![x] = what] /\ what.fp = job[x].fp /\ what.then = job[x].then
    BY <1>2, <1>4, <2>1 DEF ActorsOK, Job
  <2>3. pc'[x] = "open_enc" /\ job'[x] = what
    BY <1>2, <1>4, <2>2 DEF ActorsOK
  <2>4. ASSUME x \in Command PROVE CommandOK(x)'
    BY <1>1, <2>2, <2>3, <2>4 DEF StandingInv, CommandOK, Towards, Writing
  <2>5. ASSUME x \in Thread PROVE SuccessorOK(x)'
    BY <1>1, <2>2, <2>3, <2>5 DEF StandingInv, SuccessorOK, Towards, Writing
  <2> QED
    BY <1>1, <1>4, <2>2, <2>4, <2>5, PassStanding
<1> QED
  BY <1>3, <1>4 DEF Copy

\* A file is opened: it cannot be read, but what was last written to it stays so.
LEMMA OpenStanding ==
  ASSUME Inv, SerialInv, StandingInv, OneAtATime, NEW x \in Actor, OpenEnc(x) \/ OpenMeta(x)
  PROVE  StandingInv'
<1>1. PICK to \in {"write_enc", "write_meta"} :
        /\ \/ pc[x] = "open_enc" /\ to = "write_enc"
           \/ pc[x] = "open_meta" /\ to = "write_meta"
        /\ pc' = [pc EXCEPT ![x] = to]
  BY DEF OpenEnc, OpenMeta
<1>2. Busy(x) /\ pc[x] \in Saving /\ UNCHANGED <<mem, job, noticed, overtaken, told>>
  BY <1>1 DEF OpenEnc, OpenMeta, Saving, Writing, Busy, world, history
<1>3. ActorsOK /\ FilesOK /\ job' = [job EXCEPT ![x] = job[x]]
  BY <1>2, AtWork, Kept
<1>4. pc'[x] = to /\ enc'.table = enc.table
  BY <1>1, <1>3 DEF ActorsOK, FilesOK, OpenEnc, OpenMeta
<1>5. ASSUME x \in Command PROVE CommandOK(x)'
  BY <1>1, <1>2, <1>4, <1>5 DEF StandingInv, CommandOK, Towards, Writing, Busy
<1>6. ASSUME x \in Thread PROVE SuccessorOK(x)'
  BY <1>1, <1>2, <1>4, <1>6 DEF StandingInv, SuccessorOK, Towards, Writing
<1> QED
  BY <1>1, <1>2, <1>3, <1>4, <1>5, <1>6, PassStanding

LEMMA WriteEncStanding ==
  ASSUME Inv, SerialInv, StandingInv, OneAtATime, NEW x \in Actor, WriteEnc(x)
  PROVE  StandingInv'
<1>1. /\ pc[x] = "write_enc" /\ pc[x] \in Saving /\ Busy(x)
      /\ pc' = [pc EXCEPT ![x] = "open_meta"]
      /\ enc'.table = mem[Home(x)]
      /\ job' = [job EXCEPT ![x].snap = NoContacts, ![x].nonce = uses + 1]
      /\ UNCHANGED <<mem, noticed, overtaken, told>>
  BY DEF WriteEnc, SerialInv, SaveOK, Saving, Writing, Busy, world, history
<1>2. ActorsOK /\ job[x] \in Job
  BY <1>1, AtWork
<1>3. PICK what : what = [job[x] EXCEPT !.snap = NoContacts, !.nonce = uses + 1]
  OBVIOUS
<1>4. job' = [job EXCEPT ![x] = what] /\ what.fp = job[x].fp /\ what.then = job[x].then
  BY <1>1, <1>2, <1>3 DEF ActorsOK, Job
<1>5. Alone(x) /\ pc'[x] = "open_meta" /\ job'[x] = what
  <2>1. job' = [job EXCEPT ![x] = what] /\ pc' = [pc EXCEPT ![x] = "open_meta"]
    BY <1>1, <1>4
  <2> QED
    BY <1>1, <2>1, AloneIs, Zenon
<1>6. Sane(mem[Home(x)], noticed, told)
  BY <1>1, SaneAtWork
<1>7. ASSUME x \in Command PROVE CommandOK(x)'
  <2>1. enc'.table = mem[x]
    BY <1>1, <1>7, Homes
  <2> QED
    BY <1>1, <1>4, <1>5, <1>7, <2>1 DEF StandingInv, CommandOK, Towards, Writing, Grown
<1>8. ASSUME x \in Thread PROVE SuccessorOK(x)'
  BY <1>1, <1>4, <1>5, <1>8 DEF StandingInv, SuccessorOK, Towards, Writing
<1> QED
  BY <1>1, <1>5, <1>6, <1>7, <1>8, AloneStanding

LEMMA WriteMetaStanding ==
  ASSUME Inv, StandingInv, OneAtATime, NEW x \in Actor, WriteMeta(x)
  PROVE  StandingInv'
<1>1. /\ pc[x] = "write_meta" /\ pc[x] \in Saving /\ Busy(x)
      /\ pc' = [pc EXCEPT ![x] = job[x].then]
      /\ job' = [job EXCEPT ![x].nonce = 0]
      /\ UNCHANGED <<mem, enc, noticed, overtaken, told>>
  BY DEF WriteMeta, Saving, Writing, Busy, world, history
<1>2. ActorsOK /\ ActorOK(x) /\ job[x] \in Job
  BY <1>1, AtWork
<1>3. PICK what : what = [job[x] EXCEPT !.nonce = 0]
  OBVIOUS
<1>4. job' = [job EXCEPT ![x] = what] /\ what.fp = job[x].fp /\ what.then = job[x].then
  BY <1>1, <1>2, <1>3 DEF ActorsOK, Job
<1>5. pc'[x] = job[x].then /\ job'[x] = what
  BY <1>1, <1>2, <1>4 DEF ActorsOK
<1>6. ASSUME x \in Command PROVE CommandOK(x)'
  <2>1. job[x].then \in {"added", "told"}
    BY <1>1, <1>2, <1>6 DEF ActorOK
  <2> QED
    BY <1>1, <1>4, <1>5, <1>6, <2>1 DEF StandingInv, CommandOK, Towards, Writing, Busy
<1>7. ASSUME x \in Thread PROVE SuccessorOK(x)'
  <2>1. job[x].then \in {"reply", "successor", "accept"}
    BY <1>1, <1>2, <1>7 DEF ActorOK
  <2> QED
    BY <1>1, <1>4, <1>5, <1>7, <2>1 DEF StandingInv, SuccessorOK, Towards, Writing
<1> QED
  BY <1>1, <1>4, <1>6, <1>7, PassStanding

\* A command loads the store, and waits for its peer or its user.
LEMMA LoadStanding ==
  ASSUME Inv, StandingInv, OneAtATime', NEW c \in Command, AddContact(c) \/ VerifyContact(c)
  PROVE  StandingInv'
<1>1. c \in Actor /\ Home(c) = c /\ c \notin Thread /\ c \in Process /\ ActorsOK
  BY Homes, StoreAssumption DEF StoreAssumption, Actor, Process, Inv
<1>2. PICK to \in {"exchange", "prompt"}, f \in Fp, then \in {"added", "told"} :
        /\ Goto(c, to, f, then)
        /\ to = "exchange" => then = "added"
        /\ to = "prompt" => f \in DOMAIN enc.table
  BY DEF AddContact, VerifyContact, Known
<1>3. mem' = [mem EXCEPT ![c] = enc.table] /\ UNCHANGED <<enc, noticed, told>>
  BY DEF AddContact, VerifyContact, Loaded, files, world, history
<1>4. pc' = [pc EXCEPT ![c] = to] /\ job' = [job EXCEPT ![c] = Moved(job[c], f, then)]
  BY <1>1, <1>2, GotoIs
<1>5. pc'[c] = to /\ job'[c] = Moved(job[c], f, then)
  BY <1>1, <1>4 DEF ActorsOK
<1>6. Alone(c)
  BY <1>1, <1>4, <1>5, AloneIs DEF Busy
<1>7. mem'[c] = enc.table /\ \A p \in Process : p # c => mem'[p] = mem[p]
  BY <1>1, <1>3 DEF Inv, MemOK
<1>8. job[c] \in Job /\ then \in ThreadStates \union CommandStates
  BY <1>1 DEF ActorsOK, ActorOK, CommandStates
<1>9. job'[c].fp = f /\ job'[c].then = then
  BY <1>5, <1>8, MovedJob
<1>10. CommandOK(c)'
  BY <1>2, <1>3, <1>5, <1>7, <1>9 DEF CommandOK, Towards, Writing, Grown
<1>11. Sane(enc.table, noticed, told)
  BY DEF StandingInv, TablesSane
<1> QED
  BY <1>1, <1>3, <1>6, <1>7, <1>10, <1>11, AloneStanding

LEMMA ExchangedStanding ==
  ASSUME Inv, StandingInv, OneAtATime, NEW c \in Command, Exchanged(c)
  PROVE  StandingInv'
<1>1. c \in Actor /\ c \notin Thread /\ ActorsOK
  BY StoreAssumption DEF StoreAssumption, Actor, Inv
<1>2. PICK to \in {"save", "insert"} : to = IF Known(mem[c], job[c].fp) THEN "save" ELSE "insert"
  OBVIOUS
<1>3. /\ pc[c] = "exchange" /\ Busy(c)
      /\ pc' = [pc EXCEPT ![c] = to] /\ job' = [job EXCEPT ![c] = job[c]]
      /\ UNCHANGED <<mem, job, enc, noticed, told>>
  BY <1>1, <1>2, Kept DEF Exchanged, Busy, files, world, history
<1>4. pc'[c] = to
  BY <1>1, <1>3 DEF ActorsOK
<1>5. CommandOK(c)'
  BY <1>3, <1>4 DEF StandingInv, CommandOK, Towards, Writing, Busy
<1> QED
  BY <1>1, <1>3, <1>5, PassStanding

LEMMA ConfirmStanding ==
  ASSUME Inv, StandingInv, OneAtATime, NEW c \in Command, Confirm(c)
  PROVE  StandingInv'
<1> DEFINE f == job[c].fp
           new == Verified(mem[c], f)
<1>1. c \in Actor /\ Home(c) = c /\ c \notin Thread /\ ActorsOK
  BY Homes, StoreAssumption DEF StoreAssumption, Actor, Inv
<1>2. /\ pc[c] = "prompt" /\ Busy(c) /\ pc[c] \in Saving /\ pc' = [pc EXCEPT ![c] = "save"]
      /\ mem' = [mem EXCEPT ![c] = new] /\ UNCHANGED <<job, enc, noticed, told>>
  BY DEF Confirm, Verified, Busy, Saving, Writing, files, world
<1>3. MemOK /\ c \in Process /\ mem[c] \in Table
  BY <1>1, <1>2, AtWork
<1>4. job' = [job EXCEPT ![c] = job[c]]
  BY <1>1, <1>2, Kept
<1>5. Alone(c) /\ pc'[c] = "save"
  BY <1>1, <1>2, <1>4, AloneIs
<1>6. Sane(mem[c], noticed, told) /\ Sane(enc.table, noticed, told)
  BY <1>1, <1>2, SaneAtWork
<1>7. f \in DOMAIN mem[c] /\ Grown(enc.table, mem[c])
  BY <1>2 DEF StandingInv, CommandOK
<1>8. Sane(new, noticed, told) /\ Grown(mem[c], new) /\ VerifiedIn(new, f)
  BY <1>3, <1>6, <1>7, SaneVerified
<1>9. mem'[c] = new /\ \A p \in Process : p # c => mem'[p] = mem[p]
  BY <1>2, <1>3 DEF MemOK
<1> HIDE DEF new
<1>10. Grown(enc.table, new)
  BY <1>7, <1>8, GrownTwice
<1>11. CommandOK(c)'
  BY <1>2, <1>5, <1>8, <1>9, <1>10 DEF CommandOK
<1> QED
  BY <1>1, <1>2, <1>5, <1>6, <1>8, <1>9, <1>11, AloneStanding

\* What is reported as verified is so in the file, and a command that ends takes
\* only its own table with it.
LEMMA QuitStanding ==
  ASSUME Inv, StandingInv, OneAtATime, NEW c \in Command, Tell(c) \/ Abort(c)
  PROVE  StandingInv'
<1>1. Quit(c) /\ Busy(c) /\ UNCHANGED <<enc, noticed, overtaken>>
  BY DEF Tell, Abort, Busy, files, world, history
<1>2. /\ pc'[c] = "done" /\ mem'["serve"] = mem["serve"]
      /\ \A y \in Actor : y # c => pc'[y] = pc[y]
  BY <1>1, QuitIs
<1>3. \A x \in Actor : pc'[x] \in {"idle", "done"}
  BY <1>1, <1>2 DEF OneAtATime, Busy, Actor
<1>4. ~Running("serve")'
  BY <1>1, <1>2 DEF OneAtATime, Running
<1>5. told' = told \/ (VerifiedIn(enc.table, job[c].fp) /\ told' = told \union {job[c].fp})
  BY DEF Tell, Abort, StandingInv, CommandOK, Towards, history
<1>6. Sane(enc.table, noticed, told')
  BY <1>5 DEF StandingInv, TablesSane, Sane
<1>7. TablesSane'
  BY <1>1, <1>3, <1>4, <1>6 DEF TablesSane, Busy, Actor
<1>8. \A d \in Command : CommandOK(d)'
  BY <1>3 DEF CommandOK, Busy, Towards, Writing, Actor
<1>9. \A t \in Thread : SuccessorOK(t)'
  BY <1>3 DEF SuccessorOK, Towards, Writing, Actor
<1> QED
  BY <1>7, <1>8, <1>9 DEF StandingInv

LEMMA ServeStanding ==
  ASSUME Inv, StandingInv, StartServe \/ StopServe
  PROVE  StandingInv'
<1>1. UNCHANGED <<enc, noticed, overtaken, told>>
  BY DEF StartServe, StopServe, files, world, history
<1>2. /\ mem'["serve"] = enc.table \/ ~Running("serve")'
      /\ \A p \in Process : p # "serve" => mem'[p] = mem[p]
  BY DEF StartServe, StopServe, Loaded, Inv, MemOK, Process, Running
<1>3. \A c \in Command : pc'[c] = pc[c] /\ job'[c] = job[c] /\ mem'[c] = mem[c]
  BY <1>2, Homes, StoreAssumption DEF StartServe, StopServe, Killed, Process, Actor, StoreAssumption
<1>4. \A t \in Thread : pc'[t] = "idle"
  <2>1. CASE StartServe
    BY <2>1, Homes DEF StartServe, Inv, ActorsOK, ActorOK, Actor, ThreadStates
  <2>2. CASE StopServe
    BY <2>2 DEF StopServe, Killed, Actor
  <2> QED
    BY <2>1, <2>2
<1>5. TablesSane'
  BY <1>1, <1>2, <1>3 DEF StandingInv, TablesSane, Busy
<1>6. \A c \in Command : CommandOK(c)'
  BY <1>1, <1>3 DEF StandingInv, CommandOK, Busy, Towards
<1>7. \A t \in Thread : SuccessorOK(t)'
  BY <1>4 DEF SuccessorOK, Towards, Writing
<1> QED
  BY <1>5, <1>6, <1>7 DEF StandingInv

LEMMA RestStanding ==
  ASSUME Inv, StandingInv, NEW x \in Actor,
         (x \in Thread /\ Reply(x)) \/ (x \in Command /\ GiveUp(x))
  PROVE  StandingInv'
<1>1. UNCHANGED <<mem, enc, told, noticed, overtaken>>
  BY DEF Reply, GiveUp, files, world, history
<1>2. \A y \in Actor : (pc'[y] = pc[y] /\ job'[y] = job[y]) \/ pc'[y] \in {"idle", "done"}
  BY DEF Reply, GiveUp, Inv, ActorsOK
<1> QED
  BY <1>1, <1>2, QuietStanding

LEMMA StandingNext ==
  ASSUME Inv, SerialInv, StandingInv, OneAtATime, OneAtATime', [Next]_vars
  PROVE  StandingInv'
<1>1. ASSUME NEW t \in Thread, Handler(t) PROVE StandingInv'
  BY <1>1, ContactRequestStanding, KeyRotateStanding, AddSuccessorStanding, RestStanding
     DEF Handler, Actor
<1>2. ASSUME NEW c \in Command, Cli(c) PROVE StandingInv'
  BY <1>2, LoadStanding, RestStanding, ExchangedStanding, ConfirmStanding, QuitStanding
     DEF Cli, Start, Actor
<1>3. ASSUME NEW x \in Actor, Insert(x) \/ Save(x) PROVE StandingInv'
  BY <1>3, InsertStanding, SaveBeginsStanding, CopyStanding, OpenStanding, WriteEncStanding,
     WriteMetaStanding DEF Save
<1>4. CASE StartServe \/ StopServe
  BY <1>4, ServeStanding
<1>5. CASE UNCHANGED vars
  BY <1>5, QuietStanding DEF vars, files, world, history
<1> QED
  BY <1>1, <1>2, <1>3, <1>4, <1>5 DEF Next, Step

StandingUse == serial => StandingInv

LEMMA StandingInvariance == Spec => []StandingUse
<1>1. Init => StandingUse
  BY InitStanding DEF StandingUse
<1>2. Inv /\ SerialUse /\ StandingUse /\ [Next]_vars => StandingUse'
  BY SerialStep, StandingNext DEF StandingUse
<1> QED
  BY <1>1, <1>2, SerialInvariance, Invariance, PTL DEF Spec

\* When handlers and commands come one at a time, a contact once reported as
\* verified is found verified by whoever can load the store, for any number of
\* threads, commands and keys, unless its key has been announced as the successor
\* of another.
THEOREM VerifiedLasts == Spec => []VerifiedUntilReplaced
<1>1. StandingUse => VerifiedUntilReplaced
  BY DEF StandingUse, StandingInv, TablesSane, Sane, VerifiedIn, VerifiedUntilReplaced
<1> QED
  BY <1>1, StandingInvariance, PTL

----------------------------------------------------------------------------
(* Each key's record goes the way Standing says.                           *)

LEMMA RecordIs ==
  ASSUME NEW table, NEW f
  PROVE  /\ RecordOf(table, f) \in {"unknown", "active", "revoked"}
         /\ RecordOf(table, f) = "unknown" <=> f \notin DOMAIN table
         /\ RecordOf(table, f) = "revoked" <=> RevokedIn(table, f)
  BY DEF RecordOf, RevokedIn

\* The record of one key takes a step of Standing.
RecordSteps(f) ==
  LET view == IF Running("serve") THEN RecordOf(mem["serve"], f) ELSE "off"
      kept == RecordOf(enc.table, f)
      Added == kept' = kept \/ (kept = "unknown" /\ kept' = "active")
  IN  \/ view' = view /\ kept' = kept
      \/ view = "unknown" /\ view' = "active" /\ kept' = kept
      \/ view = "active" /\ view' = "revoked" /\ kept' = kept /\ f \in noticed' \ noticed
      \/ view = "revoked" /\ view' = "active" /\ kept' = kept /\ f \in overtaken
      \/ view # "off" /\ kept' = view /\ view' = view
      \/ view = "off" /\ Added /\ (view' = "off" \/ view' = kept')
      \/ view # "off" /\ view' = "off" /\ kept' = kept

LEMMA RecordKept ==
  ASSUME enc'.table = enc.table, mem'["serve"] = mem["serve"], NEW f
  PROVE  RecordSteps(f)
  BY DEF RecordSteps, Running

\* `serve` changes the records in its memory.
LEMMA RecordMoves ==
  ASSUME UNCHANGED enc, Running("serve"), NEW new \in Table, mem'["serve"] = new, NEW f,
         LET old == RecordOf(mem["serve"], f)
         IN  \/ RecordOf(new, f) = old
             \/ old = "unknown" /\ RecordOf(new, f) = "active"
             \/ old = "active" /\ RecordOf(new, f) = "revoked" /\ f \in noticed' \ noticed
             \/ old = "revoked" /\ RecordOf(new, f) = "active" /\ f \in overtaken
  PROVE  RecordSteps(f)
<1>1. Running("serve")'
  BY NoneIsNoTable DEF Running
<1> QED
  BY <1>1 DEF RecordSteps

LEMMA FreshRecord ==
  ASSUME NEW table, NEW g, NEW f
  PROVE  \/ RecordOf(Put(table, g, Fresh), f) = RecordOf(table, f)
         \/ RecordOf(table, f) = "unknown" /\ RecordOf(Put(table, g, Fresh), f) = "active"
         \/ /\ f = g /\ RevokedIn(table, g) /\ RecordOf(table, f) = "revoked"
            /\ RecordOf(Put(table, g, Fresh), f) = "active"
<1> DEFINE new == Put(table, g, Fresh)
<1>1. DOMAIN new = DOMAIN table \union {g}
  BY DEF Put
<1>2. \A h \in DOMAIN new : new[h] = IF h = g THEN Fresh ELSE table[h]
  BY DEF Put
<1>3. ~Fresh.revoked
  BY DEF Fresh
<1> HIDE DEF new
<1>4. f # g => RecordOf(new, f) = RecordOf(table, f)
  BY <1>1, <1>2 DEF RecordOf
<1>5. RecordOf(new, g) = "active"
  BY <1>1, <1>2, <1>3 DEF RecordOf
<1>6. RecordOf(table, g) \in {"unknown", "active"} \/ RevokedIn(table, g)
  BY RecordIs
<1>7. RevokedIn(table, g) => RecordOf(table, g) = "revoked"
  BY RecordIs
<1> QED
  BY <1>4, <1>5, <1>6, <1>7 DEF new

LEMMA HandlerRecord ==
  ASSUME Inv, SerialInv, StandingInv, NEW t \in Thread, Handler(t), NEW f \in Fp
  PROVE  RecordSteps(f)
<1>1. /\ t \in Actor /\ Home(t) = "serve" /\ "serve" \in Process /\ MemOK
  BY Homes DEF Actor, Process, Inv
<1>2. UNCHANGED enc
  BY DEF Handler, ContactRequest, KeyRotate, AddSuccessor, Reply, files
<1>3. CASE ContactRequest(t) \/ Reply(t)
  BY <1>2, <1>3, RecordKept DEF ContactRequest, Reply
<1>4. CASE KeyRotate(t)
  <2>1. PICK g \in DOMAIN Successor \ noticed :
          /\ noticed' = noticed \union {g}
          /\ \/ UNCHANGED mem
             \/ /\ Known(mem["serve"], g)
                /\ mem' = [mem EXCEPT !["serve"][g].revoked = TRUE,
                                      !["serve"][g].successor = Successor[g]]
    BY <1>4 DEF KeyRotate
  <2>2. CASE UNCHANGED mem
    BY <1>2, <2>2, RecordKept
  <2>3. CASE /\ Known(mem["serve"], g)
             /\ mem' = [mem EXCEPT !["serve"][g].revoked = TRUE,
                                   !["serve"][g].successor = Successor[g]]
    <3> DEFINE old == mem["serve"]
               new == Revoked(old, g, Successor[g])
    <3>1. Running("serve") /\ old \in Table /\ Backed(old) /\ g \in DOMAIN old
      BY <1>1, <1>4, <2>3, RunningTable DEF KeyRotate, Receives, Known
    <3>2. Successor[g] \in Fp
      BY StoreAssumption DEF StoreAssumption
    <3>3. mem'["serve"] = new
      BY <1>1, <2>3, <3>1 DEF Revoked, MemOK
    <3>4. new \in Table
      BY <3>1, <3>2, RevokeRecord
    <3>5. /\ DOMAIN new = DOMAIN old /\ \A h \in DOMAIN old : h # g => new[h] = old[h]
          /\ new[g].revoked
      BY <3>1, <3>2, RevokedIs, RevokeHolds
    <3> HIDE DEF new
    <3>6. f # g => RecordOf(new, f) = RecordOf(old, f)
      BY <3>5 DEF RecordOf
    <3>7. RecordOf(new, g) = "revoked" /\ RecordOf(old, g) \in {"active", "revoked"}
      BY <3>1, <3>5 DEF RecordOf
    <3>8. g \in noticed' \ noticed
      BY <2>1
    <3> QED
      BY <1>2, <3>1, <3>3, <3>4, <3>6, <3>7, <3>8, RecordMoves
  <2> QED
    BY <2>1, <2>2, <2>3
<1>5. CASE AddSuccessor(t)
  <2> DEFINE old == mem["serve"]
             new == Put(old, Successor[job[t].fp], Fresh)
  <2>1. pc[t] = "successor" /\ pc[t] \notin {"idle", "done"}
    BY <1>5 DEF AddSuccessor
  <2>2. Running("serve") /\ old \in Table /\ Backed(old) /\ ActorOK(t)
    BY <1>1, <2>1, AtWork
  <2>3. Successor[job[t].fp] \in Fp
    BY <2>1, <2>2, StoreAssumption DEF ActorOK, StoreAssumption
  <2>4. mem'["serve"] = new
    BY <1>1, <1>5 DEF AddSuccessor, SuccessorOf, MemOK
  <2>5. new \in Table
    BY <2>2, <2>3, PutFresh
  <2>6. RevokedIn(old, Successor[job[t].fp]) => Successor[job[t].fp] \in overtaken
    BY <2>1 DEF StandingInv, SuccessorOK, Towards
  <2>7. \/ RecordOf(new, f) = RecordOf(old, f)
        \/ RecordOf(old, f) = "unknown" /\ RecordOf(new, f) = "active"
        \/ RecordOf(old, f) = "revoked" /\ RecordOf(new, f) = "active" /\ f \in overtaken
    BY <2>6, FreshRecord
  <2> HIDE DEF new
  <2> QED
    BY <1>2, <2>2, <2>4, <2>5, <2>7, RecordMoves
<1> QED
  BY <1>3, <1>4, <1>5 DEF Handler

LEMMA InsertRecord ==
  ASSUME Inv, SerialInv, NEW x \in Actor, Insert(x), NEW f \in Fp
  PROVE  RecordSteps(f)
<1>1. pc[x] = "insert" /\ pc[x] \in Saving /\ UNCHANGED enc
  BY DEF Insert, Saving, Writing, files
<1>2. /\ MemOK /\ Home(x) \in Process /\ Running(Home(x)) /\ job[x].fp \in Fp
      /\ mem[Home(x)] \in Table /\ Backed(mem[Home(x)])
  BY <1>1, AtWork
<1>3. mem' = [mem EXCEPT ![Home(x)] = Put(mem[Home(x)], job[x].fp, Fresh)]
  BY DEF Insert
<1>4. CASE Home(x) # "serve"
  <2>1. mem'["serve"] = mem["serve"]
    BY <1>3, <1>4, <1>2 DEF MemOK, Process
  <2> QED
    BY <1>1, <2>1, RecordKept
<1>5. CASE Home(x) = "serve"
  <2> DEFINE old == mem["serve"]
             new == Put(old, job[x].fp, Fresh)
  <2>1. Running("serve") /\ old \in Table /\ Backed(old)
    BY <1>2, <1>5
  <2>2. mem'["serve"] = new /\ new \in Table
    BY <1>2, <1>3, <1>5, <2>1, PutFresh DEF MemOK
  <2>3. ~RevokedIn(old, job[x].fp)
    BY <1>1, <1>5 DEF SerialInv, SaveOK, RevokedIn
  <2>4. RecordOf(new, f) = RecordOf(old, f) \/ (RecordOf(old, f) = "unknown" /\ RecordOf(new, f) = "active")
    BY <2>3, FreshRecord
  <2> HIDE DEF new
  <2> QED
    BY <1>1, <2>1, <2>2, <2>4, RecordMoves
<1> QED
  BY <1>4, <1>5

\* What is written is what `serve` has, or what was there and contacts added.
LEMMA WriteRecord ==
  ASSUME Inv, SerialInv, StandingInv, OneAtATime, NEW x \in Actor, WriteEnc(x), NEW f \in Fp
  PROVE  RecordSteps(f)
<1>1. /\ pc[x] = "write_enc" /\ pc[x] \in Saving /\ Busy(x)
      /\ enc'.table = mem[Home(x)] /\ UNCHANGED mem
  BY DEF WriteEnc, SerialInv, SaveOK, Saving, Writing, Busy
<1>2. Running(Home(x))
  BY <1>1, AtWork
<1>3. CASE x \in Thread
  <2>1. Home(x) = "serve"
    BY <1>3, Homes
  <2>2. Running("serve") /\ enc'.table = mem["serve"]
    BY <1>1, <1>2, <2>1
  <2>3. RecordOf(mem["serve"], f) # "off"
    BY RecordIs
  <2> QED
    BY <1>1, <2>2, <2>3 DEF RecordSteps, Running
<1>4. CASE x \in Command
  <2>1. ~Running("serve") /\ enc'.table = mem[x] /\ Grown(enc.table, mem[x])
    BY <1>1, <1>4, Homes DEF OneAtATime, StandingInv, CommandOK
  <2>2. \/ RecordOf(mem[x], f) = RecordOf(enc.table, f)
        \/ RecordOf(enc.table, f) = "unknown" /\ RecordOf(mem[x], f) = "active"
    BY <2>1 DEF Grown, RecordOf, RevokedIn
  <2> QED
    BY <1>1, <2>1, <2>2 DEF RecordSteps, Running
<1> QED
  BY <1>3, <1>4 DEF Actor

LEMMA OtherRecord ==
  ASSUME Inv, NEW x \in Actor, NEW f,
         \/ SaveBegins(x) \/ Copy(x) \/ OpenEnc(x) \/ OpenMeta(x) \/ WriteMeta(x)
         \/ x \in Command /\ Cli(x)
  PROVE  RecordSteps(f)
<1>1. enc'.table = enc.table
  BY DEF SaveBegins, Copy, OpenEnc, OpenMeta, WriteMeta, Cli, Start, AddContact, VerifyContact,
     GiveUp, Exchanged, Confirm, Tell, Abort, files, Inv, FilesOK
<1>2. CASE UNCHANGED mem
  BY <1>1, <1>2, RecordKept
<1>3. ASSUME x \in Command, NEW table, mem' = [mem EXCEPT ![x] = table] PROVE RecordSteps(f)
  <2>1. mem'["serve"] = mem["serve"]
    BY <1>3, Homes DEF Inv, MemOK, Process
  <2> QED
    BY <1>1, <2>1, RecordKept
<1>4. CASE x \in Command /\ Confirm(x)
  <2>1. mem' = [mem EXCEPT ![x] = Verified(mem[x], job[x].fp)]
    BY <1>4 DEF Confirm, Verified
  <2> QED
    BY <1>3, <1>4, <2>1
<1>5. CASE x \in Command /\ (AddContact(x) \/ VerifyContact(x))
  BY <1>3, <1>5 DEF AddContact, VerifyContact, Loaded
<1>6. CASE SaveBegins(x) \/ Copy(x) \/ OpenEnc(x) \/ OpenMeta(x) \/ WriteMeta(x)
  BY <1>2, <1>6 DEF SaveBegins, Copy, OpenEnc, OpenMeta, WriteMeta
<1>7. CASE GiveUp(x) \/ Exchanged(x)
  BY <1>2, <1>7 DEF GiveUp, Exchanged
<1>8. CASE x \in Command /\ (Tell(x) \/ Abort(x))
  <2>1. mem'["serve"] = mem["serve"]
    BY <1>8, QuitIs DEF Tell, Abort
  <2> QED
    BY <1>1, <2>1, RecordKept
<1> QED
  BY <1>4, <1>5, <1>6, <1>7, <1>8 DEF Cli, Start

LEMMA RecordStep ==
  ASSUME Inv, SerialInv, StandingInv, OneAtATime, [Next]_vars, NEW f \in Fp
  PROVE  RecordSteps(f)
<1>1. ASSUME NEW t \in Thread, Handler(t) PROVE RecordSteps(f)
  BY <1>1, HandlerRecord
<1>2. ASSUME NEW c \in Command, Cli(c) PROVE RecordSteps(f)
  BY <1>2, OtherRecord DEF Actor
<1>3. ASSUME NEW x \in Actor, Insert(x) \/ Save(x) PROVE RecordSteps(f)
  BY <1>3, InsertRecord, WriteRecord, OtherRecord DEF Save
<1>4. CASE StartServe
  <2>1. ~Running("serve") /\ enc' = enc /\ mem'["serve"] = enc.table
    BY <1>4 DEF StartServe, Loaded, Inv, MemOK, Process, files
  <2>2. Running("serve")'
    BY <2>1, NoneIsNoTable DEF Running, Inv, FilesOK
  <2> QED
    BY <2>1, <2>2 DEF RecordSteps
<1>5. CASE StopServe
  <2>1. Running("serve") /\ enc' = enc /\ mem'["serve"] = None
    BY <1>5 DEF StopServe, Inv, MemOK, Process, files
  <2>2. RecordOf(mem["serve"], f) # "off"
    BY RecordIs
  <2> QED
    BY <2>1, <2>2 DEF RecordSteps, Running
<1>6. CASE UNCHANGED vars
  BY <1>6, RecordKept DEF vars, files
<1> QED
  BY <1>1, <1>2, <1>3, <1>4, <1>5, <1>6 DEF Next, Step

\* Only KeyRotate takes a notice, and each key's once.
LEMMA NoticeStep ==
  ASSUME [Next]_vars
  PROVE  \/ UNCHANGED <<noticed, overtaken>>
         \/ \E f \in DOMAIN Successor \ noticed :
              /\ noticed' = noticed \union {f}
              /\ overtaken' = overtaken \union ({Successor[f]} \intersect noticed)
<1>1. ASSUME NEW t \in Thread, KeyRotate(t)
      PROVE  \E f \in DOMAIN Successor \ noticed :
               /\ noticed' = noticed \union {f}
               /\ overtaken' = overtaken \union ({Successor[f]} \intersect noticed)
  BY <1>1 DEF KeyRotate
<1>2. ASSUME NEW t \in Thread, ContactRequest(t) \/ AddSuccessor(t) \/ Reply(t)
      PROVE  UNCHANGED <<noticed, overtaken>>
  BY <1>2 DEF ContactRequest, AddSuccessor, Reply, world, history
<1>3. ASSUME NEW c \in Command, Cli(c) PROVE UNCHANGED <<noticed, overtaken>>
  BY <1>3 DEF Cli, Start, AddContact, VerifyContact, GiveUp, Exchanged, Confirm, Tell, Abort,
     world, history
<1>4. ASSUME NEW x \in Actor, Insert(x) \/ Save(x) PROVE UNCHANGED <<noticed, overtaken>>
  BY <1>4 DEF Insert, Save, SaveBegins, Copy, OpenEnc, WriteEnc, OpenMeta, WriteMeta, world, history
<1>5. CASE StartServe \/ StopServe \/ UNCHANGED vars
  BY <1>5 DEF StartServe, StopServe, vars, world, history
<1> QED
  BY <1>1, <1>2, <1>3, <1>4, <1>5 DEF Next, Step, Handler

\* When handlers and commands come one at a time, each key's record takes the
\* steps that Standing allows, for any number of threads, commands and keys: it is
\* revoked by its own notice, and back only by a predecessor's that comes later.
THEOREM StandingImplemented == Spec => ImplementsStanding
<1> DEFINE view == [f \in Fp |-> IF Running("serve") THEN RecordOf(mem["serve"], f) ELSE "off"]
           kept == [f \in Fp |-> RecordOf(enc.table, f)]
<1>1. Init => Standing!Init
  <2> SUFFICES ASSUME Init PROVE Standing!Init
    OBVIOUS
  <2>1. /\ ~Running("serve") /\ noticed = {} /\ overtaken = {}
        /\ \A f \in DOMAIN enc.table : ~enc.table[f].revoked
    BY DEF Init, Running, Process, Fresh
  <2>2. view = [f \in Fp |-> "off"] /\ kept \in [Fp -> {"unknown", "active"}]
    BY <2>1 DEF RecordOf
  <2> QED
    BY <2>1, <2>2 DEF Standing!Init
<1>2. Inv /\ SerialInv /\ OneAtATime /\ StandingInv /\ [Next]_vars => Standing!Next
  <2> SUFFICES ASSUME Inv, SerialInv, OneAtATime, StandingInv, [Next]_vars
               PROVE  Standing!Next
    OBVIOUS
  <2>1. /\ view' \in [Fp -> Standing!Record \union {"off"}]
        /\ kept' \in [Fp -> Standing!Record]
    BY DEF RecordOf, Standing!Record
  <2>2. ASSUME NEW f \in Fp PROVE Standing!Step(f)
    <3>1. RecordSteps(f)
      BY RecordStep
    <3>2. /\ view[f] = IF Running("serve") THEN RecordOf(mem["serve"], f) ELSE "off"
          /\ view'[f] = IF Running("serve")' THEN RecordOf(mem'["serve"], f) ELSE "off"
          /\ kept[f] = RecordOf(enc.table, f) /\ kept'[f] = RecordOf(enc'.table, f)
      BY DEF RecordOf
    <3> QED
      BY <3>1, <3>2 DEF RecordSteps, Standing!Step, Standing!Learn, Standing!Revoke, Standing!Renew,
         Standing!Save, Standing!AddContact, Standing!Start, Standing!Added, Standing!Stop
  <2>3. Standing!Notice
    BY NoticeStep DEF Standing!Notice
  <2> QED
    BY <2>1, <2>2, <2>3 DEF Standing!Next
<1>3. Inv /\ SerialUse /\ StandingUse /\ [Next]_vars => [serial => Standing!Next]_vars
  BY <1>2 DEF SerialUse, StandingUse
<1> QED
  BY <1>1, <1>3, SerialInvariance, StandingInvariance, Invariance, PTL DEF ImplementsStanding, Spec
=============================================================================
