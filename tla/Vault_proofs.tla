----------------------------- MODULE Vault_proofs -----------------------------
(***************************************************************************)
(* Proofs about Vault, for any number of processes, passwords and saves.   *)
(***************************************************************************)
EXTENDS Vault, SequenceTheorems, TLAPS

----------------------------------------------------------------------------
(* Files and what is written to them.                                      *)

\* What a save writes to f, as far as the halves of a received file go together.
Good(f) ==
  CASE f \in {Key, Contacts} -> Cipher
    [] f = Received -> {ct \in Cipher : ct.body = ct.nonce}
    [] f = ReceivedMeta -> {meta \in Meta : meta.of = meta.nonce}
    [] OTHER -> Nat

Writes == UNION {{f} \X Good(f) : f \in File}

LEMMA StoreNames == DOMAIN Store = {"identity", "salt", "contacts", "index", "received"}
  BY DEF Store

LEMMA FileIs ==
  File = {Key, KeyMeta, Salt, Contacts, ContactsMeta, Index, Received, ReceivedMeta}
<1>1. File = UNION {Store["identity"], Store["salt"], Store["contacts"], Store["index"],
                    Store["received"]}
  BY StoreNames DEF File
<1> QED
  BY <1>1 DEF Store

LEMMA GoodIsContent == \A f \in File : Good(f) \subseteq Content(f)
  BY FileIs DEF Good, Content, Meta, Key, Contacts, Received, ReceivedMeta, KeyMeta, Salt,
                ContactsMeta, Index

LEMMA WriteParts ==
  ASSUME NEW w \in Writes
  PROVE  w[1] \in File /\ w[2] \in Good(w[1]) /\ w = <<w[1], w[2]>>
  BY DEF Writes

LEMMA WriteMade ==
  ASSUME NEW f \in File, NEW v \in Good(f)
  PROVE  <<f, v>> \in Writes
  BY DEF Writes

----------------------------------------------------------------------------
(* The invariant.                                                          *)

Jobs == [pw : Password \union {None}, fkey : (Password \X Nat) \union {None},
         todo : Seq(Writes), opened : BOOLEAN]

FilesOK ==
  /\ files = [f \in File |-> files[f]]
  /\ \A f \in File : files[f] \in {None, Empty, Mixed} \union Good(f)

ProcsOK ==
  /\ pc \in [Process -> {"idle", "unlock", "salt", "load", "work"}]
  /\ proc \in [Process -> Jobs]
  /\ \A p \in Process :
       /\ proc[p].pw \in IF pc[p] = "idle" THEN {None} ELSE Password
       /\ pc[p] \in {"load", "work"} => proc[p].fkey \in Password \X Nat
       /\ proc[p].opened => proc[p].todo # <<>>
       /\ pc[p] = "idle" => proc[p].todo = <<>>

CountsOK == draws \in Nat /\ runs \in Nat /\ hurt \subseteq DOMAIN Store

IInv == FilesOK /\ ProcsOK /\ CountsOK

LEMMA TypesFollow == IInv => TypeOK
<1> SUFFICES ASSUME IInv PROVE TypeOK
  OBVIOUS
<1>1. DOMAIN files = File /\ \A f \in File : files[f] \in {None, Empty, Mixed} \union Content(f)
  BY GoodIsContent DEF IInv, FilesOK
<1>2. ASSUME NEW p \in Process
      PROVE  /\ DOMAIN proc[p] = DOMAIN NoProc /\ proc[p].opened \in BOOLEAN
             /\ \A i \in DOMAIN proc[p].todo :
                  /\ proc[p].todo[i][1] \in File
                  /\ proc[p].todo[i][2] \in Content(proc[p].todo[i][1])
  <2>1. proc[p] \in Jobs
    BY DEF IInv, ProcsOK
  <2>2. DOMAIN proc[p] = DOMAIN NoProc /\ proc[p].opened \in BOOLEAN
    BY <2>1 DEF Jobs, NoProc
  <2>3. proc[p].todo \in Seq(Writes)
    BY <2>1 DEF Jobs
  <2>4. \A i \in DOMAIN proc[p].todo : proc[p].todo[i] \in Writes
    BY <2>3
  <2> QED
    BY <2>2, <2>4, WriteParts, GoodIsContent
<1> QED
  BY <1>1, <1>2 DEF IInv, ProcsOK, CountsOK, TypeOK

LEMMA MatchFollows == IInv => ReceivedMatchesMeta
<1> SUFFICES ASSUME IInv, Whole(Received), Whole(ReceivedMeta),
                    files[Received].nonce = files[ReceivedMeta].nonce
             PROVE  files[Received].body = files[ReceivedMeta].of
  BY DEF ReceivedMatchesMeta
<1>1. files[Received] \in Good(Received) /\ files[ReceivedMeta] \in Good(ReceivedMeta)
  BY FileIs DEF IInv, FilesOK, Whole
<1> QED
  BY <1>1 DEF Good, Received, ReceivedMeta, Key, Contacts

----------------------------------------------------------------------------
(* What a process is about to write.                                       *)

LEMMA FileNames ==
  /\ Key \in File /\ KeyMeta \in File /\ Salt \in File /\ Contacts \in File
  /\ ContactsMeta \in File /\ Index \in File /\ Received \in File /\ ReceivedMeta \in File
  BY FileIs

LEMMA IdentityJob ==
  ASSUME NEW pw \in Password, NEW n \in Nat
  PROVE  IdentityWrites(pw, n) \in Seq(Writes) /\ IdentityWrites(pw, n) # <<>>
<1>1. Sealed(Derive(pw, n), n, n) \in Good(Key) /\ n \in Good(KeyMeta)
  BY DEF Good, Sealed, Derive, Cipher, Key, KeyMeta, Contacts, Received, ReceivedMeta
<1>2. <<Key, Sealed(Derive(pw, n), n, n)>> \in Writes /\ <<KeyMeta, n>> \in Writes
  BY <1>1, FileNames, WriteMade
<1> QED
  BY <1>2 DEF IdentityWrites

LEMMA SaltJob ==
  ASSUME NEW n \in Nat
  PROVE  << <<Salt, n>> >> \in Seq(Writes)
<1>1. n \in Good(Salt)
  BY DEF Good, Key, Salt, Contacts, Received, ReceivedMeta
<1>2. <<Salt, n>> \in Writes
  BY <1>1, FileNames, WriteMade
<1> QED
  BY <1>2

LEMMA IndexJob ==
  ASSUME NEW n \in Nat
  PROVE  << <<Index, n>> >> \in Seq(Writes)
<1>1. n \in Good(Index)
  BY DEF Good, Key, Index, Contacts, Received, ReceivedMeta
<1>2. <<Index, n>> \in Writes
  BY <1>1, FileNames, WriteMade
<1> QED
  BY <1>2

LEMMA ContactsJob ==
  ASSUME NEW fkey \in Password \X Nat, NEW n \in Nat
  PROVE  << <<Contacts, Sealed(fkey, Nonce(n), n)>>, <<ContactsMeta, Nonce(n)>> >> \in Seq(Writes)
<1>1. Sealed(fkey, Nonce(n), n) \in Good(Contacts) /\ Nonce(n) \in Good(ContactsMeta)
  BY DEF Good, Sealed, Nonce, Cipher, Key, Contacts, ContactsMeta, Received, ReceivedMeta
<1>2. <<Contacts, Sealed(fkey, Nonce(n), n)>> \in Writes /\ <<ContactsMeta, Nonce(n)>> \in Writes
  BY <1>1, FileNames, WriteMade
<1> QED
  BY <1>2

\* One nonce, drawn for this save, is in both halves.
LEMMA ReceivedJob ==
  ASSUME NEW fkey \in Password \X Nat, NEW n \in Nat
  PROVE  << <<Received, Sealed(fkey, Nonce(n), n)>>,
            <<ReceivedMeta, [nonce |-> Nonce(n), of |-> n]>> >> \in Seq(Writes)
<1>1. Sealed(fkey, Nonce(n), n) \in {ct \in Cipher : ct.body = ct.nonce}
  BY DEF Sealed, Nonce, Cipher
<1>2. [nonce |-> Nonce(n), of |-> n] \in {meta \in Meta : meta.of = meta.nonce}
  BY DEF Nonce, Meta
<1>3. /\ Good(Received) = {ct \in Cipher : ct.body = ct.nonce}
      /\ Good(ReceivedMeta) = {meta \in Meta : meta.of = meta.nonce}
  BY DEF Good, Key, Contacts, Received, ReceivedMeta
<1>4. /\ <<Received, Sealed(fkey, Nonce(n), n)>> \in Writes
      /\ <<ReceivedMeta, [nonce |-> Nonce(n), of |-> n]>> \in Writes
  BY <1>1, <1>2, <1>3, FileNames, WriteMade
<1> QED
  BY <1>4

----------------------------------------------------------------------------
(* Steps of a process, by what they change.                                *)

\* The next write of p.
LEMMA NextWrite ==
  ASSUME IInv, NEW p \in Process, proc[p].todo # <<>>
  PROVE  /\ proc[p].todo[1][1] \in File /\ proc[p].todo[1][2] \in Good(proc[p].todo[1][1])
         /\ Tail(proc[p].todo) \in Seq(Writes)
<1>1. proc[p].todo \in Seq(Writes)
  BY DEF IInv, ProcsOK, Jobs
<1>2. proc[p].todo[1] \in Writes /\ Tail(proc[p].todo) \in Seq(Writes)
  BY <1>1
<1> QED
  BY <1>2, WriteParts

\* A process that goes elsewhere, perhaps with something to write.
LEMMA ProcChanges ==
  ASSUME IInv, NEW p \in Process, NEW to \in {"unlock", "salt", "load", "work"}, NEW job,
         job \in Jobs, job.pw \in Password, to \in {"load", "work"} => job.fkey \in Password \X Nat,
         job.opened => job.todo # <<>>,
         pc' = [pc EXCEPT ![p] = to], proc' = [proc EXCEPT ![p] = job],
         UNCHANGED files, CountsOK'
  PROVE  IInv'
<1>1. FilesOK'
  BY DEF IInv, FilesOK
<1>2. ProcsOK'
  BY DEF IInv, ProcsOK
<1> QED
  BY <1>1, <1>2 DEF IInv

LEMMA ProcIdles ==
  ASSUME IInv, NEW p \in Process,
         pc' = [pc EXCEPT ![p] = "idle"], proc' = [proc EXCEPT ![p] = NoProc],
         UNCHANGED files, CountsOK'
  PROVE  IInv'
<1>1. FilesOK'
  BY DEF IInv, FilesOK
<1>2. NoProc \in Jobs /\ NoProc.pw = None /\ ~NoProc.opened /\ NoProc.todo = <<>>
  BY DEF NoProc, Jobs
<1>3. ProcsOK'
  BY <1>2 DEF IInv, ProcsOK
<1> QED
  BY <1>1, <1>3 DEF IInv

\* Begins counts one save and keeps to the stores' names.
LEMMA BeginsCounts ==
  ASSUME IInv, NEW p \in Process, NEW x \in DOMAIN Store, NEW writes, NEW then,
         Begins(p, x, writes, then)
  PROVE  CountsOK' /\ UNCHANGED files /\ pc' = [pc EXCEPT ![p] = then]
  BY DEF Begins, IInv, CountsOK

\* What the invariant says of p.
JobOK(p) ==
  /\ proc[p] = [pw |-> proc[p].pw, fkey |-> proc[p].fkey, todo |-> proc[p].todo,
                opened |-> proc[p].opened]
  /\ proc \in [Process -> Jobs] /\ proc[p] \in Jobs
  /\ proc[p].fkey \in (Password \X Nat) \union {None} /\ proc[p].opened \in BOOLEAN
  /\ proc[p].todo \in Seq(Writes) /\ (proc[p].todo = <<>> => ~proc[p].opened)
  /\ pc[p] = "work" => proc[p].fkey \in Password \X Nat
  /\ pc[p] = "load" => proc[p].fkey \in Password \X Nat
  /\ pc[p] # "idle" => proc[p].pw \in Password
  /\ draws + 1 \in Nat

\* Records are what their fields are.
LEMMA TwoFields ==
  ASSUME NEW r, NEW k, NEW t,
         r = [pw |-> r.pw, fkey |-> r.fkey, todo |-> r.todo, opened |-> r.opened]
  PROVE  [r EXCEPT !.fkey = k, !.todo = t] =
           [pw |-> r.pw, fkey |-> k, todo |-> t, opened |-> r.opened]
<1>1. [r EXCEPT !.fkey = k] = [pw |-> r.pw, fkey |-> k, todo |-> r.todo, opened |-> r.opened]
  BY SMT
<1>2. ASSUME NEW q, q = [pw |-> r.pw, fkey |-> k, todo |-> r.todo, opened |-> r.opened]
      PROVE  [q EXCEPT !.todo = t] = [pw |-> r.pw, fkey |-> k, todo |-> t, opened |-> r.opened]
  BY <1>2, SMT
<1>3. [r EXCEPT !.fkey = k, !.todo = t] = [[r EXCEPT !.fkey = k] EXCEPT !.todo = t]
  OBVIOUS
<1> QED
  BY <1>1, <1>2, <1>3, Zenon

LEMMA JobIs ==
  ASSUME IInv, NEW p \in Process
  PROVE  JobOK(p)
  BY DEF IInv, ProcsOK, CountsOK, Jobs, JobOK

\* p sets out to write something.
LEMMA BeginsJob ==
  ASSUME IInv, NEW p \in Process, pc[p] # "idle", NEW x \in DOMAIN Store,
         NEW to \in {"salt", "load", "work"}, NEW todo \in Seq(Writes),
         NEW fkey \in (Password \X Nat) \union {None},
         to # "salt" => fkey \in Password \X Nat, proc[p].todo = <<>>,
         Begins(p, x, todo, to),
         proc' = [proc EXCEPT ![p] = [pw |-> proc[p].pw, fkey |-> fkey, todo |-> todo,
                                      opened |-> proc[p].opened]]
  PROVE  IInv'
<1> DEFINE job == [pw |-> proc[p].pw, fkey |-> fkey, todo |-> todo, opened |-> proc[p].opened]
<1>1. proc[p].pw \in Password /\ proc[p].opened \in BOOLEAN /\ ~proc[p].opened
  BY JobIs DEF JobOK
<1>2. CountsOK' /\ UNCHANGED files /\ pc' = [pc EXCEPT ![p] = to]
  BY BeginsCounts
<1>3. job \in Jobs
  BY <1>1 DEF Jobs
<1>4. job.pw \in Password /\ ~job.opened /\ (to # "salt" => job.fkey \in Password \X Nat)
  BY <1>1
<1> HIDE DEF job
<1>5. proc' = [proc EXCEPT ![p] = job]
  BY DEF job
<1> QED
  BY <1>2, <1>3, <1>4, <1>5, ProcChanges

\* A save of one of the stores while p is at work.
LEMMA WorkSaves ==
  ASSUME IInv, NEW p \in Process, At(p, "work"), NEW x \in DOMAIN Store,
         NEW todo \in Seq(Writes), proc' = [proc EXCEPT ![p].todo = todo],
         Begins(p, x, proc'[p].todo, "work")
  PROVE  IInv'
<1>0. JobOK(p)
  BY JobIs
<1>1. proc' = [proc EXCEPT ![p] = [pw |-> proc[p].pw, fkey |-> proc[p].fkey, todo |-> todo,
                                   opened |-> proc[p].opened]]
  <2>1. [proc[p] EXCEPT !.todo = todo] =
          [pw |-> proc[p].pw, fkey |-> proc[p].fkey, todo |-> todo, opened |-> proc[p].opened]
    BY <1>0 DEF Jobs, JobOK
  <2> QED
    BY <2>1, Zenon
<1>2. Begins(p, x, todo, "work")
  BY <1>1 DEF IInv, ProcsOK
<1> QED
  <2>1. pc[p] = "work" /\ proc[p].todo = <<>> /\ proc[p].fkey \in Password \X Nat
    BY <1>0 DEF At, JobOK
  <2> QED
    BY <1>1, <1>2, <2>1, BeginsJob

LEMMA WorkStep ==
  ASSUME IInv, NEW p \in Process,
         SaveContacts(p) \/ SaveIndex(p) \/ SaveReceived(p) \/ Rotate(p)
  PROVE  IInv'
<1>0. JobOK(p)
  BY JobIs
<1>1. At(p, "work") /\ proc[p].fkey \in Password \X Nat /\ draws + 1 \in Nat
  BY <1>0 DEF SaveContacts, SaveIndex, SaveReceived, Rotate, At, IInv, CountsOK, JobOK
<1>2. CASE SaveContacts(p)
  BY <1>1, <1>2, ContactsJob, WorkSaves, StoreNames DEF SaveContacts
<1>3. CASE SaveIndex(p)
  BY <1>1, <1>3, IndexJob, WorkSaves, StoreNames DEF SaveIndex
<1>4. CASE SaveReceived(p)
  BY <1>1, <1>4, ReceivedJob, WorkSaves, StoreNames DEF SaveReceived
<1>5. CASE Rotate(p)
  BY <1>1, <1>5, IdentityJob, WorkSaves, StoreNames DEF Rotate
<1> QED
  BY <1>2, <1>3, <1>4, <1>5

\* Two steps of a save: the file is emptied, and filled.
LEMMA OpenStep ==
  ASSUME IInv, NEW p \in Process, Open(p)
  PROVE  IInv'
<1>0. JobOK(p)
  BY JobIs
<1> DEFINE f == proc[p].todo[1][1]
<1>1. f \in File /\ proc[p].todo # <<>>
  BY NextWrite DEF Open
<1>2. FilesOK'
  <2>1. files' = [files EXCEPT ![f] = Empty]
    BY DEF Open
  <2> HIDE DEF f
  <2> QED
    BY <1>1, <2>1 DEF IInv, FilesOK
<1>3. ProcsOK'
  BY <1>1, <1>0 DEF Open, IInv, ProcsOK, Jobs, JobOK
<1> QED
  BY <1>2, <1>3 DEF IInv, CountsOK, Open

LEMMA FillStep ==
  ASSUME IInv, NEW p \in Process, Fill(p)
  PROVE  IInv'
<1>0. JobOK(p)
  BY JobIs
<1> DEFINE f == proc[p].todo[1][1]
           v == proc[p].todo[1][2]
<1>1. proc[p].todo # <<>>
  BY DEF Fill, IInv, ProcsOK
<1>2. f \in File /\ v \in Good(f) /\ Tail(proc[p].todo) \in Seq(Writes)
  BY <1>1, NextWrite
<1>3. FilesOK'
  <2>1. files' = [files EXCEPT ![f] = v] \/ files' = [files EXCEPT ![f] = Mixed]
    BY DEF Fill
  <2> HIDE DEF f, v
  <2> QED
    BY <1>2, <2>1 DEF IInv, FilesOK
<1>4. ProcsOK'
  <2>1. proc' = [proc EXCEPT ![p] = [pw |-> proc[p].pw, fkey |-> proc[p].fkey,
                                     todo |-> Tail(proc[p].todo), opened |-> FALSE]]
    BY SMTT(30), <1>0 DEF Fill, Jobs, JobOK
  <2>2. proc' \in [Process -> Jobs]
    BY <1>2, <2>1, <1>0 DEF Jobs, JobOK
  <2>3. proc[p].opened /\ pc' = pc /\ DOMAIN proc = Process
    BY <1>0 DEF Fill, JobOK
  <2>4. /\ proc'[p].pw = proc[p].pw /\ proc'[p].fkey = proc[p].fkey /\ ~proc'[p].opened
        /\ \A q \in Process \ {p} : proc'[q] = proc[q]
    BY <2>1, <2>3
  <2>5. pc[p] # "idle"
    BY <1>1 DEF IInv, ProcsOK
  <2> QED
    BY <2>2, <2>3, <2>4, <2>5 DEF IInv, ProcsOK
<1> QED
  BY <1>3, <1>4 DEF IInv, CountsOK, Fill

\* The commands' start, and their end.
LEMMA StartStep ==
  ASSUME IInv, NEW p \in Process, Start(p) \/ Unlock(p) \/ DeriveFileKey(p) \/ LoadStores(p)
  PROVE  IInv'
<1>0. JobOK(p)
  BY JobIs
<1>1. CASE Start(p)
  <2>1. PICK pw \in Password : proc' = [proc EXCEPT ![p].pw = pw]
    BY <1>1 DEF Start
  <2>2. proc' = [proc EXCEPT ![p] = [proc[p] EXCEPT !.pw = pw]]
    BY <2>1
  <2>3. [proc[p] EXCEPT !.pw = pw] \in Jobs /\ [proc[p] EXCEPT !.pw = pw].pw = pw
        /\ [proc[p] EXCEPT !.pw = pw].opened = proc[p].opened
        /\ [proc[p] EXCEPT !.pw = pw].todo = proc[p].todo
    BY <1>0 DEF Jobs, JobOK
  <2>4. CountsOK' /\ UNCHANGED files /\ pc' = [pc EXCEPT ![p] = "unlock"]
    BY <1>1 DEF Start, IInv, CountsOK
  <2> QED
    BY <2>2, <2>3, <2>4, ProcChanges, <1>0 DEF JobOK
<1>2. CASE Fails(p)
  BY <1>2, ProcIdles DEF Fails, IInv, CountsOK
<1>3. ASSUME NEW to \in {"salt", "load", "work"}, GoesOn(p, to), pc[p] # "idle",
             \/ UNCHANGED proc /\ (to \in {"load", "work"} => proc[p].fkey \in Password \X Nat)
             \/ \E fkey \in Password \X Nat : proc' = [proc EXCEPT ![p].fkey = fkey]
      PROVE  IInv'
  <2>1. PICK job \in Jobs :
          /\ proc' = [proc EXCEPT ![p] = job] /\ job.pw = proc[p].pw
          /\ job.todo = proc[p].todo /\ job.opened = proc[p].opened
          /\ to \in {"load", "work"} => job.fkey \in Password \X Nat
    <3>1. CASE UNCHANGED proc
      BY <1>3, <3>1, <1>0 DEF JobOK
    <3>2. ASSUME NEW fkey \in Password \X Nat, proc' = [proc EXCEPT ![p].fkey = fkey]
          PROVE  \E job \in Jobs :
                   /\ proc' = [proc EXCEPT ![p] = job] /\ job.pw = proc[p].pw
                   /\ job.todo = proc[p].todo /\ job.opened = proc[p].opened
                   /\ to \in {"load", "work"} => job.fkey \in Password \X Nat
      <4>1. [proc[p] EXCEPT !.fkey = fkey] \in Jobs
        BY <1>0 DEF Jobs, JobOK
      <4>2. proc' = [proc EXCEPT ![p] = [proc[p] EXCEPT !.fkey = fkey]]
        BY <3>2
      <4> QED
        BY <4>1, <4>2, <1>0 DEF Jobs, JobOK
    <3> QED
      BY <1>3, <3>1, <3>2
  <2>2. CountsOK' /\ UNCHANGED files /\ pc' = [pc EXCEPT ![p] = to]
    BY <1>3 DEF GoesOn, IInv, CountsOK
  <2> QED
    BY <1>3, <2>1, <2>2, ProcChanges, <1>0 DEF JobOK
<1>4. CASE Unlock(p)
  <2>1. pc[p] = "unlock" /\ proc[p].todo = <<>> /\ proc[p].pw \in Password /\ draws + 1 \in Nat
    BY <1>4, <1>0 DEF Unlock, At, IInv, CountsOK, JobOK
  <2>2. CASE GoesOn(p, AfterUnlock) /\ UNCHANGED proc
    BY <2>1, <2>2, <1>3 DEF AfterUnlock
  <2>3. CASE /\ proc' = [proc EXCEPT ![p].todo = IdentityWrites(proc[p].pw, draws + 1)]
             /\ Begins(p, "identity", proc'[p].todo, "salt")
    <3> DEFINE todo == IdentityWrites(proc[p].pw, draws + 1)
    <3>1. todo \in Seq(Writes)
      BY <2>1, IdentityJob
    <3> HIDE DEF todo
    <3>2. proc' = [proc EXCEPT ![p] = [pw |-> proc[p].pw, fkey |-> proc[p].fkey, todo |-> todo,
                                       opened |-> proc[p].opened]]
      <4>1. [proc[p] EXCEPT !.todo = todo] =
              [pw |-> proc[p].pw, fkey |-> proc[p].fkey, todo |-> todo, opened |-> proc[p].opened]
        BY <1>0 DEF Jobs, JobOK
      <4>2. proc' = [proc EXCEPT ![p].todo = todo]
        BY <2>3 DEF todo
      <4> QED
        BY <4>1, <4>2, Zenon
    <3>3. Begins(p, "identity", todo, "salt")
      BY <2>3, <3>2, <1>0 DEF JobOK
    <3> QED
      <4>1. proc[p].fkey \in (Password \X Nat) \union {None} /\ "identity" \in DOMAIN Store
        BY <1>0, <3>1, StoreNames DEF JobOK
      <4> QED
        BY <2>1, <3>1, <3>2, <3>3, <4>1, BeginsJob
  <2> QED
    BY <1>2, <1>4, <2>2, <2>3 DEF Unlock
<1>5. CASE DeriveFileKey(p)
  <2>1. pc[p] = "salt" /\ proc[p].todo = <<>> /\ proc[p].pw \in Password /\ draws + 1 \in Nat
    BY <1>5, <1>0 DEF DeriveFileKey, At, IInv, CountsOK, JobOK
  <2>2. CASE /\ SaltThere /\ Whole(Salt) /\ GoesOn(p, "load")
             /\ proc' = [proc EXCEPT ![p].fkey = Derive(proc[p].pw, files[Salt])]
    <3>1. files[Salt] \in Nat
      BY <2>2, FileNames
         DEF Whole, IInv, FilesOK, Good, Key, Salt, Contacts, Received, ReceivedMeta
    <3>2. Derive(proc[p].pw, files[Salt]) \in Password \X Nat
      BY <2>1, <3>1 DEF Derive
    <3> QED
      BY <2>1, <2>2, <3>2, <1>3
  <2>3. CASE /\ proc' = [proc EXCEPT ![p].fkey = Derive(proc[p].pw, draws + 1),
                                     ![p].todo = << <<Salt, draws + 1>> >>]
             /\ Begins(p, "salt", proc'[p].todo, "load")
    <3> DEFINE todo == << <<Salt, draws + 1>> >>
               fkey == Derive(proc[p].pw, draws + 1)
    <3>1. todo \in Seq(Writes) /\ fkey \in Password \X Nat
      BY <2>1, SaltJob DEF Derive
    <3> HIDE DEF todo, fkey
    <3>2. proc' = [proc EXCEPT ![p] = [pw |-> proc[p].pw, fkey |-> fkey, todo |-> todo,
                                       opened |-> proc[p].opened]]
      <4>1. [proc[p] EXCEPT !.fkey = fkey, !.todo = todo] =
              [pw |-> proc[p].pw, fkey |-> fkey, todo |-> todo, opened |-> proc[p].opened]
        <5>1. proc[p] = [pw |-> proc[p].pw, fkey |-> proc[p].fkey, todo |-> proc[p].todo,
                         opened |-> proc[p].opened]
          BY <1>0 DEF JobOK
        <5> QED
          BY <5>1, TwoFields, Zenon
      <4>2. proc' = [proc EXCEPT ![p] = [proc[p] EXCEPT !.fkey = fkey, !.todo = todo]]
        BY <2>3, <1>0 DEF todo, fkey, JobOK
      <4> QED
        BY <4>1, <4>2, Zenon
    <3>3. Begins(p, "salt", todo, "load")
      BY <2>3, <3>2, <1>0 DEF JobOK
    <3> QED
      <4>1. fkey \in (Password \X Nat) \union {None} /\ "salt" \in DOMAIN Store
        BY <1>0, <3>1, StoreNames DEF JobOK
      <4> QED
        BY <2>1, <3>1, <3>2, <3>3, <4>1, BeginsJob
  <2> QED
    BY <1>2, <1>5, <2>2, <2>3 DEF DeriveFileKey
<1>6. CASE LoadStores(p)
  BY <1>2, <1>3, <1>6, <1>0 DEF LoadStores, At, IInv, ProcsOK, JobOK
<1> QED
  BY <1>1, <1>4, <1>5, <1>6

LEMMA EndStep ==
  ASSUME IInv, NEW p \in Process, End(p)
  PROVE  IInv'
<1>1. CountsOK'
  BY DEF End, IInv, CountsOK
<1> QED
  BY <1>1, ProcIdles DEF End

----------------------------------------------------------------------------
(* The theorems.                                                           *)

LEMMA InitHolds == Init => IInv
<1> SUFFICES ASSUME Init PROVE IInv
  OBVIOUS
<1>1. NoProc \in Jobs /\ NoProc.pw = None /\ ~NoProc.opened /\ NoProc.todo = <<>>
  BY DEF NoProc, Jobs
<1>2. ProcsOK
  BY <1>1 DEF Init, ProcsOK
<1> QED
  BY <1>2 DEF Init, IInv, FilesOK, CountsOK

LEMMA Inductive == IInv /\ [Next]_vars => IInv'
<1> SUFFICES ASSUME IInv, [Next]_vars PROVE IInv'
  OBVIOUS
<1>1. ASSUME NEW p \in Process, Step(p) PROVE IInv'
  BY <1>1, OpenStep, FillStep, StartStep, WorkStep, EndStep DEF Step
<1>2. CASE UNCHANGED vars
  BY <1>2 DEF vars, IInv, FilesOK, ProcsOK, CountsOK
<1> QED
  BY <1>1, <1>2 DEF Next

\* The inductive invariant holds throughout.
THEOREM Invariant == Spec => []IInv
  BY InitHolds, Inductive, PTL DEF Spec

\* The type invariant: a process at work has a key for its files.
THEOREM TypeCorrect == Spec => []TypeOK
  BY Invariant, TypesFollow, PTL

\* Whatever processes overlap or die, a received file that opens is the one its
\* metadata describe (ReceivedFileStore.save and load).
THEOREM ReceivedHalvesMatch == Spec => []ReceivedMatchesMeta
  BY Invariant, MatchFollows, PTL

----------------------------------------------------------------------------
(* Damage.  Each store is one file or a pair: a save writes the first, and *)
(* then the second.                                                        *)

First == [identity |-> Key, salt |-> Salt, contacts |-> Contacts, index |-> Index,
          received |-> Received]
Second == [identity |-> KeyMeta, salt |-> Salt, contacts |-> ContactsMeta, index |-> Index,
           received |-> ReceivedMeta]
Pair == {"identity", "contacts", "received"}

LEMMA StoreFiles ==
  /\ First["identity"] = Key /\ First["salt"] = Salt /\ First["contacts"] = Contacts
  /\ First["index"] = Index /\ First["received"] = Received
  /\ Second["identity"] = KeyMeta /\ Second["salt"] = Salt /\ Second["contacts"] = ContactsMeta
  /\ Second["index"] = Index /\ Second["received"] = ReceivedMeta
  BY DEF First, Second

LEMMA StoreIs == \A x \in DOMAIN Store : Store[x] = {First[x], Second[x]}
  BY StoreNames, StoreFiles DEF Store

LEMMA FirstOrSecond ==
  /\ \A x \in DOMAIN Store : First[x] \in File /\ Second[x] \in File
  /\ \A x \in Pair : First[x] # Second[x]
  /\ \A x \in DOMAIN Store \ Pair : First[x] = Second[x]
<1>1. \A x \in DOMAIN Store : First[x] \in File /\ Second[x] \in File
  BY StoreNames, StoreFiles, FileNames
<1> QED
  BY <1>1, StoreNames, StoreFiles
     DEF Pair, Key, KeyMeta, Salt, Contacts, ContactsMeta, Index, Received, ReceivedMeta

\* No file belongs to two stores.
LEMMA Disjoint ==
  ASSUME NEW x \in DOMAIN Store, NEW y \in DOMAIN Store, x # y
  PROVE  {First[x], Second[x]} \intersect {First[y], Second[y]} = {}
  BY StoreNames, StoreFiles
     DEF Key, KeyMeta, Salt, Contacts, ContactsMeta, Index, Received, ReceivedMeta

LEMMA StoreOfIs ==
  /\ \A x \in DOMAIN Store : StoreOf(First[x]) = x /\ StoreOf(Second[x]) = x
  /\ \A f \in File : /\ StoreOf(f) \in DOMAIN Store
                     /\ f = First[StoreOf(f)] \/ f = Second[StoreOf(f)]
<1>1. \A f \in File : \E x \in DOMAIN Store : f \in Store[x]
  BY DEF File
<1>2. \A f \in File : StoreOf(f) \in DOMAIN Store /\ f \in Store[StoreOf(f)]
  BY <1>1 DEF StoreOf
<1>3. \A f \in File : f = First[StoreOf(f)] \/ f = Second[StoreOf(f)]
  BY <1>2, StoreIs
<1>4. ASSUME NEW x \in DOMAIN Store, NEW f \in {First[x], Second[x]}
      PROVE  StoreOf(f) = x
  <2>1. f \in File
    BY FirstOrSecond
  <2> QED
    BY <1>2, <1>3, <1>4, <2>1, Disjoint
<1> QED
  BY <1>2, <1>3, <1>4

\* The two files of the store y, as a save leaves them, go together.
Fits(y, a, b) ==
  CASE y = "identity" ->
         a \in Cipher /\ b \in Nat /\ \E pw \in Password : a.key = Derive(pw, b)
    [] y = "contacts" -> a \in Cipher /\ b \in Nat /\ a.nonce = b
    [] y = "received" -> a \in Cipher /\ b \in Meta /\ a.nonce = b.nonce
    [] OTHER -> a \in Nat /\ b \in Nat

\* These writes are to the store y.
Writing(todo, y) == todo # <<>> /\ StoreOf(todo[1][1]) = y

\* What is left of a save of the store y, in a process that is at `where`.
Rest(y, job, where) ==
  /\ \/ /\ Len(job.todo) = 2 /\ y \in Pair
        /\ job.todo[1][1] = First[y] /\ job.todo[2][1] = Second[y]
        /\ Fits(y, job.todo[1][2], job.todo[2][2])
        /\ y \in {"contacts", "received"} => job.todo[1][2].key = job.fkey
     \/ Len(job.todo) = 1 /\ job.todo[1][1] = Second[y]
  /\ y \in {"contacts", "received"} => where = "work"

Shaped(job, where) == \A y \in DOMAIN Store : Writing(job.todo, y) => Rest(y, job, where)

\* Nobody is saving y.
Quiet(y) == \A a \in Process : ~Saving(a, y)

\* How far the save of y is that p is at.
Underway(p, y) ==
  /\ proc[p].opened => files[proc[p].todo[1][1]] = Empty
  /\ Len(proc[p].todo) = 1 /\ y \in Pair => Fits(y, files[First[y]], proc[p].todo[1][2])
  /\ y = "salt" /\ ~proc[p].opened => files[Salt] = None

\* A store no save of which was cut short or overlapped.
Unhurt(y) ==
  /\ \A a, b \in Process : Saving(a, y) /\ Saving(b, y) => a = b
  /\ Quiet(y) => files[First[y]] = None \/ Fits(y, files[First[y]], files[Second[y]])
  /\ \A a \in Process : Saving(a, y) => Underway(a, y)

Sound(y) == y \notin hurt => Unhurt(y)

\* n is the salt of this directory, or is about to be.
Salted(n) ==
  \/ Quiet("salt") /\ files[Salt] = n
  \/ \E a \in Process : Saving(a, "salt") /\ proc[a].todo[1][2] = n

\* A process, or a file, has a key derived from the salt n.
Uses(p, n) == pc[p] \in {"load", "work"} /\ proc[p].fkey[2] = n
LockedWith(f, n) == files[f] \in Cipher /\ files[f].key[2] = n

\* There is one salt.
OneSalt ==
  \A n : (\E p \in Process : Uses(p, n)) \/ (\E f \in {Contacts, Received} : LockedWith(f, n))
           => Salted(n)

\* Nothing is locked before there is an identity.
Keyed ==
  /\ \A a \in Process : /\ pc[a] = "salt" /\ Len(proc[a].todo) < 2 => There(Key)
                        /\ pc[a] \in {"load", "work"} => There(Key)
  /\ There(Contacts) \/ There(Received) => There(Key)

DamageInv ==
  /\ \A a \in Process : Shaped(proc[a], pc[a])
  /\ \A y \in DOMAIN Store : Sound(y)
  /\ "salt" \notin hurt => OneSalt
  /\ Keyed

----------------------------------------------------------------------------
(* One process acts, and the stores it is not saving stay as they are.     *)

OnlyActs(p) == \A a \in Process \ {p} : proc'[a] = proc[a] /\ pc'[a] = pc[a]

LEMMA SavingIs ==
  ASSUME NEW a \in Process, NEW y
  PROVE  /\ Saving(a, y) <=> Writing(proc[a].todo, y)
         /\ Saving(a, y)' <=> Writing(proc'[a].todo, y)
  BY DEF Saving, Writing

LEMMA OthersSave ==
  ASSUME NEW p \in Process, OnlyActs(p), NEW a \in Process \ {p}, NEW y
  PROVE  Saving(a, y)' <=> Saving(a, y)
  BY SavingIs DEF OnlyActs

\* p is not saving y, before or after.
Leaves(p, y) ==
  /\ OnlyActs(p) /\ ~Saving(p, y) /\ ~Saving(p, y)'
  /\ files'[First[y]] = files[First[y]] /\ files'[Second[y]] = files[Second[y]]

LEMMA SavingStays ==
  ASSUME NEW p \in Process, NEW y, Leaves(p, y), NEW a \in Process
  PROVE  /\ Saving(a, y)' <=> Saving(a, y)
         /\ Saving(a, y) => proc'[a] = proc[a]
  BY OthersSave DEF Leaves, OnlyActs

LEMMA QuietStays ==
  ASSUME NEW p \in Process, NEW y, Leaves(p, y)
  PROVE  Quiet(y)' <=> Quiet(y)
  BY SavingStays DEF Quiet

LEMMA WhatIsSaved ==
  ASSUME IInv, NEW a \in Process, NEW y \in DOMAIN Store, Saving(a, y)
  PROVE  proc[a].todo[1][1] \in {First[y], Second[y]}
  BY NextWrite, StoreOfIs DEF Saving

LEMMA SoundStays ==
  ASSUME IInv, NEW p \in Process, NEW y \in DOMAIN Store, Leaves(p, y), Sound(y),
         y \in hurt => y \in hurt'
  PROVE  Sound(y)'
<1> SUFFICES ASSUME Unhurt(y) PROVE Unhurt(y)'
  BY DEF Sound
<1>1. ASSUME NEW a \in Process, Saving(a, y)' PROVE Underway(a, y)'
  <2>1. Saving(a, y) /\ proc'[a] = proc[a] /\ Underway(a, y)
    BY <1>1, SavingStays DEF Unhurt
  <2>2. files'[proc[a].todo[1][1]] = files[proc[a].todo[1][1]]
    BY <2>1, WhatIsSaved DEF Leaves
  <2>3. y = "salt" => files'[Salt] = files[Salt]
    BY StoreFiles DEF Leaves
  <2> QED
    BY <2>1, <2>2, <2>3 DEF Underway, Leaves
<1>2. \A a, b \in Process : Saving(a, y)' /\ Saving(b, y)' => a = b
  BY SavingStays DEF Unhurt
<1>3. Quiet(y)' => files'[First[y]] = None \/ Fits(y, files'[First[y]], files'[Second[y]])
  BY QuietStays DEF Unhurt, Leaves
<1> QED
  BY <1>1, <1>2, <1>3 DEF Unhurt

LEMMA SaltedStays ==
  ASSUME NEW p \in Process, Leaves(p, "salt"), NEW n, Salted(n)
  PROVE  Salted(n)'
<1>1. CASE Quiet("salt") /\ files[Salt] = n
  <2>1. Quiet("salt")' /\ files'[Salt] = n
    BY <1>1, QuietStays, StoreFiles DEF Leaves
  <2> QED
    BY <2>1 DEF Salted
<1>2. ASSUME NEW a \in Process, Saving(a, "salt"), proc[a].todo[1][2] = n PROVE Salted(n)'
  <2>1. Saving(a, "salt")' /\ proc'[a].todo[1][2] = n
    BY <1>2, SavingStays
  <2> QED
    BY <2>1 DEF Salted
<1> QED
  BY <1>1, <1>2 DEF Salted

\* What is made from the salt stays so.
LEMMA OneSaltStays ==
  ASSUME IInv, NEW p \in Process, Leaves(p, "salt"), OneSalt,
         \A n : Uses(p, n)' => Salted(n) \/ Salted(n)',
         \A n : \A f \in {Contacts, Received} :
           LockedWith(f, n)' => LockedWith(f, n) \/ Salted(n) \/ Salted(n)'
  PROVE  OneSalt'
<1>1. ASSUME NEW n, NEW a \in Process, Uses(a, n)' PROVE Salted(n)'
  <2>1. CASE a = p
    BY <1>1, <2>1, SaltedStays
  <2>2. CASE a # p
    <3>1. Uses(a, n)
      BY <1>1, <2>2 DEF Leaves, OnlyActs, Uses
    <3> QED
      BY <3>1, SaltedStays DEF OneSalt
  <2> QED
    BY <2>1, <2>2
<1>2. ASSUME NEW n, NEW f \in {Contacts, Received}, LockedWith(f, n)' PROVE Salted(n)'
  BY <1>2, SaltedStays DEF OneSalt
<1> QED
  BY <1>1, <1>2 DEF OneSalt

LEMMA KeyedStays ==
  ASSUME NEW p \in Process, OnlyActs(p), Keyed,
         There(Key) => There(Key)',
         pc'[p] = "salt" /\ Len(proc'[p].todo) < 2 => There(Key)',
         pc'[p] \in {"load", "work"} => There(Key)',
         There(Contacts)' => There(Contacts) \/ There(Key)',
         There(Received)' => There(Received) \/ There(Key)'
  PROVE  Keyed'
<1>1. ASSUME NEW a \in Process
      PROVE  /\ pc'[a] = "salt" /\ Len(proc'[a].todo) < 2 => There(Key)'
             /\ pc'[a] \in {"load", "work"} => There(Key)'
  <2>1. CASE a = p
    BY <2>1
  <2>2. CASE a # p
    BY <2>2 DEF OnlyActs, Keyed
  <2> QED
    BY <2>1, <2>2
<1> QED
  BY <1>1 DEF Keyed

LEMMA ShapedStays ==
  ASSUME NEW p \in Process, OnlyActs(p), \A a \in Process : Shaped(proc[a], pc[a]),
         NEW job, NEW where, job = proc'[p], where = pc'[p], Shaped(job, where)
  PROVE  \A a \in Process : Shaped(proc[a], pc[a])'
<1> SUFFICES ASSUME NEW a \in Process PROVE Shaped(proc'[a], pc'[a])
  OBVIOUS
<1>1. CASE a = p
  BY <1>1
<1>2. CASE a # p
  BY <1>2 DEF OnlyActs
<1> QED
  BY <1>1, <1>2

----------------------------------------------------------------------------
(* A process that saves nothing afterwards, and left no save half done but *)
(* one that counts as damage: it moves on, fails, or ends.                 *)

LEMMA SavesNothing ==
  ASSUME IInv, DamageInv, NEW p \in Process, OnlyActs(p), UNCHANGED files,
         proc'[p].todo = <<>>, hurt \subseteq hurt',
         \A y \in DOMAIN Store : Saving(p, y) => y \in hurt',
         pc'[p] \in {"salt", "load", "work"} => There(Key),
         "salt" \notin hurt' => \A n : Uses(p, n)' => Salted(n)
  PROVE  DamageInv'
<1>1. \A y : ~Saving(p, y)'
  BY SavingIs DEF Writing
<1>2. \A y \in DOMAIN Store : y \notin hurt' => Leaves(p, y)
  BY <1>1 DEF Leaves
<1>3. \A a \in Process : Shaped(proc[a], pc[a])'
  <2>1. PICK job, where : job = proc'[p] /\ where = pc'[p]
    OBVIOUS
  <2>2. Shaped(job, where)
    BY <2>1 DEF Shaped, Writing
  <2> QED
    BY <2>1, <2>2, ShapedStays DEF DamageInv
<1>4. ASSUME NEW y \in DOMAIN Store PROVE Sound(y)'
  <2>1. CASE y \in hurt'
    BY <2>1 DEF Sound
  <2>2. CASE y \notin hurt'
    BY <1>2, <2>2, SoundStays DEF DamageInv
  <2> QED
    BY <2>1, <2>2
<1>5. ASSUME "salt" \notin hurt' PROVE OneSalt'
  <2>1. Leaves(p, "salt") /\ OneSalt
    BY <1>2, <1>5, StoreNames DEF DamageInv
  <2>2. \A n : \A f \in {Contacts, Received} : LockedWith(f, n)' => LockedWith(f, n)
    BY DEF LockedWith
  <2> QED
    BY <1>5, <2>1, <2>2, OneSaltStays
<1>6. Keyed'
  <2>1. \A f \in File : There(f)' <=> There(f)
    BY DEF There
  <2> QED
    BY <2>1, KeyedStays, FileNames DEF DamageInv
<1> QED
  BY <1>3, <1>4, <1>5, <1>6 DEF DamageInv

LEMMA StepIsOne ==
  ASSUME IInv, NEW p \in Process, Step(p)
  PROVE  OnlyActs(p)
<1>1. proc \in [Process -> Jobs] /\ DOMAIN pc = Process
  BY DEF IInv, ProcsOK
<1>2. CASE Open(p) \/ Fill(p)
  BY <1>1, <1>2 DEF Open, Fill, OnlyActs
<1>3. CASE Fails(p) \/ End(p)
  BY <1>1, <1>3 DEF Fails, End, OnlyActs
<1>4. CASE Start(p)
  BY <1>1, <1>4 DEF Start, OnlyActs
<1>5. CASE Unlock(p)
  BY <1>1, <1>3, <1>5 DEF Unlock, GoesOn, Begins, OnlyActs
<1>6. CASE DeriveFileKey(p)
  BY <1>1, <1>3, <1>6 DEF DeriveFileKey, GoesOn, Begins, OnlyActs
<1>7. CASE LoadStores(p)
  BY <1>1, <1>3, <1>7 DEF LoadStores, GoesOn, OnlyActs
<1>8. CASE SaveContacts(p) \/ SaveIndex(p) \/ SaveReceived(p) \/ Rotate(p)
  BY <1>1, <1>8 DEF SaveContacts, SaveIndex, SaveReceived, Rotate, Begins, OnlyActs
<1> QED
  BY <1>2, <1>3, <1>4, <1>5, <1>6, <1>7, <1>8 DEF Step

\* What the fields of a key are.
LEMMA Derived ==
  ASSUME NEW pw, NEW n
  PROVE  Derive(pw, n)[1] = pw /\ Derive(pw, n)[2] = n
  BY DEF Derive

\* An unhurt salt that can be read is nobody's to write.
LEMMA SaltIsRead ==
  ASSUME IInv, DamageInv, "salt" \notin hurt, Whole(Salt)
  PROVE  Quiet("salt")
<1> SUFFICES ASSUME NEW a \in Process, Saving(a, "salt") PROVE FALSE
  BY DEF Quiet
<1>1. Underway(a, "salt")
  BY StoreNames DEF DamageInv, Sound, Unhurt
<1>2. proc[a].todo[1][1] = Salt
  BY WhatIsSaved, StoreNames, StoreFiles
<1>3. proc[a].opened \in BOOLEAN
  BY JobIs DEF JobOK
<1> QED
  BY <1>1, <1>2, <1>3 DEF Underway, Whole

LEMMA FailsKeeps ==
  ASSUME IInv, DamageInv, NEW p \in Process, Step(p), Fails(p), proc[p].todo = <<>>
  PROVE  DamageInv'
<1>1. proc'[p].todo = <<>> /\ pc'[p] = "idle" /\ OnlyActs(p)
  BY StepIsOne DEF Fails, IInv, ProcsOK, NoProc
<1> QED
  BY <1>1, SavesNothing DEF Fails, Uses, Saving

LEMMA EndKeeps ==
  ASSUME IInv, DamageInv, NEW p \in Process, End(p)
  PROVE  DamageInv'
<1>1. proc'[p].todo = <<>> /\ pc'[p] = "idle" /\ OnlyActs(p)
  BY StepIsOne DEF End, IInv, ProcsOK, NoProc, Step
<1>2. \A y \in DOMAIN Store : Saving(p, y) => y \in hurt'
  BY DEF End
<1> QED
  BY <1>1, <1>2, SavesNothing DEF End, Uses

\* Commands that only read.
LEMMA GoesOnKeeps ==
  ASSUME IInv, DamageInv, NEW p \in Process, Step(p), NEW to \in {"unlock", "salt", "load", "work"},
         pc'[p] = to, proc[p].todo = <<>>, proc'[p].todo = <<>>, UNCHANGED <<files, hurt>>,
         to # "unlock" => There(Key),
         "salt" \notin hurt => \A n : Uses(p, n)' => Salted(n)
  PROVE  DamageInv'
<1>1. OnlyActs(p) /\ \A y : ~Saving(p, y)
  BY StepIsOne DEF Saving
<1> QED
  BY <1>1, SavesNothing

LEMMA StartKeeps ==
  ASSUME IInv, DamageInv, NEW p \in Process, Start(p), proc[p].todo = <<>>
  PROVE  DamageInv'
<1>1. Step(p) /\ pc'[p] = "unlock" /\ proc'[p].todo = <<>> /\ UNCHANGED <<files, hurt>>
  BY DEF Step, Start, IInv, ProcsOK, Jobs
<1> QED
  BY <1>1, GoesOnKeeps DEF Uses

LEMMA UnlockKeeps ==
  ASSUME IInv, DamageInv, NEW p \in Process, Unlock(p), There(Key)
  PROVE  DamageInv'
<1>1. Step(p) /\ proc[p].todo = <<>>
  BY DEF Step, Unlock, At
<1>2. CASE GoesOn(p, AfterUnlock) /\ UNCHANGED proc
  <2>1. pc'[p] = "salt" /\ proc'[p].todo = <<>> /\ UNCHANGED <<files, hurt>>
    BY <1>1, <1>2 DEF GoesOn, AfterUnlock, IInv, ProcsOK
  <2> QED
    BY <1>1, <2>1, GoesOnKeeps DEF Uses
<1>3. CASE Fails(p)
  BY <1>1, <1>3, FailsKeeps
<1> QED
  BY <1>2, <1>3 DEF Unlock

LEMMA DeriveKeeps ==
  ASSUME IInv, DamageInv, NEW p \in Process, DeriveFileKey(p), SaltThere
  PROVE  DamageInv'
<1>1. Step(p) /\ proc[p].todo = <<>> /\ pc[p] = "salt"
  BY DEF Step, DeriveFileKey, At
<1>2. CASE /\ Whole(Salt) /\ GoesOn(p, "load")
           /\ proc' = [proc EXCEPT ![p].fkey = Derive(proc[p].pw, files[Salt])]
  <2>1. /\ pc'[p] = "load" /\ proc'[p].todo = <<>> /\ UNCHANGED <<files, hurt>>
        /\ proc'[p].fkey = Derive(proc[p].pw, files[Salt])
    BY <1>1, <1>2 DEF GoesOn, IInv, ProcsOK, Jobs
  <2>2. There(Key)
    BY <1>1 DEF DamageInv, Keyed
  <2>3. ASSUME "salt" \notin hurt, NEW n, Uses(p, n)' PROVE Salted(n)
    BY <1>2, <2>1, <2>3, SaltIsRead, Derived DEF Uses, Salted
  <2> QED
    BY <1>1, <2>1, <2>2, <2>3, GoesOnKeeps
<1>3. CASE Fails(p)
  BY <1>1, <1>3, FailsKeeps
<1> QED
  BY <1>2, <1>3 DEF DeriveFileKey

LEMMA LoadKeeps ==
  ASSUME IInv, DamageInv, NEW p \in Process, LoadStores(p)
  PROVE  DamageInv'
<1>1. Step(p) /\ proc[p].todo = <<>> /\ pc[p] = "load"
  BY DEF Step, LoadStores, At
<1>2. CASE GoesOn(p, "work") /\ UNCHANGED proc
  <2>1. pc'[p] = "work" /\ proc'[p].todo = <<>> /\ UNCHANGED <<files, hurt>>
    BY <1>1, <1>2 DEF GoesOn, IInv, ProcsOK
  <2>2. There(Key)
    BY <1>1 DEF DamageInv, Keyed
  <2>3. ASSUME "salt" \notin hurt, NEW n, Uses(p, n)' PROVE Salted(n)
    <3>1. Uses(p, n)
      BY <1>1, <1>2, <2>3 DEF Uses
    <3> QED
      BY <2>3, <3>1 DEF DamageInv, OneSalt
  <2> QED
    BY <1>1, <2>1, <2>2, <2>3, GoesOnKeeps
<1>3. CASE Fails(p)
  BY <1>1, <1>3, FailsKeeps
<1> QED
  BY <1>2, <1>3 DEF LoadStores

----------------------------------------------------------------------------
(* A save begins.                                                          *)

LEMMA BeginsKeeps ==
  ASSUME IInv, DamageInv, NEW p \in Process, Step(p), NEW x \in DOMAIN Store,
         proc[p].todo = <<>>, UNCHANGED files,
         hurt' = IF \E q \in Process \ {p} : Saving(q, x) THEN hurt \union {x} ELSE hurt,
         NEW job, NEW where, job = proc'[p], where = pc'[p],
         Writing(job.todo, x), Rest(x, job, where), Len(job.todo) = 2 \/ x \notin Pair, ~job.opened,
         x = "salt" => ~There(Salt),
         There(Key) \/ (where = "salt" /\ Len(job.todo) = 2),
         \A n : Uses(p, n)' => IF x = "salt" THEN n = job.todo[1][2] ELSE Uses(p, n)
  PROVE  DamageInv'
<1>1. OnlyActs(p) /\ \A y : /\ ~Saving(p, y)
                            /\ Saving(p, y)' <=> y = x
  BY StepIsOne, SavingIs DEF Saving, Writing
<1>2. \A y \in DOMAIN Store \ {x} : Leaves(p, y)
  BY <1>1 DEF Leaves
<1>3. \A a \in Process : Shaped(proc[a], pc[a])'
  <2>1. Shaped(job, where)
    BY DEF Shaped, Writing
  <2> QED
    BY <1>1, <2>1, ShapedStays DEF DamageInv
<1>4. ASSUME NEW y \in DOMAIN Store PROVE Sound(y)'
  <2>1. CASE y # x
    BY <1>2, <2>1, SoundStays DEF DamageInv
  <2>2. CASE y = x /\ y \notin hurt'
    <3>1. \A a \in Process : Saving(a, x)' <=> a = p
      BY <1>1, <2>2, OthersSave
    <3>2. Underway(p, x)'
      BY DEF Underway, There
    <3> QED
      BY <2>2, <3>1, <3>2 DEF Sound, Unhurt, Quiet
  <2>3. CASE y \in hurt'
    BY <2>3 DEF Sound
  <2> QED
    BY <2>1, <2>2, <2>3
<1>5. ASSUME "salt" \notin hurt' PROVE OneSalt'
  <2>0. OneSalt
    BY <1>5 DEF DamageInv
  <2>1. \A n : \A f \in {Contacts, Received} : LockedWith(f, n)' => LockedWith(f, n)
    BY DEF LockedWith
  <2>2. CASE x # "salt"
    <3>1. \A n : Uses(p, n)' => Salted(n)
      BY <2>0, <2>2 DEF OneSalt
    <3> QED
      BY <1>2, <2>0, <2>1, <2>2, <3>1, OneSaltStays, StoreNames
  <2>3. CASE x = "salt"
    <3>1. ASSUME NEW n, Salted(n) PROVE n = None
      BY <1>1, <1>5, <2>3, <3>1 DEF Salted, There
    <3>2. ASSUME NEW n, NEW a \in Process, Uses(a, n) PROVE FALSE
      <4>1. proc[a].fkey \in Password \X Nat /\ n = None
        BY <3>1, <3>2, <2>0, JobIs DEF JobOK, Uses, OneSalt
      <4> QED
        BY <3>2, <4>1, WrittenAssumption DEF Uses
    <3>3. ASSUME NEW n, NEW f \in {Contacts, Received}, LockedWith(f, n) PROVE FALSE
      <4>1. files[f].key \in Password \X Nat /\ n = None
        BY <3>1, <3>3, <2>0 DEF LockedWith, OneSalt, Cipher
      <4> QED
        BY <3>3, <4>1, WrittenAssumption DEF LockedWith
    <3>4. ASSUME NEW n, NEW a \in Process, Uses(a, n)' PROVE a = p /\ n = job.todo[1][2]
      BY <1>1, <2>3, <3>2, <3>4 DEF OnlyActs, Uses
    <3>5. Salted(job.todo[1][2])'
      <4>1. PICK n : n = job.todo[1][2]
        OBVIOUS
      <4>2. Saving(p, "salt")' /\ proc'[p].todo[1][2] = n
        BY <1>1, <2>3, <4>1
      <4>3. Salted(n)'
        BY <4>2 DEF Salted
      <4> QED
        BY <4>1, <4>3
    <3> QED
      BY <2>1, <3>3, <3>4, <3>5 DEF OneSalt
  <2> QED
    BY <2>2, <2>3
<1>6. Keyed'
  <2>1. \A f \in File : There(f)' <=> There(f)
    BY DEF There
  <2> QED
    BY SMTT(60), <1>1, <2>1, KeyedStays, FileNames DEF DamageInv
<1> QED
  BY <1>3, <1>4, <1>5, <1>6 DEF DamageInv

\* What each save is going to write.
LEMMA IdentityRest ==
  ASSUME NEW pw \in Password, NEW n \in Nat, NEW job, job.todo = IdentityWrites(pw, n), NEW where
  PROVE  /\ Writing(job.todo, "identity") /\ Rest("identity", job, where)
         /\ Len(job.todo) = 2
<1>1. job.todo = << <<Key, Sealed(Derive(pw, n), n, n)>>, <<KeyMeta, n>> >>
  BY DEF IdentityWrites
<1>2. /\ Len(job.todo) = 2 /\ job.todo # <<>> /\ job.todo[1][1] = Key /\ job.todo[2][1] = KeyMeta
      /\ job.todo[1][2] = Sealed(Derive(pw, n), n, n) /\ job.todo[2][2] = n
  BY <1>1
<1>3. Fits("identity", Sealed(Derive(pw, n), n, n), n)
  <2>1. Sealed(Derive(pw, n), n, n) \in Cipher /\ Sealed(Derive(pw, n), n, n).key = Derive(pw, n)
    BY DEF Sealed, Cipher, Derive
  <2> QED
    BY <2>1 DEF Fits
<1>4. StoreOf(Key) = "identity"
  BY StoreOfIs, StoreFiles, StoreNames
<1> QED
  BY <1>2, <1>3, <1>4, StoreFiles DEF Writing, Rest, Pair

LEMMA SaltRest ==
  ASSUME NEW n, NEW job, job.todo = << <<Salt, n>> >>, NEW where
  PROVE  /\ Writing(job.todo, "salt") /\ Rest("salt", job, where)
         /\ job.todo[1][2] = n
<1>1. StoreOf(Salt) = "salt"
  BY StoreOfIs, StoreFiles, StoreNames
<1> QED
  BY <1>1, StoreFiles DEF Writing, Rest

LEMMA IndexRest ==
  ASSUME NEW n, NEW job, job.todo = << <<Index, n>> >>, NEW where
  PROVE  Writing(job.todo, "index") /\ Rest("index", job, where)
<1>1. StoreOf(Index) = "index"
  BY StoreOfIs, StoreFiles, StoreNames
<1> QED
  BY <1>1, StoreFiles DEF Writing, Rest

LEMMA ContactsRest ==
  ASSUME NEW fkey \in Password \X Nat, NEW n \in Nat, NEW job, job.fkey = fkey,
         job.todo = << <<Contacts, Sealed(fkey, Nonce(n), n)>>, <<ContactsMeta, Nonce(n)>> >>
  PROVE  /\ Writing(job.todo, "contacts") /\ Rest("contacts", job, "work")
         /\ Len(job.todo) = 2
<1>1. /\ Len(job.todo) = 2 /\ job.todo # <<>> /\ job.todo[1][1] = Contacts
      /\ job.todo[2][1] = ContactsMeta
      /\ job.todo[1][2] = Sealed(fkey, Nonce(n), n) /\ job.todo[2][2] = Nonce(n)
  OBVIOUS
<1>2. /\ Sealed(fkey, Nonce(n), n) \in Cipher /\ Sealed(fkey, Nonce(n), n).key = fkey
      /\ Sealed(fkey, Nonce(n), n).nonce = Nonce(n) /\ Nonce(n) \in Nat
  BY DEF Sealed, Cipher, Nonce
<1>3. Fits("contacts", Sealed(fkey, Nonce(n), n), Nonce(n))
  BY <1>2 DEF Fits
<1>4. StoreOf(Contacts) = "contacts"
  BY StoreOfIs, StoreFiles, StoreNames
<1> QED
  BY <1>1, <1>2, <1>3, <1>4, StoreFiles DEF Writing, Rest, Pair

LEMMA ReceivedRest ==
  ASSUME NEW fkey \in Password \X Nat, NEW n \in Nat, NEW job, job.fkey = fkey,
         job.todo = << <<Received, Sealed(fkey, Nonce(n), n)>>,
                       <<ReceivedMeta, [nonce |-> Nonce(n), of |-> n]>> >>
  PROVE  /\ Writing(job.todo, "received") /\ Rest("received", job, "work")
         /\ Len(job.todo) = 2
<1>1. /\ Len(job.todo) = 2 /\ job.todo # <<>> /\ job.todo[1][1] = Received
      /\ job.todo[2][1] = ReceivedMeta
      /\ job.todo[1][2] = Sealed(fkey, Nonce(n), n)
      /\ job.todo[2][2] = [nonce |-> Nonce(n), of |-> n]
  OBVIOUS
<1>2. /\ Sealed(fkey, Nonce(n), n) \in Cipher /\ Sealed(fkey, Nonce(n), n).key = fkey
      /\ Sealed(fkey, Nonce(n), n).nonce = Nonce(n)
      /\ [nonce |-> Nonce(n), of |-> n] \in Meta /\ [nonce |-> Nonce(n), of |-> n].nonce = Nonce(n)
  BY DEF Sealed, Cipher, Nonce, Meta
<1>3. Fits("received", Sealed(fkey, Nonce(n), n), [nonce |-> Nonce(n), of |-> n])
  BY <1>2 DEF Fits
<1>4. StoreOf(Received) = "received"
  BY StoreOfIs, StoreFiles, StoreNames
<1> QED
  BY <1>1, <1>2, <1>3, <1>4, StoreFiles DEF Writing, Rest, Pair

\* A command at work sets out to save something.
LEMMA WorkBegins ==
  ASSUME IInv, DamageInv, NEW p \in Process, Step(p), At(p, "work"),
         NEW x \in DOMAIN Store \ {"salt"}, NEW todo, proc' = [proc EXCEPT ![p].todo = todo],
         Begins(p, x, proc'[p].todo, "work"),
         \A job : job.todo = todo /\ job.fkey = proc[p].fkey =>
                    Writing(job.todo, x) /\ Rest(x, job, "work") /\ (Len(job.todo) = 2 \/ x \notin Pair)
  PROVE  DamageInv'
<1>1. PICK job, where : job = proc'[p] /\ where = pc'[p]
  OBVIOUS
<1>2. /\ job.todo = todo /\ job.fkey = proc[p].fkey /\ job.opened = proc[p].opened
      /\ where = "work" /\ UNCHANGED files
      /\ hurt' = IF \E q \in Process \ {p} : Saving(q, x) THEN hurt \union {x} ELSE hurt
  BY <1>1 DEF IInv, ProcsOK, Jobs, Begins
<1>3. proc[p].todo = <<>> /\ ~job.opened /\ pc[p] = "work" /\ There(Key)
  BY <1>2, JobIs DEF JobOK, At, DamageInv, Keyed
<1>4. \A n : Uses(p, n)' => Uses(p, n)
  BY <1>1, <1>2, <1>3 DEF Uses
<1> QED
  BY <1>1, <1>2, <1>3, <1>4, BeginsKeeps

LEMMA WorkKeeps ==
  ASSUME IInv, DamageInv, NEW p \in Process,
         SaveContacts(p) \/ SaveIndex(p) \/ SaveReceived(p) \/ Rotate(p)
  PROVE  DamageInv'
<1>1. Step(p) /\ At(p, "work")
  BY DEF Step, SaveContacts, SaveIndex, SaveReceived, Rotate
<1>2. proc[p].fkey \in Password \X Nat /\ draws + 1 \in Nat
  BY <1>1, JobIs DEF At, JobOK
<1>3. CASE SaveContacts(p)
  BY <1>1, <1>2, <1>3, ContactsRest, WorkBegins, StoreNames DEF SaveContacts
<1>4. CASE SaveIndex(p)
  BY <1>1, <1>2, <1>4, IndexRest, WorkBegins, StoreNames DEF SaveIndex, Pair
<1>5. CASE SaveReceived(p)
  BY <1>1, <1>2, <1>5, ReceivedRest, WorkBegins, StoreNames DEF SaveReceived
<1>6. CASE Rotate(p)
  <2>1. PICK pw \in Password :
          proc' = [proc EXCEPT ![p].todo = IdentityWrites(pw, draws + 1)]
    BY <1>6 DEF Rotate
  <2>2. PICK todo : todo = IdentityWrites(pw, draws + 1)
    OBVIOUS
  <2>3. /\ proc' = [proc EXCEPT ![p].todo = todo]
        /\ Begins(p, "identity", proc'[p].todo, "work")
    BY <1>6, <2>1, <2>2 DEF Rotate
  <2>4. ASSUME NEW job, job.todo = todo
        PROVE  Writing(job.todo, "identity") /\ Rest("identity", job, "work") /\ Len(job.todo) = 2
    BY <1>2, <2>2, <2>4, IdentityRest
  <2>5. "identity" \in DOMAIN Store \ {"salt"}
    BY StoreNames
  <2> QED
    BY <1>1, <2>3, <2>4, <2>5, WorkBegins
<1> QED
  BY <1>3, <1>4, <1>5, <1>6

\* The first start of all makes an identity.
LEMMA CreateKeeps ==
  ASSUME IInv, DamageInv, NEW p \in Process, Unlock(p), ~There(Key)
  PROVE  DamageInv'
<1>1. /\ Step(p) /\ proc[p].todo = <<>> /\ proc[p].pw \in Password /\ draws + 1 \in Nat
      /\ proc' = [proc EXCEPT ![p].todo = IdentityWrites(proc[p].pw, draws + 1)]
      /\ Begins(p, "identity", proc'[p].todo, "salt")
  BY JobIs DEF Step, Unlock, At, JobOK
<1>2. PICK job, where : job = proc'[p] /\ where = pc'[p]
  OBVIOUS
<1>3. /\ job.todo = IdentityWrites(proc[p].pw, draws + 1) /\ job.opened = proc[p].opened
      /\ where = "salt" /\ UNCHANGED files
      /\ hurt' = IF \E q \in Process \ {p} : Saving(q, "identity")
                   THEN hurt \union {"identity"} ELSE hurt
  BY <1>1, <1>2 DEF IInv, ProcsOK, Jobs, Begins
<1>4. ~job.opened
  BY <1>1, <1>3, JobIs DEF JobOK
<1>5. Writing(job.todo, "identity") /\ Rest("identity", job, where) /\ Len(job.todo) = 2
  BY <1>1, <1>3, IdentityRest
<1>6. \A n : ~Uses(p, n)'
  BY <1>2, <1>3 DEF Uses
<1> QED
  BY <1>1, <1>2, <1>3, <1>4, <1>5, <1>6, BeginsKeeps, StoreNames

\* And a salt: no key is in use then.
LEMMA FirstSaltKeeps ==
  ASSUME IInv, DamageInv, NEW p \in Process, DeriveFileKey(p), ~SaltThere
  PROVE  DamageInv'
<1>1. /\ Step(p) /\ proc[p].todo = <<>> /\ pc[p] = "salt"
      /\ proc' = [proc EXCEPT ![p].fkey = Derive(proc[p].pw, draws + 1),
                              ![p].todo = << <<Salt, draws + 1>> >>]
      /\ Begins(p, "salt", proc'[p].todo, "load")
  BY DEF Step, DeriveFileKey, At
<1>2. PICK job, where : job = proc'[p] /\ where = pc'[p]
  OBVIOUS
<1>3. /\ job.todo = << <<Salt, draws + 1>> >> /\ job.opened = proc[p].opened
      /\ job.fkey = Derive(proc[p].pw, draws + 1) /\ where = "load" /\ UNCHANGED files
      /\ hurt' = IF \E q \in Process \ {p} : Saving(q, "salt") THEN hurt \union {"salt"} ELSE hurt
  BY <1>1, <1>2 DEF IInv, ProcsOK, Jobs, Begins
<1>4. ~job.opened /\ There(Key) /\ ~There(Salt)
  <2>1. \A todo : todo = <<>> => Len(todo) < 2
    OBVIOUS
  <2>2. ~job.opened
    BY <1>1, <1>3, JobIs DEF JobOK
  <2> QED
    BY <1>1, <2>1, <2>2 DEF DamageInv, Keyed, SaltThere
<1>5. Writing(job.todo, "salt") /\ Rest("salt", job, where) /\ job.todo[1][2] = draws + 1
  BY <1>1, <1>3, SaltRest
<1>6. \A n : Uses(p, n)' => n = job.todo[1][2]
  BY <1>2, <1>3, <1>5, Derived DEF Uses
<1> QED
  BY <1>1, <1>2, <1>3, <1>4, <1>5, <1>6, BeginsKeeps, StoreNames DEF Pair

----------------------------------------------------------------------------
(* A save goes on: the file is emptied.                                    *)

LEMMA OpenKeeps ==
  ASSUME IInv, DamageInv, NEW p \in Process, Open(p)
  PROVE  DamageInv'
<1>0. Step(p) /\ OnlyActs(p) /\ proc[p].todo # <<>> /\ ~proc[p].opened
  BY StepIsOne DEF Step, Open
<1>1. PICK f \in File : f = proc[p].todo[1][1]
  BY <1>0, NextWrite
<1>2. PICK x \in DOMAIN Store : x = StoreOf(f)
  BY StoreOfIs
<1>3. f = First[x] \/ f = Second[x]
  BY <1>1, <1>2, StoreOfIs
<1>4. PICK job, where : job = proc'[p] /\ where = pc'[p]
  OBVIOUS
<1>5. job.todo = proc[p].todo /\ job.fkey = proc[p].fkey /\ where = pc[p]
  BY <1>4, JobIs DEF Open, JobOK, Jobs
<1>6. files'[f] = Empty /\ (\A g \in File \ {f} : files'[g] = files[g]) /\ UNCHANGED hurt
  BY <1>1 DEF Open, IInv, FilesOK
<1>7. \A y : /\ Saving(p, y) <=> y = x
             /\ Saving(p, y)' <=> y = x
  BY <1>0, <1>1, <1>2, <1>4, <1>5, SavingIs DEF Writing
<1>8. \A y \in DOMAIN Store \ {x} : Leaves(p, y)
  <2> SUFFICES ASSUME NEW y \in DOMAIN Store \ {x} PROVE Leaves(p, y)
    OBVIOUS
  <2>1. f \notin {First[y], Second[y]} /\ First[y] \in File /\ Second[y] \in File
    BY <1>3, Disjoint, FirstOrSecond
  <2> QED
    BY <1>0, <1>6, <1>7, <2>1 DEF Leaves
<1>9. \A a \in Process : Shaped(proc[a], pc[a])'
  <2>1. Shaped(proc[p], pc[p])
    BY DEF DamageInv
  <2>2. Shaped(job, where)
    BY <1>5, <2>1 DEF Shaped, Rest
  <2> QED
    BY <1>0, <1>4, <2>2, ShapedStays DEF DamageInv
<1>10. ASSUME NEW y \in DOMAIN Store PROVE Sound(y)'
  <2>1. CASE y # x
    BY <1>6, <1>8, <2>1, SoundStays DEF DamageInv
  <2>2. CASE y = x /\ x \notin hurt
    <3>1. Unhurt(x) /\ Underway(p, x)
      BY <1>7, <2>2 DEF DamageInv, Sound, Unhurt
    <3>2. \A a \in Process : /\ Saving(a, x) <=> a = p
                             /\ Saving(a, x)' <=> a = p
      BY <1>0, <1>7, <3>1, OthersSave DEF Unhurt
    <3>3. ASSUME Len(job.todo) = 1, x \in Pair PROVE files'[First[x]] = files[First[x]]
      <4>1. Rest(x, proc[p], pc[p])
        BY <1>7, SavingIs DEF DamageInv, Shaped
      <4>2. f = Second[x] /\ First[x] # f /\ First[x] \in File
        BY <1>1, <1>5, <3>3, <4>1, FirstOrSecond DEF Rest
      <4> QED
        BY <1>6, <4>2
    <3>4. proc'[p].todo = job.todo /\ proc'[p].opened = TRUE /\ job.todo[1][1] = f
      BY <1>1, <1>4, <1>5, <1>0, JobIs DEF Open, JobOK, Jobs
    <3>5. Underway(p, x)'
      BY <1>1, <1>4, <1>5, <1>6, <3>1, <3>3, <3>4 DEF Underway
    <3> QED
      BY <1>6, <2>2, <3>2, <3>5 DEF Sound, Unhurt, Quiet
  <2>3. CASE y = x /\ x \in hurt
    BY <1>6, <2>3 DEF Sound
  <2> QED
    BY <2>1, <2>2, <2>3
<1>11. ASSUME "salt" \notin hurt' PROVE OneSalt'
  <2>0. OneSalt
    BY <1>6, <1>11 DEF DamageInv
  <2>1. \A n : Uses(p, n)' => Uses(p, n)
    BY <1>4, <1>5 DEF Uses
  <2>2. \A n : \A g \in {Contacts, Received} : LockedWith(g, n)' => LockedWith(g, n)
    <3>1. Empty \notin Cipher
      BY WrittenAssumption
    <3>2. \A g \in {Contacts, Received} : files'[g] = files[g] \/ files'[g] = Empty
      BY <1>6, FileNames
    <3> QED
      BY <3>1, <3>2 DEF LockedWith
  <2>3. CASE x # "salt"
    <3>1. \A n : Uses(p, n)' => Salted(n)
      BY <2>0, <2>1 DEF OneSalt
    <3> QED
      BY <1>8, <2>0, <2>2, <2>3, <3>1, OneSaltStays, StoreNames
  <2>4. CASE x = "salt"
    <3>1. ASSUME NEW n, Salted(n) PROVE Salted(n)'
      <4>1. PICK a \in Process : Saving(a, "salt") /\ proc[a].todo[1][2] = n
        BY <1>7, <2>4, <3>1 DEF Salted, Quiet
      <4>2. Saving(a, "salt")' /\ proc'[a].todo[1][2] = n
        BY <1>0, <1>4, <1>5, <1>7, <2>4, <4>1, OthersSave DEF OnlyActs
      <4> QED
        BY <4>2 DEF Salted
    <3>2. ASSUME NEW n, NEW a \in Process, Uses(a, n)' PROVE Uses(a, n)
      BY <1>0, <2>1, <3>2 DEF OnlyActs, Uses
    <3> QED
      BY <2>0, <2>2, <3>1, <3>2 DEF OneSalt
  <2> QED
    BY <2>3, <2>4
<1>12. Keyed'
  <2>1. \A g \in File : There(g) \/ g = f <=> There(g)'
    BY <1>6, WrittenAssumption, VaultAssumption DEF There
  <2>2. x \in {"contacts", "received"} => There(Key)
    <3>1. Rest(x, proc[p], pc[p])
      BY <1>7, SavingIs DEF DamageInv, Shaped
    <3> QED
      BY <3>1 DEF Rest, DamageInv, Keyed
  <2>3. f \in {Contacts, Received} => There(Key)
    BY <1>2, <2>2, StoreOfIs, StoreFiles, StoreNames
  <2>4. There(Key) => There(Key)'
    BY <2>1, FileNames
  <2>5. /\ pc'[p] = "salt" /\ Len(proc'[p].todo) < 2 => There(Key)
        /\ pc'[p] \in {"load", "work"} => There(Key)
    BY <1>4, <1>5 DEF DamageInv, Keyed
  <2>6. /\ There(Contacts)' => There(Contacts) \/ There(Key)'
        /\ There(Received)' => There(Received) \/ There(Key)'
    BY <2>1, <2>3, <2>4, FileNames
  <2> QED
    BY <1>0, <2>4, <2>5, <2>6, KeyedStays DEF DamageInv
<1> QED
  BY <1>9, <1>10, <1>11, <1>12 DEF DamageInv

----------------------------------------------------------------------------
(* And filled.                                                             *)

\* What a write brings is neither nothing nor a mixture.
LEMMA ContentIsSomething ==
  ASSUME NEW f \in File, NEW v \in Good(f)
  PROVE  v \notin {None, Empty, Mixed}
<1>1. Good(f) \subseteq Nat \union Cipher \union Meta
  BY GoodIsContent DEF Content
<1> QED
  BY <1>1, WrittenAssumption

\* p fills f, of the store x, with v; its next job is `job`.
Fills(p, f, x, v, job) ==
  /\ Step(p) /\ OnlyActs(p) /\ x = StoreOf(f) /\ v \in Good(f)
  /\ proc[p].todo # <<>> /\ proc[p].todo[1][1] = f /\ proc[p].todo[1][2] = v /\ proc[p].opened
  /\ job = proc'[p] /\ job.todo = Tail(proc[p].todo) /\ job.fkey = proc[p].fkey /\ ~job.opened
  /\ pc'[p] = pc[p] /\ UNCHANGED hurt
  /\ files'[f] = v \/ (files[f] # Empty /\ files'[f] = Mixed /\ f # Salt)
  /\ \A g \in File \ {f} : files'[g] = files[g]
  /\ Saving(p, x) /\ Rest(x, proc[p], pc[p])

LEMMA FillFills ==
  ASSUME IInv, DamageInv, NEW p \in Process, Fill(p)
  PROVE  \E f \in File, x \in DOMAIN Store : \E v, job : Fills(p, f, x, v, job)
<1>1. Step(p) /\ OnlyActs(p) /\ proc[p].todo # <<>> /\ proc[p].opened
  BY StepIsOne DEF Step, Fill, IInv, ProcsOK
<1>2. PICK f \in File : f = proc[p].todo[1][1]
  BY <1>1, NextWrite
<1>3. PICK v \in Good(f) : v = proc[p].todo[1][2]
  BY <1>1, <1>2, NextWrite
<1>4. PICK x \in DOMAIN Store : x = StoreOf(f)
  BY StoreOfIs
<1>5. PICK job : job = proc'[p]
  OBVIOUS
<1>6. /\ job.todo = Tail(proc[p].todo) /\ job.fkey = proc[p].fkey /\ ~job.opened
      /\ pc'[p] = pc[p] /\ UNCHANGED hurt
  BY <1>5, JobIs DEF Fill, JobOK, Jobs
<1>7. files' = [files EXCEPT ![f] = v] \/ (files[f] # Empty /\ files' = [files EXCEPT ![f] = Mixed]
                                           /\ f # Salt)
  BY <1>2, <1>3 DEF Fill, Growing, Salt, Contacts, Index, Received, ReceivedMeta
<1>8. DOMAIN files = File
  BY DEF IInv, FilesOK
<1>9. /\ files'[f] = v \/ (files[f] # Empty /\ files'[f] = Mixed /\ f # Salt)
      /\ \A g \in File \ {f} : files'[g] = files[g]
  BY <1>7, <1>8
<1>10. Saving(p, x)
  BY <1>1, <1>2, <1>4 DEF Saving
<1>11. Rest(x, proc[p], pc[p])
  BY <1>10, SavingIs DEF DamageInv, Shaped
<1> QED
  BY <1>1, <1>2, <1>3, <1>4, <1>5, <1>6, <1>9, <1>10, <1>11 DEF Fills

LEMMA ShortTail ==
  ASSUME NEW S, NEW s \in Seq(S)
  PROVE  /\ Len(s) = 2 => Len(Tail(s)) = 1 /\ Tail(s) # <<>> /\ Tail(s)[1] = s[2]
         /\ Len(s) = 1 => Tail(s) = <<>>
<1>1. CASE s = <<>>
  BY <1>1, EmptySeq
<1>2. CASE s # <<>>
  <2>1. /\ Tail(s) \in Seq(S) /\ Len(Tail(s)) = Len(s) - 1 /\ Len(s) \in Nat
        /\ \A i \in 1 .. Len(Tail(s)) : Tail(s)[i] = s[i + 1]
    BY <1>2, HeadTailProperties, LenProperties
  <2>2. PICK t \in Seq(S) : t = Tail(s)
    BY <2>1
  <2>3. Len(t) = Len(s) - 1 /\ \A i \in 1 .. Len(t) : t[i] = s[i + 1]
    BY <2>1, <2>2
  <2> HIDE <2>2
  <2>4. t # <<>> => Len(t) \in Nat \ {0}
    BY EmptySeq
  <2>5. Len(s) = 1 => t = <<>>
    BY <2>3, <2>4
  <2>6. Len(s) = 2 => Len(t) = 1 /\ t # <<>>
    BY <2>3, EmptySeq
  <2>7. Len(s) = 2 => t[1] = s[2]
    BY <2>3, <2>6
  <2> QED
    BY <2>2, <2>5, <2>6, <2>7
<1> QED
  BY <1>1, <1>2

\* Either the second file of the pair is next, or nothing.
LEMMA FillGoesOn ==
  ASSUME IInv, NEW p \in Process, NEW f \in File, NEW x \in DOMAIN Store, NEW v, NEW job,
         Fills(p, f, x, v, job)
  PROVE  \/ /\ f = First[x] /\ x \in Pair /\ Len(proc[p].todo) = 2
            /\ Len(job.todo) = 1 /\ job.todo # <<>> /\ job.todo[1] = proc[p].todo[2]
            /\ job.todo[1][1] = Second[x] /\ Fits(x, v, job.todo[1][2])
            /\ \A y : Saving(p, y)' <=> y = x
         \/ /\ f = Second[x] /\ Len(proc[p].todo) = 1 /\ job.todo = <<>>
            /\ \A y : ~Saving(p, y)'
<1>1. proc[p].todo \in Seq(Writes) /\ Rest(x, proc[p], pc[p]) /\ job.todo = Tail(proc[p].todo)
  BY JobIs DEF JobOK, Fills
<1>2. CASE Len(proc[p].todo) = 2
  <2>1. Len(job.todo) = 1 /\ job.todo # <<>> /\ job.todo[1] = proc[p].todo[2]
    BY <1>1, <1>2, ShortTail
  <2>2. /\ f = First[x] /\ x \in Pair /\ job.todo[1][1] = Second[x]
        /\ Fits(x, v, job.todo[1][2])
    BY <1>1, <1>2, <2>1 DEF Rest, Fills
  <2>3. \A y : Saving(p, y)' <=> y = x
    <3>1. StoreOf(job.todo[1][1]) = x /\ job = proc'[p]
      BY <2>2, StoreOfIs DEF Fills
    <3>2. \A y : Writing(job.todo, y) <=> y = x
      BY <2>1, <3>1 DEF Writing
    <3> QED
      BY <3>1, <3>2, SavingIs
  <2> QED
    BY <1>2, <2>1, <2>2, <2>3
<1>3. CASE Len(proc[p].todo) = 1
  <2>1. job.todo = <<>> /\ f = Second[x]
    BY <1>1, <1>3, ShortTail DEF Rest, Fills
  <2>2. \A y : ~Saving(p, y)'
    BY <2>1, SavingIs DEF Fills, Writing
  <2> QED
    BY <1>3, <2>1, <2>2
<1> QED
  BY <1>1, <1>2, <1>3 DEF Rest

LEMMA FillLeaves ==
  ASSUME IInv, NEW p \in Process, NEW f \in File, NEW x \in DOMAIN Store, NEW v, NEW job,
         Fills(p, f, x, v, job), NEW y \in DOMAIN Store \ {x}
  PROVE  Leaves(p, y)
<1>1. f \notin {First[y], Second[y]} /\ First[y] \in File /\ Second[y] \in File
  BY StoreOfIs, FirstOrSecond, Disjoint DEF Fills
<1>2. ~Saving(p, y) /\ ~Saving(p, y)'
  <2>1. x # y /\ StoreOf(f) = x /\ proc[p].todo # <<>> /\ proc[p].todo[1][1] = f
    BY DEF Fills
  <2>2. ~Saving(p, y)
    BY <2>1 DEF Saving
  <2>3. (\A z : Saving(p, z)' <=> z = x) \/ (\A z : ~Saving(p, z)')
    BY FillGoesOn
  <2> QED
    BY <2>1, <2>2, <2>3
<1> QED
  BY <1>1, <1>2 DEF Leaves, Fills

LEMMA FillSound ==
  ASSUME IInv, DamageInv, NEW p \in Process, NEW f \in File, NEW x \in DOMAIN Store, NEW v, NEW job,
         Fills(p, f, x, v, job)
  PROVE  Sound(x)'
<1>1. CASE x \in hurt
  BY <1>1 DEF Fills, Sound
<1>2. CASE x \notin hurt
  <2>1. Unhurt(x) /\ Underway(p, x) /\ OnlyActs(p)
    BY <1>2 DEF Fills, DamageInv, Sound, Unhurt
  <2>2. files'[f] = v
    BY <2>1 DEF Fills, Underway
  <2>3. \A a \in Process \ {p} : ~Saving(a, x)'
    BY <2>1, OthersSave DEF Fills, Unhurt
  <2>4. CASE /\ f = First[x] /\ x \in Pair /\ Len(job.todo) = 1 /\ Fits(x, v, job.todo[1][2])
             /\ Saving(p, x)'
    <3>1. Underway(p, x)'
      BY <2>2, <2>4 DEF Fills, Underway, Pair
    <3> QED
      BY <2>3, <2>4, <3>1 DEF Sound, Unhurt, Quiet
  <2>5. CASE f = Second[x] /\ Len(proc[p].todo) = 1 /\ ~Saving(p, x)'
    <3>1. Fits(x, files'[First[x]], files'[Second[x]])
      <4>1. CASE x \in Pair
        <5>1. First[x] # f /\ First[x] \in File /\ Fits(x, files[First[x]], v)
          BY <2>1, <2>5, <4>1, FirstOrSecond DEF Underway, Fills
        <5> QED
          BY <2>2, <2>5, <5>1 DEF Fills
      <4>2. CASE x \notin Pair
        <5>1. First[x] = f /\ v \in Nat /\ x \notin {"identity", "contacts", "received"}
          BY <2>5, <4>2, FirstOrSecond, StoreNames, StoreFiles
             DEF Fills, Pair, Good, Key, Salt, Contacts, Index, Received, ReceivedMeta
        <5> QED
          BY <2>2, <2>5, <5>1 DEF Fits
      <4> QED
        BY <4>1, <4>2
    <3> QED
      BY <2>3, <2>5, <3>1 DEF Sound, Unhurt, Quiet
  <2> QED
    BY <2>4, <2>5, FillGoesOn
<1> QED
  BY <1>1, <1>2

LEMMA FillOneSalt ==
  ASSUME IInv, DamageInv, NEW p \in Process, NEW f \in File, NEW x \in DOMAIN Store, NEW v, NEW job,
         Fills(p, f, x, v, job), "salt" \notin hurt
  PROVE  OneSalt'
<1>0. OneSalt /\ Sound("salt")
  BY StoreNames DEF DamageInv
<1>1. \A n : Uses(p, n)' => Uses(p, n)
  BY DEF Uses, Fills
<1>2. CASE x # "salt"
  <2>1. ASSUME NEW n, NEW g \in {Contacts, Received}, LockedWith(g, n)'
        PROVE  LockedWith(g, n) \/ Salted(n)
    <3>1. CASE g # f
      BY <2>1, <3>1, FileNames DEF Fills, LockedWith
    <3>2. CASE g = f
      <4>1. files'[f] = v /\ v.key[2] = n
        BY <2>1, <3>2, WrittenAssumption DEF Fills, LockedWith
      <4>2. x \in {"contacts", "received"} /\ f = First[x] /\ x \in Pair
        BY <3>2, StoreOfIs, StoreFiles, StoreNames DEF Fills, Pair
      <4>3. v.key = proc[p].fkey /\ pc[p] = "work"
        <5>1. First[x] # Second[x]
          BY <4>2, FirstOrSecond
        <5>2. Len(proc[p].todo) = 2
          BY <4>2, <5>1, FillGoesOn
        <5>3. Rest(x, proc[p], pc[p]) /\ proc[p].todo[1][2] = v
          BY DEF Fills
        <5> QED
          BY <4>2, <5>2, <5>3 DEF Rest
      <4>4. Uses(p, n)
        BY <4>1, <4>3 DEF Uses
      <4> QED
        BY <1>0, <4>4 DEF OneSalt
    <3> QED
      BY <3>1, <3>2
  <2>2. \A n : Uses(p, n)' => Salted(n)
    BY <1>0, <1>1 DEF OneSalt
  <2>3. Leaves(p, "salt")
    BY <1>2, FillLeaves, StoreNames
  <2> QED
    BY <1>0, <2>1, <2>2, <2>3, OneSaltStays
<1>3. CASE x = "salt"
  <2>1. f = Salt /\ x \notin Pair /\ OnlyActs(p)
    <3>1. f = Salt
      <4>1. f \in File /\ StoreOf(f) = "salt"
        BY <1>3 DEF Fills
      <4>2. f = First["salt"] \/ f = Second["salt"]
        BY <4>1, StoreOfIs
      <4> QED
        BY <4>2, StoreFiles
    <3> QED
      BY <1>3, <3>1 DEF Fills, Pair
  <2>2. files'[Salt] = v
    BY <2>1 DEF Fills
  <2>3. \A a \in Process : Saving(a, "salt") <=> a = p
    BY <1>0, <1>3 DEF Sound, Unhurt, Fills
  <2>4. Quiet("salt")'
    BY <2>1, <2>3, FillGoesOn, OthersSave DEF Quiet
  <2>5. ASSUME NEW n, Salted(n) PROVE Salted(n)'
    <3>1. n = v
      BY <2>3, <2>5 DEF Salted, Quiet, Fills
    <3> QED
      BY <2>2, <2>4, <3>1 DEF Salted
  <2>6. ASSUME NEW n, NEW a \in Process, Uses(a, n)' PROVE Uses(a, n)
    BY <1>1, <2>1, <2>6 DEF OnlyActs, Uses
  <2>7. ASSUME NEW n, NEW g \in {Contacts, Received}, LockedWith(g, n)' PROVE LockedWith(g, n)
    <3>1. files'[g] = files[g]
      BY <2>1, FileNames DEF Fills, Salt, Contacts, Received
    <3> QED
      BY <2>7, <3>1 DEF LockedWith
  <2> QED
    BY <1>0, <2>5, <2>6, <2>7 DEF OneSalt
<1> QED
  BY <1>2, <1>3

LEMMA FillKeyed ==
  ASSUME IInv, DamageInv, NEW p \in Process, NEW f \in File, NEW x \in DOMAIN Store, NEW v, NEW job,
         Fills(p, f, x, v, job)
  PROVE  Keyed'
<1>0. Keyed /\ OnlyActs(p) /\ Rest(x, proc[p], pc[p])
  BY DEF DamageInv, Fills
<1>1. \A g \in File : There(g)' <=> There(g) \/ g = f
  <2>1. v # None /\ Mixed # None
    BY ContentIsSomething, VaultAssumption DEF Fills
  <2> QED
    BY <2>1 DEF There, Fills
<1>2. f \in {Contacts, Received} => There(Key)
  <2>1. f \in {Contacts, Received} => x \in {"contacts", "received"}
    BY StoreOfIs, StoreFiles, StoreNames DEF Fills
  <2> QED
    BY <1>0, <2>1 DEF Rest, Keyed
<1>3. There(Key) => There(Key)'
  BY <1>1, FileNames
<1>4. pc'[p] \in {"load", "work"} => There(Key)
  BY <1>0 DEF Fills, Keyed
<1>5. ASSUME pc'[p] = "salt" PROVE There(Key)'
  <2>1. CASE Len(proc[p].todo) = 2
    <3>1. f = First[x] /\ x \in Pair /\ x \notin {"contacts", "received"}
      BY <1>0, <1>5, <2>1 DEF Rest, Fills
    <3> QED
      BY <1>1, <3>1, FileNames, StoreFiles DEF Pair
  <2>2. CASE Len(proc[p].todo) = 1
    <3>1. pc[p] = "salt" /\ Len(proc[p].todo) < 2
      BY <1>5, <2>2 DEF Fills
    <3> QED
      BY <1>0, <1>3, <3>1 DEF Keyed
  <2> QED
    BY <2>1, <2>2, FillGoesOn
<1>6. /\ There(Contacts)' => There(Contacts) \/ There(Key)'
      /\ There(Received)' => There(Received) \/ There(Key)'
  BY <1>1, <1>2, <1>3, FileNames
<1> QED
  BY <1>0, <1>3, <1>4, <1>5, <1>6, KeyedStays

LEMMA FillKeeps ==
  ASSUME IInv, DamageInv, NEW p \in Process, Fill(p)
  PROVE  DamageInv'
<1>1. PICK f \in File, x \in DOMAIN Store : \E v, job : Fills(p, f, x, v, job)
  BY FillFills
<1>2. PICK v, job : Fills(p, f, x, v, job)
  BY <1>1
<1>3. \A a \in Process : Shaped(proc[a], pc[a])'
  <2>1. PICK where : where = pc'[p]
    OBVIOUS
  <2>2. where = pc[p] /\ Rest(x, proc[p], pc[p]) /\ job = proc'[p] /\ OnlyActs(p)
    BY <1>2, <2>1 DEF Fills
  <2>3. \A y : Saving(p, y)' <=> Writing(job.todo, y)
    BY <2>2, SavingIs
  <2>4. Shaped(job, where)
    BY <1>2, <2>2, <2>3, FillGoesOn DEF Shaped, Rest
  <2> QED
    BY <2>1, <2>2, <2>4, ShapedStays DEF DamageInv
<1>4. ASSUME NEW y \in DOMAIN Store PROVE Sound(y)'
  <2>1. CASE y = x
    BY <1>2, <2>1, FillSound
  <2>2. CASE y # x
    <3>1. Leaves(p, y)
      BY <1>2, <2>2, FillLeaves
    <3> QED
      BY <1>2, <3>1, SoundStays DEF DamageInv, Fills
  <2> QED
    BY <2>1, <2>2
<1>5. "salt" \notin hurt' => OneSalt'
  BY <1>2, FillOneSalt DEF Fills
<1>6. Keyed'
  BY <1>2, FillKeyed
<1> QED
  BY <1>3, <1>4, <1>5, <1>6 DEF DamageInv

----------------------------------------------------------------------------
(* The damage invariant holds, and what follows from it.                   *)

LEMMA DamageInit == Init => DamageInv
<1> SUFFICES ASSUME Init PROVE DamageInv
  OBVIOUS
<1>1. \A a \in Process : pc[a] = "idle" /\ proc[a].todo = <<>>
  BY DEF Init, NoProc
<1>2. \A f \in File : files[f] = None
  BY DEF Init
<1>3. \A a \in Process : \A y : ~Saving(a, y)
  BY <1>1 DEF Saving
<1>4. \A a \in Process : Shaped(proc[a], pc[a])
  BY <1>1 DEF Shaped, Writing
<1>5. \A y \in DOMAIN Store : Sound(y)
  BY <1>2, <1>3, FirstOrSecond DEF Sound, Unhurt
<1>6. OneSalt
  BY <1>1, <1>2, FileNames, WrittenAssumption DEF OneSalt, Uses, LockedWith
<1>7. Keyed
  BY <1>1, <1>2, FileNames DEF Keyed, There
<1> QED
  BY <1>4, <1>5, <1>6, <1>7 DEF DamageInv

LEMMA DamageStutters ==
  ASSUME DamageInv, UNCHANGED vars
  PROVE  DamageInv'
<1>1. /\ files' = files /\ pc' = pc /\ proc' = proc /\ hurt' = hurt
  BY DEF vars
<1>2. \A a, y : Saving(a, y)' <=> Saving(a, y)
  BY <1>1 DEF Saving
<1>3. \A a \in Process : Shaped(proc[a], pc[a])'
  BY <1>1 DEF DamageInv
<1>4. ASSUME NEW y \in DOMAIN Store PROVE Sound(y)'
  <2>1. \A a \in Process : Underway(a, y)' <=> Underway(a, y)
    BY <1>1 DEF Underway
  <2>2. Sound(y)
    BY DEF DamageInv
  <2> QED
    BY <1>1, <1>2, <2>1, <2>2 DEF Sound, Unhurt, Quiet
<1>5. "salt" \notin hurt' => OneSalt'
  <2>1. \A n : Salted(n)' <=> Salted(n)
    BY <1>1, <1>2 DEF Salted, Quiet
  <2>2. \A n, a, f : (Uses(a, n)' <=> Uses(a, n)) /\ (LockedWith(f, n)' <=> LockedWith(f, n))
    BY <1>1 DEF Uses, LockedWith
  <2> QED
    BY <1>1, <2>1, <2>2 DEF DamageInv, OneSalt
<1>6. Keyed'
  BY <1>1 DEF DamageInv, Keyed, There
<1> QED
  BY <1>3, <1>4, <1>5, <1>6 DEF DamageInv

LEMMA DamageInductive == IInv /\ DamageInv /\ [Next]_vars => DamageInv'
<1> SUFFICES ASSUME IInv, DamageInv, [Next]_vars PROVE DamageInv'
  OBVIOUS
<1>1. ASSUME NEW p \in Process, Step(p) PROVE DamageInv'
  <2>1. CASE Open(p)
    BY <2>1, OpenKeeps
  <2>2. CASE Fill(p)
    BY <2>2, FillKeeps
  <2>3. CASE Start(p)
    <3>1. proc[p].todo = <<>>
      BY <2>3 DEF Start, IInv, ProcsOK
    <3> QED
      BY <2>3, <3>1, StartKeeps
  <2>4. CASE Unlock(p)
    BY <2>4, UnlockKeeps, CreateKeeps
  <2>5. CASE DeriveFileKey(p)
    BY <2>5, DeriveKeeps, FirstSaltKeeps
  <2>6. CASE LoadStores(p)
    BY <2>6, LoadKeeps
  <2>7. CASE SaveContacts(p) \/ SaveIndex(p) \/ SaveReceived(p) \/ Rotate(p)
    BY <2>7, WorkKeeps
  <2>8. CASE End(p)
    BY <2>8, EndKeeps
  <2> QED
    BY <1>1, <2>1, <2>2, <2>3, <2>4, <2>5, <2>6, <2>7, <2>8 DEF Step
<1>2. CASE UNCHANGED vars
  BY <1>2, DamageStutters
<1> QED
  BY <1>1, <1>2 DEF Next

\* What is in the files of an unhurt store that nobody is saving.
LEMMA AtRest ==
  ASSUME DamageInv, NEW x \in DOMAIN Store, x \notin hurt, Quiet(x)
  PROVE  files[First[x]] = None \/ Fits(x, files[First[x]], files[Second[x]])
  BY DEF DamageInv, Sound, Unhurt

LEMMA WholeIs ==
  ASSUME NEW f, files[f] \in Nat \union Cipher \union Meta
  PROVE  Whole(f)
  BY WrittenAssumption DEF Whole

\* The stores that need no other one: the identity, the salt and the share index.
Confined(x) == Quiet(x) => x \in hurt \/ Intact(x)

LEMMA OwnDamage ==
  ASSUME DamageInv
  PROVE  Confined("identity") /\ Confined("salt") /\ Confined("index")
<1>1. ASSUME Quiet("identity"), "identity" \notin hurt PROVE Intact("identity")
  <2>1. files[Key] = None \/ Fits("identity", files[Key], files[KeyMeta])
    BY <1>1, AtRest, StoreNames, StoreFiles
  <2>2. ASSUME Fits("identity", files[Key], files[KeyMeta])
        PROVE  Whole(Key) /\ \E pw \in Password : Unlocks(pw)
    BY <2>2, WholeIs DEF Fits, Unlocks
  <2> QED
    BY <2>1, <2>2 DEF Intact, There
<1>2. ASSUME Quiet("salt"), "salt" \notin hurt PROVE Intact("salt")
  <2>1. files[Salt] = None \/ Fits("salt", files[Salt], files[Salt])
    BY <1>2, AtRest, StoreNames, StoreFiles
  <2>2. ASSUME Fits("salt", files[Salt], files[Salt]) PROVE Whole(Salt)
    BY <2>2, WholeIs DEF Fits
  <2> QED
    BY <2>1, <2>2 DEF Intact, There
<1>3. ASSUME Quiet("index"), "index" \notin hurt PROVE Intact("index")
  <2>1. files[Index] = None \/ Fits("index", files[Index], files[Index])
    BY <1>3, AtRest, StoreNames, StoreFiles
  <2>2. ASSUME Fits("index", files[Index], files[Index]) PROVE Whole(Index)
    BY <2>2, WholeIs DEF Fits
  <2> QED
    BY <2>1, <2>2 DEF Intact, There, IndexLoads
<1> QED
  BY <1>1, <1>2, <1>3 DEF Confined

\* The file f can be opened under some password of those ever used, and the salt of
\* the directory, with the nonce n.
OpensWithSalt(f, n) == \E pw \in Password : Opens(files[f], Derive(pw, files[Salt]), n)

ContactsLocked ==
  There(Contacts) =>
    Whole(ContactsMeta) /\ Whole(Contacts) /\ OpensWithSalt(Contacts, files[ContactsMeta])

ReceivedLocked ==
  There(Received) =>
    /\ Whole(ReceivedMeta) /\ Whole(Received)
    /\ OpensWithSalt(Received, files[ReceivedMeta].nonce)

\* What is locked is locked with the one salt there is.
LEMMA LockedUnder ==
  ASSUME DamageInv, "salt" \notin hurt, Quiet("salt"), NEW f \in {Contacts, Received},
         files[f] \in Cipher
  PROVE  \E pw \in Password : files[f].key = Derive(pw, files[Salt])
<1>1. PICK pw \in Password, n \in Nat : files[f].key = <<pw, n>>
  BY DEF Cipher
<1>2. LockedWith(f, n)
  BY <1>1 DEF LockedWith
<1>3. files[Salt] = n
  BY <1>2 DEF DamageInv, OneSalt, Salted, Quiet
<1> QED
  BY <1>1, <1>3 DEF Derive

LEMMA LockedStores ==
  ASSUME DamageInv, "salt" \notin hurt, Quiet("salt")
  PROVE  /\ Quiet("contacts") => "contacts" \in hurt \/ ContactsLocked
         /\ Quiet("received") => "received" \in hurt \/ ReceivedLocked
<1>1. ASSUME Quiet("contacts"), "contacts" \notin hurt PROVE ContactsLocked
  <2>1. files[Contacts] = None \/ Fits("contacts", files[Contacts], files[ContactsMeta])
    BY <1>1, AtRest, StoreNames, StoreFiles
  <2>2. ASSUME Fits("contacts", files[Contacts], files[ContactsMeta])
        PROVE  Whole(ContactsMeta) /\ Whole(Contacts) /\ OpensWithSalt(Contacts, files[ContactsMeta])
    BY <2>2, WholeIs, LockedUnder DEF Fits, OpensWithSalt, Opens
  <2> QED
    BY <2>1, <2>2 DEF ContactsLocked, There
<1>2. ASSUME Quiet("received"), "received" \notin hurt PROVE ReceivedLocked
  <2>1. files[Received] = None \/ Fits("received", files[Received], files[ReceivedMeta])
    BY <1>2, AtRest, StoreNames, StoreFiles
  <2>2. ASSUME Fits("received", files[Received], files[ReceivedMeta])
        PROVE  /\ Whole(ReceivedMeta) /\ Whole(Received)
               /\ OpensWithSalt(Received, files[ReceivedMeta].nonce)
    BY <2>2, WholeIs, LockedUnder DEF Fits, OpensWithSalt, Opens
  <2> QED
    BY <2>1, <2>2 DEF ReceivedLocked, There
<1> QED
  BY <1>1, <1>2

\* With one password, the one the identity has is the one everything is locked with.
LEMMA OnlyPassword ==
  ASSUME \A a, b \in Password : a = b, DamageInv,
         "identity" \notin hurt, Quiet("identity"), NEW pw \in Password,
         There(Contacts) \/ There(Received)
  PROVE  CurrentKey = Derive(pw, files[Salt])
<1>1. There(Key)
  BY DEF DamageInv, Keyed
<1>2. Fits("identity", files[Key], files[KeyMeta])
  BY <1>1, AtRest, StoreNames, StoreFiles DEF There
<1>3. files[Key].key[1] \in Password
  BY <1>2 DEF Fits, Derive
<1> QED
  BY <1>3 DEF CurrentKey

LEMMA ConfinedFollows ==
  ASSUME \A a, b \in Password : a = b, DamageInv
  PROVE  DamageConfined
<1> SUFFICES ASSUME NEW x \in DOMAIN Store, \A p \in Process, y \in Needs(x) : ~Saving(p, y),
                    Needs(x) \intersect hurt = {}
             PROVE  Intact(x)
  BY DEF DamageConfined
<1>1. CASE x \in {"identity", "salt", "index"}
  <2>1. Quiet(x) /\ x \notin hurt
    BY <1>1 DEF Needs, Quiet
  <2> QED
    BY <1>1, <2>1, OwnDamage DEF Confined
<1>2. CASE x \in {"contacts", "received"}
  <2>1. /\ Quiet(x) /\ Quiet("salt") /\ Quiet("identity")
        /\ x \notin hurt /\ "salt" \notin hurt /\ "identity" \notin hurt
    BY <1>2 DEF Needs, Quiet
  <2>2. CASE x = "contacts"
    <3>1. ContactsLocked
      BY <2>1, <2>2, LockedStores
    <3>2. ContactsLoad(CurrentKey)
      BY <2>1, <3>1, OnlyPassword DEF ContactsLocked, ContactsLoad, OpensWithSalt
    <3> QED
      BY <2>2, <3>2 DEF Intact
  <2>3. CASE x = "received"
    <3>1. ReceivedLocked
      BY <2>1, <2>3, LockedStores
    <3>2. There(Received) =>
            /\ Whole(ReceivedMeta) /\ Whole(Received)
            /\ Opens(files[Received], CurrentKey, files[ReceivedMeta].nonce)
      BY <2>1, <3>1, OnlyPassword DEF ReceivedLocked, OpensWithSalt
    <3> QED
      BY <2>3, <3>2 DEF Intact
  <2> QED
    BY <1>2, <2>2, <2>3
<1> QED
  BY <1>1, <1>2, StoreNames

LEMMA DamageInvariant == Spec => []DamageInv
  BY Invariant, DamageInit, DamageInductive, PTL DEF Spec

\* With one password, damage is confined: a store that cannot be opened had a save cut
\* short or overlapped by another, or the salt or the identity it is locked with had
\* (App.load_stores, Identity.save and the stores' _save).  With two passwords it is
\* not so: rotate-key leaves the stores locked under the old one.
THEOREM DamageStaysConfined ==
  ASSUME \A a, b \in Password : a = b
  PROVE  Spec => []DamageConfined
<1>1. DamageInv => DamageConfined
  BY ConfinedFollows
<1> QED
  BY <1>1, DamageInvariant, PTL

\* Everything can be read that no save of its own damaged, under some password.
ReadableUnderSome ==
  /\ Confined("identity") /\ Confined("salt") /\ Confined("index")
  /\ Quiet("salt") /\ Quiet("contacts") /\ {"salt", "contacts"} \intersect hurt = {}
       => ContactsLocked
  /\ Quiet("salt") /\ Quiet("received") /\ {"salt", "received"} \intersect hurt = {}
       => ReceivedLocked

\* Whatever the passwords, and however processes overlap or die: the identity, the salt
\* and the share index can be read unless a save of that very store was cut short or
\* overlapped; and the contacts and the received files are still whole, and open under
\* the salt of the directory and some password, unless a save of them or of the salt was.
\* So what a rotation under another password takes from the user is the password alone.
THEOREM OnlyThePasswordIsLost == Spec => []ReadableUnderSome
<1>1. DamageInv => ReadableUnderSome
  BY OwnDamage, LockedStores DEF ReadableUnderSome
<1> QED
  BY <1>1, DamageInvariant, PTL
=============================================================================
