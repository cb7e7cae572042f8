------------------------------ MODULE Standing ------------------------------
(***************************************************************************)
(* The record that each peer's key has, in the memory of `serve` and in    *)
(* contacts.json.enc, as long as handlers and commands come one at a time: *)
(* what ContactStore, used that way, implements.                           *)
(***************************************************************************)
CONSTANTS
  Peer,
  Successor   \* the key each rotated key is replaced by

VARIABLES
  view,     \* the records in memory; "off" when `serve` does not run
  kept,     \* those last written to disk, where a kill may leave them unreadable
  noticed,  \* keys whose KEY_ROTATE_NOTICE has come
  late      \* keys whose predecessor's notice came after their own

vars == <<view, kept, noticed, late>>

Record == {"unknown", "active", "revoked"}

Init ==
  /\ view = [p \in Peer |-> "off"]
  /\ kept \in [Peer -> {"unknown", "active"}]
  /\ noticed = {} /\ late = {}

\* CONTACT_REQUEST adds a key that has no record.
Learn(p) == view[p] = "unknown" /\ view'[p] = "active" /\ kept'[p] = kept[p]

\* Its own KEY_ROTATE_NOTICE revokes it,
Revoke(p) ==
  /\ p \in noticed' \ noticed
  /\ view[p] = "active" /\ view'[p] = "revoked" /\ kept'[p] = kept[p]

\* and only a notice that names it as the new key, and was late, takes that back.
Renew(p) ==
  p \in late /\ view[p] = "revoked" /\ view'[p] = "active" /\ kept'[p] = kept[p]

Save(p) == view[p] # "off" /\ kept'[p] = view[p] /\ view'[p] = view[p]

\* add-contact, while `serve` does not run.
Added(p) == kept'[p] = kept[p] \/ (kept[p] = "unknown" /\ kept'[p] = "active")
AddContact(p) == view[p] = "off" /\ Added(p) /\ view'[p] = "off"

\* `serve` starts with what is on disk by then.
Start(p) == view[p] = "off" /\ Added(p) /\ view'[p] = kept'[p]

\* It stops, or is killed, and what it had not saved is lost.
Stop(p) == view[p] # "off" /\ view'[p] = "off" /\ kept'[p] = kept[p]

\* Each record for itself: a save or a start is one of all of them.
Step(p) ==
  \/ Learn(p) \/ Revoke(p) \/ Renew(p) \/ Save(p) \/ AddContact(p) \/ Start(p) \/ Stop(p)
  \/ view'[p] = view[p] /\ kept'[p] = kept[p]

\* Each key's notice comes once.
Notice ==
  \/ UNCHANGED <<noticed, late>>
  \/ \E p \in DOMAIN Successor \ noticed :
       /\ noticed' = noticed \union {p}
       /\ late' = late \union ({Successor[p]} \intersect noticed)

Next ==
  /\ Notice
  /\ view' \in [Peer -> Record \union {"off"}] /\ kept' \in [Peer -> Record]
  /\ \A p \in Peer : Step(p)

Spec == Init /\ [][Next]_vars
=============================================================================
