------------------------------ MODULE Download ------------------------------
(***************************************************************************)
(* What request-file promises its user, whatever happens on the wire: a    *)
(* request is made once and answered once; if it succeeds, the requester's *)
(* store then holds the file that was asked for with exactly the content   *)
(* its owner published; if it does not, the store is as it was.            *)
(***************************************************************************)
CONSTANTS Request, Requester, RequesterOf, FileId, Published, None

VARIABLES status, wanted, store

vars == <<status, wanted, store>>

Init ==
  /\ status = [r \in Request |-> "idle"]
  /\ wanted = [r \in Request |-> None]
  /\ store = [c \in Requester |-> [f \in FileId |-> None]]

Ask(r) ==
  /\ status[r] = "idle"
  /\ \E f \in FileId : wanted' = [wanted EXCEPT ![r] = f]
  /\ \E answer \in {"pending", "failed"} : status' = [status EXCEPT ![r] = answer]
  /\ UNCHANGED store

Save(r) ==
  /\ status[r] = "pending"
  /\ status' = [status EXCEPT ![r] = "saved"]
  /\ store' = [store EXCEPT ![RequesterOf[r]][wanted[r]] = Published[wanted[r]]]
  /\ UNCHANGED wanted

Fail(r) ==
  /\ status[r] = "pending"
  /\ status' = [status EXCEPT ![r] = "failed"]
  /\ UNCHANGED <<wanted, store>>

Next == \E r \in Request : Ask(r) \/ Save(r) \/ Fail(r)

Spec == Init /\ [][Next]_vars
============================================================================
