----------------------------- MODULE FrameQueue -----------------------------
(***************************************************************************)
(* What send_frame and recv_frame promise together: whole frames, in the   *)
(* order they were sent, until the connection ends and takes the rest with *)
(* it.  FileSession takes its connections for this.                        *)
(***************************************************************************)
EXTENDS Sequences

CONSTANT Body   \* the serialised envelopes

VARIABLES
  queue,    \* frames sent and not yet received
  got,      \* frames received
  open

vars == <<queue, got, open>>

Init == queue = <<>> /\ got = <<>> /\ open = TRUE

Send ==
  /\ open
  /\ \E body \in Body : queue' = Append(queue, body)
  /\ UNCHANGED <<got, open>>

Receive ==
  /\ open /\ queue # <<>>
  /\ got' = Append(got, Head(queue)) /\ queue' = Tail(queue)
  /\ UNCHANGED open

Break == open /\ open' = FALSE /\ queue' = <<>> /\ UNCHANGED got

Next == Send \/ Receive \/ Break

Spec == Init /\ [][Next]_vars
=============================================================================
