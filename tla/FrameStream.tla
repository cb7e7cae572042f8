---------------------------- MODULE FrameStream ----------------------------
(***************************************************************************)
(* One direction of a connection, byte by byte: send_frame puts a length   *)
(* before each envelope and hands both to sendall, the connection delivers *)
(* the bytes in whatever pieces it likes, and recv_frame puts the frames   *)
(* together again (_recv_exact).  Either end may go away at any byte.      *)
(***************************************************************************)
EXTENDS Integers, Sequences

CONSTANTS
  Body,       \* serialised envelopes: sequences of bytes
  MaxFrame,   \* MAX_FRAME, 4194304 bytes
  MaxSends    \* bound: frames sent

ASSUME FrameAssumption ==
  /\ Body \subseteq Seq(0..255) /\ <<>> \notin Body
  /\ MaxFrame \in Nat \ {0} /\ MaxFrame <= 2147483647 /\ MaxSends \in Nat

VARIABLES
  line,      \* every byte handed to sendall so far
  written,   \* how many of them sendall has written
  sender,    \* the sending end: open or closed
  taken,     \* how many of them sock.recv has returned
  rpc,       \* recv_frame: reading the header, the body, or ended
  want,      \* the argument n of _recv_exact
  have,      \* len(buf): the last bytes taken
  got,       \* frames recv_frame has returned
  sent, starts   \* history: frames sent, and where in `line` each begins

sendVars == <<line, written, sender, sent, starts>>
recvVars == <<taken, rpc, want, have, got>>
vars == <<line, written, sender, taken, rpc, want, have, got, sent, starts>>

\* Mutant: the length counts a newline that is not sent.
PackLine(n) ==
  <<(n + 1) \div 16777216, ((n + 1) \div 65536) % 256, ((n + 1) \div 256) % 256, (n + 1) % 256>>

\* struct.pack("!I", n) and its inverse.
Pack(n) == <<n \div 16777216, (n \div 65536) % 256, (n \div 256) % 256, n % 256>>
Unpack(b) == 16777216 * b[1] + 65536 * b[2] + 256 * b[3] + b[4]

Init ==
  /\ line = <<>> /\ written = 0 /\ sender = "open"
  /\ taken = 0 /\ rpc = "header" /\ want = 4 /\ have = 0 /\ got = <<>>
  /\ sent = <<>> /\ starts = <<>>

----------------------------------------------------------------------------
(* send_frame.                                                             *)

Fits(n) == n <= MaxFrame

SendFrame(body) ==
  /\ sender = "open" /\ written = Len(line) /\ Len(sent) < MaxSends
  /\ Fits(Len(body))
  /\ line' = line \o Pack(Len(body)) \o body
  /\ sent' = Append(sent, body) /\ starts' = Append(starts, Len(line))
  /\ UNCHANGED <<written, sender, recvVars>>

\* ValueError: nothing is written, and the caller's `finally` closes the socket.
SendTooLarge(body) ==
  /\ sender = "open" /\ written = Len(line)
  /\ ~Fits(Len(body))
  /\ sender' = "closed"
  /\ UNCHANGED <<line, written, sent, starts, recvVars>>

\* sendall writes some more.
Write ==
  /\ sender = "open"
  /\ \E n \in (written + 1)..Len(line) : written' = n
  /\ UNCHANGED <<line, sender, sent, starts, recvVars>>

\* The sender closes the connection or dies, perhaps inside sendall.
Close ==
  /\ sender = "open"
  /\ sender' = "closed"
  /\ UNCHANGED <<line, written, sent, starts, recvVars>>

----------------------------------------------------------------------------
(* recv_frame.                                                             *)

Receiving == rpc \in {"header", "body"}

\* Mutant: sock.recv(n), whatever the buffer holds already.
AsksAll == want

\* sock.recv(n - len(buf)): how many bytes are asked for ...
Asks == want - have

\* ... and what may be returned: the connection has more or fewer of them.
Piece(n) == Receiving /\ n \in 1..Asks /\ taken + n <= written

\* buf, once the next n bytes are in it.
Buffer(n) == SubSeq(line, taken - have + 1, taken + n)

\* The loop of _recv_exact goes on.
RecvPart ==
  /\ \E n \in 1..(written - taken) :
       /\ Piece(n) /\ have + n # want
       /\ taken' = taken + n /\ have' = have + n
  /\ UNCHANGED <<rpc, want, got, sendVars>>

\* Mutant: a frame of exactly MAX_FRAME bytes is refused.
AcceptsBelow(n) == n < MaxFrame

\* length <= MAX_FRAME on receiving.
Accepts(n) == n <= MaxFrame

RecvHeader ==
  /\ rpc = "header"
  /\ \E n \in 1..(written - taken) :
       /\ Piece(n) /\ have + n = want
       /\ taken' = taken + n /\ have' = 0
       /\ LET length == Unpack(Buffer(n)) IN
            /\ want' = length
            /\ rpc' = IF Accepts(length) THEN "body" ELSE "too_large"
  /\ UNCHANGED <<got, sendVars>>

RecvBody ==
  /\ rpc = "body"
  /\ \E n \in 1..(written - taken) :
       /\ Piece(n) /\ have + n = want
       /\ taken' = taken + n
       /\ got' = Append(got, Buffer(n))
  /\ rpc' = "header" /\ want' = 4 /\ have' = 0
  /\ UNCHANGED sendVars

\* ConnectionError when the stream ends, perhaps without its last bytes, and
\* socket.timeout when nothing comes.
RecvFails ==
  /\ Receiving
  /\ taken = written \/ sender = "closed"
  /\ rpc' = "failed"
  /\ UNCHANGED <<taken, want, have, got, sendVars>>

Recv == RecvPart \/ RecvHeader \/ RecvBody \/ RecvFails

Next ==
  \/ \E body \in Body : SendFrame(body) \/ SendTooLarge(body)
  \/ Write \/ Close \/ Recv

Spec == Init /\ [][Next]_vars

\* sendall and recv are run by the operating system; recv has a timeout.
FairSpec == Spec /\ WF_vars(Write) /\ WF_vars(Recv)

----------------------------------------------------------------------------
(* Properties.                                                             *)

\* Type invariant: no more is taken than was written, nor than was asked for.
TypeOK ==
  /\ line \in Seq(0..255) /\ sender \in {"open", "closed"}
  /\ written \in 0..Len(line) /\ taken \in 0..written
  /\ rpc \in {"header", "body", "failed", "too_large"}
  /\ want \in Nat /\ have \in 0..taken
  /\ Receiving => have < want
  /\ got \in Seq(Body) /\ sent \in Seq(Body) /\ starts \in Seq(Nat)

\* Whatever pieces the bytes come in, recv_frame returns the frames that
\* send_frame was given, whole and in order, until the connection ends.
Queue == INSTANCE FrameQueue WITH
  queue <- IF Receiving THEN SubSeq(sent, Len(got) + 1, Len(sent)) ELSE <<>>,
  open <- Receiving

ImplementsQueue == Queue!Spec

\* A frame that send_frame let pass arrives unless the connection ends or falls
\* silent: the limits of both ends agree, and no byte is waited for in vain.
FrameArrives ==
  \A i \in 1..MaxSends : Len(sent) >= i ~> Len(got) >= i \/ rpc = "failed"
============================================================================
