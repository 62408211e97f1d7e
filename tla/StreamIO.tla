------------------------------ MODULE StreamIO ------------------------------
(***************************************************************************)
(* Strict reads (_i_fixsize) of messages out of a byte stream: the sender  *)
(* writes each message with one _o(), the network cuts the stream anywhere, *)
(* and the reader, which knows the length of the next message, asks for    *)
(* exactly as many bytes.  Reader selects one of the library's five        *)
(* implementations.  A byte is its position in the stream.                 *)
(***************************************************************************)
EXTENDS Integers

CONSTANTS Messages,    \* how many there are
          Bound,       \* Bound[k]: where message k ends; Bound[0] = 0
          SizeMax,     \* size_t counts modulo this; bounds it
          Reader,      \* whose _i_fixsize it is
          TimeoutSet,  \* whether a timeout (or a signal) may end a read() early
          PeerMayFail  \* whether the sender may fail or close early

ASSUME StreamAssumption ==
  /\ Messages \in Nat
  /\ Bound \in [0..Messages -> Nat]
  /\ Bound[0] = 0
  /\ \A j, k \in 0..Messages : j < k => Bound[j] < Bound[k]
  /\ \A k \in 0..(Messages - 1) : Bound[k + 1] - Bound[k] < SizeMax
  /\ SizeMax \in Nat \ {0}
  /\ Reader \in {"base_fd", "no_waitall", "ssl", "pipe", "waitall"}
  /\ TimeoutSet \in BOOLEAN /\ PeerMayFail \in BOOLEAN

VARIABLES
  written,  \* messages written by the sender
  sent,     \* bytes it gave to the kernel
  closed,   \* whether it has closed its end
  arrived,  \* bytes that can be or have been read
  pc,       \* "idle", "first", "more", or "failed" when the read has thrown
  read,     \* messages read
  rest,     \* the bytes that the current read still has to get
  got       \* bytes taken out of the stream

sender == <<written, sent, closed>>
reader == <<pc, read, rest, got>>
vars == <<written, sent, closed, arrived, pc, read, rest, got>>

TypeOK ==
  /\ written \in 0..Messages
  /\ sent \in 0..Bound[Messages]
  /\ closed \in BOOLEAN
  /\ arrived \in 0..sent
  /\ pc \in {"idle", "first", "more", "failed"}
  /\ read \in 0..Messages
  /\ rest \in 0..(SizeMax - 1)
  /\ got \in 0..arrived

Init ==
  /\ written = 0 /\ sent = 0 /\ closed = FALSE
  /\ arrived = 0
  /\ pc = "idle" /\ read = 0 /\ rest = 0 /\ got = 0

-----------------------------------------------------------------------------
Length(k) == Bound[k + 1] - Bound[k]

\* The bytes a read() asks for: all of the message, and then, in the loops of
\* base_fd, of base_ssl and of base_socket without MSG_WAITALL, all of it again.
Requested(l) ==
  IF pc = "first" \/ Reader \notin {"base_fd", "no_waitall", "ssl"} THEN l
  ELSE Length(read)

\* Whether the loop takes a read() of n bytes for a success: base_fd's second
\* one does not if it is of one byte.
Enough(n) == ~(Reader = "base_fd" /\ pc = "more" /\ n = 1)

\* MSG_WAITALL: anything less than the message is thrown away.
Complete(n) == Reader = "waitall" => n = rest

\* read(), recv() and SSL_read() return what there is, at least one byte, and
\* recv(MSG_WAITALL) stops early only at the end or at a timeout.
Interrupted == TimeoutSet \/ (closed /\ arrived = sent)
Returned(n) ==
  /\ n \in 1..(arrived - got)
  /\ n <= Requested(rest)
  /\ Reader = "waitall" /\ n < rest => Interrupted /\ n = arrived - got

-----------------------------------------------------------------------------
\* rest -= r, in the arithmetic of size_t.
Remaining(n) == (rest - n) % SizeMax

\* _o(): one write() or send() of the whole message.
Write ==
  /\ ~closed /\ written < Messages
  /\ written' = written + 1
  /\ sent' = Bound[written + 1]
  /\ UNCHANGED <<closed, arrived, reader>>

\* A short write() or send(): _o() throws and the sender gives up.
WriteFails ==
  /\ PeerMayFail /\ ~closed /\ written < Messages
  /\ \E n \in 0..(Length(written) - 1) : sent' = Bound[written] + n
  /\ closed' = TRUE
  /\ UNCHANGED <<written, arrived, reader>>

Close ==
  /\ ~closed
  /\ PeerMayFail \/ written = Messages
  /\ closed' = TRUE
  /\ UNCHANGED <<written, sent, arrived, reader>>

\* The network delivers any part of what was sent.
Deliver ==
  /\ \E n \in (arrived + 1)..sent : arrived' = n
  /\ UNCHANGED <<sender, reader>>

\* _i_fixsize(d, len) is called for the next message.
Call ==
  /\ pc = "idle" /\ read < Messages
  /\ pc' = "first"
  /\ rest' = Length(read)
  /\ UNCHANGED <<sender, arrived, read, got>>

\* One read() of the loop.
Read ==
  /\ pc \in {"first", "more"}
  /\ \E n \in 1..(arrived - got) :
       /\ Returned(n)
       /\ got' = got + n
       /\ rest' = Remaining(n)
       /\ IF ~Enough(n) \/ ~Complete(n) THEN pc' = "failed" /\ UNCHANGED read
          ELSE IF rest' = 0 \/ Reader = "waitall" THEN pc' = "idle" /\ read' = read + 1
          ELSE pc' = "more" /\ UNCHANGED read
  /\ UNCHANGED <<sender, arrived>>

\* The read() that returns 0 at the end of the stream, or -1.
ReadFails ==
  /\ pc \in {"first", "more"}
  /\ arrived = got
  /\ Interrupted
  /\ pc' = "failed"
  /\ UNCHANGED <<sender, arrived, read, rest, got>>

Next == Write \/ WriteFails \/ Close \/ Deliver \/ Call \/ Read \/ ReadFails

\* What was sent arrives, and the reader goes on reading.
Spec == Init /\ [][Next]_vars /\ WF_vars(Deliver) /\ WF_vars(Call) /\ WF_vars(Read)

-----------------------------------------------------------------------------
\* A strict read takes exactly its message out of the stream, however the stream
\* was cut: the next one starts where it should (base_io.hpp:232-233).
Framed == pc = "idle" => got = Bound[read]

\* A read throws only if the stream has ended, or a timeout was set.
NoFalseError == pc = "failed" => Interrupted

\* A read takes no byte of the message after its own, even if it fails then.
StaysInMessage == pc # "idle" => got <= Bound[read + 1]
=============================================================================
