------------------------------- MODULE Tunnel -------------------------------
(***************************************************************************)
(* do_copy_tunneling: one thread that copies what each of two sockets gets *)
(* to the other, through one buffer, until one is closed.  A byte sent by  *)
(* a side is its number; the kernel's buffers are bounded, and a send()    *)
(* blocks while the one of its peer is full.                               *)
(***************************************************************************)
EXTENDS Integers, SequencesExt

CONSTANTS Count,       \* how many bytes each side sends
          KernelSize,  \* the size of the kernel's buffers
          BufferSize,  \* of the tunnel's
          Readers,     \* the sides that read what they are sent
          Closers,     \* the sides that may close
          Timeout      \* whether the tunnel has a read timeout

Sides == {1, 2}
Other(d) == 3 - d

ASSUME TunnelAssumption ==
  /\ Count \in Nat /\ KernelSize \in Nat \ {0} /\ BufferSize \in Nat \ {0}
  /\ Readers \subseteq Sides /\ Closers \subseteq Sides
  /\ Timeout \in BOOLEAN

VARIABLES
  sent,    \* how many bytes each side has sent
  closed,  \* whether it has closed
  inbox,   \* what it sent and the tunnel has not read
  outbox,  \* what the tunnel wrote for the other side, not read there yet
  got,     \* what the other side has read of it
  pc,      \* "select", "read", "write"; or "returned" or "thrown"
  ready,   \* the sockets that select() found
  turn,    \* the one that is served
  buf      \* what of its bytes is still to be written

ends == <<sent, closed>>
tunnel == <<pc, ready, turn, buf>>
vars == <<sent, closed, inbox, outbox, got, pc, ready, turn, buf>>

TypeOK ==
  /\ sent \in [Sides -> 0..Count]
  /\ closed \in [Sides -> BOOLEAN]
  /\ \A d \in Sides : Len(inbox[d]) <= KernelSize /\ Len(outbox[d]) <= KernelSize
  /\ pc \in {"select", "read", "write", "returned", "thrown"}
  /\ ready \subseteq Sides /\ turn \in Sides
  /\ Len(buf) <= BufferSize /\ (buf # <<>> => pc \in {"write", "thrown"})

Init ==
  /\ sent = [d \in Sides |-> 0] /\ closed = [d \in Sides |-> FALSE]
  /\ inbox = [d \in Sides |-> <<>>] /\ outbox = [d \in Sides |-> <<>>] /\ got = [d \in Sides |-> <<>>]
  /\ pc = "select" /\ ready = {} /\ turn = 1 /\ buf = <<>>

-----------------------------------------------------------------------------
Readable_Data == {d \in Sides : inbox[d] # <<>>}
\* The sockets that a read() would not block on, at the end of their stream too.
Readable == {d \in Sides : inbox[d] # <<>> \/ closed[d]}

AtEnd_Seen(d) == closed[d]
\* read() returns 0: nothing is left before the end.
AtEnd(d) == closed[d] /\ inbox[d] = <<>>

Sink_Same(d) == d
\* s1's bytes are written to s2, and s2's to s1.
Sink(d) == Other(d)

\* How much a read() asks for.
Asked == BufferSize

\* After the first socket the second, then select() again.
Served(d) == IF d = 1 THEN turn' = 2 /\ pc' = "read" ELSE turn' = 1 /\ pc' = "select"

-----------------------------------------------------------------------------
Send(d) ==
  /\ ~closed[d] /\ sent[d] < Count /\ Len(inbox[d]) < KernelSize
  /\ sent' = [sent EXCEPT ![d] = @ + 1]
  /\ inbox' = [inbox EXCEPT ![d] = Append(@, sent'[d])]
  /\ UNCHANGED <<closed, outbox, got, tunnel>>

\* The side other than d reads.
Receive(d) ==
  /\ Other(d) \in Readers /\ ~closed[Other(d)] /\ outbox[d] # <<>>
  /\ got' = [got EXCEPT ![d] = Append(@, Head(outbox[d]))]
  /\ outbox' = [outbox EXCEPT ![d] = Tail(@)]
  /\ UNCHANGED <<ends, inbox, tunnel>>

Close(d) ==
  /\ d \in Closers /\ ~closed[d]
  /\ closed' = [closed EXCEPT ![d] = TRUE]
  /\ UNCHANGED <<sent, inbox, outbox, got, tunnel>>

Select ==
  /\ pc = "select" /\ Readable # {}
  /\ ready' = Readable
  /\ turn' = 1
  /\ pc' = "read"
  /\ UNCHANGED <<ends, inbox, outbox, got, buf>>

TimesOut ==
  /\ pc = "select" /\ Timeout /\ Readable = {}
  /\ pc' = "thrown"
  /\ UNCHANGED <<ends, inbox, outbox, got, ready, turn, buf>>

\* FD_ISSET is false.
Skip ==
  /\ pc = "read" /\ turn \notin ready
  /\ Served(turn)
  /\ UNCHANGED <<ends, inbox, outbox, got, ready, buf>>

Read ==
  /\ pc = "read" /\ turn \in ready /\ ~AtEnd(turn) /\ inbox[turn] # <<>>
  /\ \E n \in 1..Len(inbox[turn]) :
       /\ n <= Asked
       /\ buf' = SubSeq(inbox[turn], 1, n)
       /\ inbox' = [inbox EXCEPT ![turn] = SubSeq(@, n + 1, Len(@))]
  /\ pc' = "write"
  /\ UNCHANGED <<ends, outbox, got, ready, turn>>

\* is_connection_closed(): the tunnel returns.
End ==
  /\ pc = "read" /\ turn \in ready /\ AtEnd(turn)
  /\ pc' = "returned"
  /\ UNCHANGED <<ends, inbox, outbox, got, ready, turn, buf>>

\* The kernel takes a part of what send() was given, when it has room: also for
\* a peer that has closed, until the reset has come back.
Write ==
  /\ pc = "write"
  /\ LET to == Other(Sink(turn))
     IN  /\ Len(outbox[to]) < KernelSize
         /\ outbox' = [outbox EXCEPT ![to] = Append(@, Head(buf))]
  /\ buf' = Tail(buf)
  /\ IF Len(buf) = 1 THEN Served(turn) ELSE UNCHANGED <<pc, turn>>
  /\ UNCHANGED <<ends, inbox, got, ready>>

\* send() or read() fails once it is known that the peer has closed or reset: what
\* it throws is not is_connection_closed().
Fails ==
  /\ \/ pc = "write" /\ closed[Other(turn)]
     \/ pc = "read" /\ turn \in ready /\ closed[turn] /\ outbox[Other(turn)] # <<>>
  /\ pc' = "thrown"
  /\ UNCHANGED <<ends, inbox, outbox, got, ready, turn, buf>>

Copy == Select \/ Skip \/ Read \/ End \/ Write \/ Fails
Next == Copy \/ TimesOut \/ \E d \in Sides : Send(d) \/ Receive(d) \/ Close(d)

\* The tunnel runs whenever it is not blocked, and the sides that read do.  No
\* timeout is counted on.
Spec == Init /\ [][Next]_vars /\ WF_vars(Copy) /\ \A d \in Sides : WF_vars(Receive(d))

-----------------------------------------------------------------------------
\* Each side reads what the other sent, in order, and nothing else: the bytes on
\* their way are in one place each.
Transparent ==
  \A d \in Sides :
    got[d] \o outbox[d] \o (IF turn = d THEN buf ELSE <<>>) \o inbox[d] = [k \in 1..sent[d] |-> k]

\* When the tunnel returns because a side has closed, all that side had sent
\* has been written to the other.
EndIsLast == pc = "returned" => Len(got[turn] \o outbox[turn]) = sent[turn]

\* The invariant of the tunnel, whose buffers are bounded.
TunnelInv == TypeOK /\ Transparent /\ EndIsLast

\* What a side sends reaches the other, whatever comes the other way, unless one
\* of them closes.
AllDelivered ==
  \A d \in Sides : \A n \in 1..Count :
    (sent[d] = n /\ pc # "thrown") ~> (Len(got[d]) >= n \/ \E c \in Sides : closed[c])

\* "Blocks until disconnection of one side" (tunnel.hpp:34).
EndsOnClose == (closed[1] \/ closed[2]) ~> (pc \in {"returned", "thrown"})
=============================================================================
